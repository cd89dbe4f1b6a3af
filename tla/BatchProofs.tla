---------------------------- MODULE BatchProofs -----------------------------
(***************************************************************************)
(* What plan and generate keep to whatever lies in the wallet files, for   *)
(* any coins, fees, labels and number of plans.                            *)
(***************************************************************************)
EXTENDS Batch, FiniteSetTheorems, WellFoundedInduction, TLAPS

----------------------------------------------------------------------------
(* Every PSBT pays to the wallet that was found on the device.             *)

PaysB(S) == \A a \in S : a.wallet = "B"

\* The gate of plan lets one wallet through, and what is built from it, saved
\* and written carries that wallet along.
Confirmed ==
    /\ step \in {"labels", "review", "options"} => snap.b.wallet = "B"
    /\ PaysB(mapping)
    /\ session # None => PaysB(session.assignments)
    /\ step \in {"ack", "bundle"} => session # None
    /\ PaysB(psbts)

\* A mapping pays to the wallet it is built on.
LEMMA DrawnPays ==
    ASSUME NEW S, NEW b, b.wallet = "B", NEW A \in Drawn(S, b)
    PROVE  PaysB(A)
BY DEF Drawn, Assignments, Assigned, PaysB

LEMMA InitConfirmed == Init => Confirmed
BY DEF Init, Confirmed, PaysB

\* plan up to the review.
LEMMA PlanConfirmed == Confirmed /\ Plan => Confirmed'
<1> SUFFICES ASSUME Confirmed, Plan PROVE Confirmed'
  OBVIOUS
<1> USE DEF Confirmed, world, files, directory, operator, command, NoCommand
<1>1. CASE PlanStart
  BY <1>1 DEF PlanStart, PaysB
<1>2. CASE ConfirmOwnership
  BY <1>2 DEF ConfirmOwnership
<1>3. CASE AnswerLabel
  BY <1>3 DEF AnswerLabel
<1>4. CASE BuildMapping
  <2>1. CASE included = {}
    BY <1>4, <2>1 DEF BuildMapping, PaysB
  <2>2. CASE included # {}
    <3>1. PaysB(mapping')
      BY <1>4, <2>2, DrawnPays DEF BuildMapping
    <3> QED
      BY <1>4, <2>2, <3>1 DEF BuildMapping
  <2> QED
    BY <2>1, <2>2
<1>5. CASE OpenOptions
  BY <1>5 DEF OpenOptions
<1>6. CASE ChangeFees
  <2>1. PaysB(mapping')
    BY <1>6, DrawnPays DEF ChangeFees
  <2> QED
    BY <1>6, <2>1 DEF ChangeFees
<1>7. CASE CloseOptions
  BY <1>7 DEF CloseOptions
<1>8. CASE Proceed
  BY <1>8 DEF Proceed, PaysB
<1> QED
  BY <1>1, <1>2, <1>3, <1>4, <1>5, <1>6, <1>7, <1>8 DEF Plan

LEMMA GenerateConfirmed == Confirmed /\ Generate => Confirmed'
<1> SUFFICES ASSUME Confirmed, Generate PROVE Confirmed'
  OBVIOUS
<1> USE DEF Confirmed, world, files, directory, operator, command, NoCommand
<1>1. CASE GenerateStart
  BY <1>1 DEF GenerateStart
<1>2. CASE Acknowledge
  BY <1>2 DEF Acknowledge, PaysB
<1>3. CASE WritePsbt
  BY <1>3 DEF WritePsbt, Reached, Written, PaysB
<1>4. CASE BundleFails
  BY <1>4 DEF BundleFails, PaysB
<1>5. CASE WriteManifest
  BY <1>5 DEF WriteManifest
<1>6. CASE WriteSchedule
  BY <1>6 DEF WriteSchedule
<1>7. CASE WriteSkipped
  BY <1>7 DEF WriteSkipped, PaysB
<1> QED
  BY <1>1, <1>2, <1>3, <1>4, <1>5, <1>6, <1>7 DEF Generate

\* Nobody but plan and generate touches the command, session or PSBTs, but
\* for a command that ends early.
LEMMA OthersLeave ==
    Abort \/ Around =>
        /\ UNCHANGED <<session, psbts, manifest, accepted>>
        /\ NoCommand \/ UNCHANGED command
BY DEF Abort, Around, Crash, Misplace, Recopy, CleanUpAndResume, SpendElsewhere, Arrive, Freeze,
       ReceiveElsewhere, Sign, Broadcast, world, files, directory, operator, command

LEMMA StepConfirmed == Confirmed /\ [Next]_vars => Confirmed'
<1>1. ASSUME Confirmed, Abort \/ Around PROVE Confirmed'
  BY <1>1, OthersLeave DEF Confirmed, NoCommand, command, PaysB
<1>2. ASSUME Confirmed, UNCHANGED vars PROVE Confirmed'
  BY <1>2 DEF Confirmed, vars, world, files, directory, operator, command
<1> QED
  BY <1>1, <1>2, PlanConfirmed, GenerateConfirmed DEF Next

\* Whichever wallet file is swapped, stale or misplaced at whichever moment, no
\* PSBT pays to a wallet that was not found on the device.
THEOREM PaysOnlyConfirmed == Spec => []PaysConfirmedWallet
<1>1. Confirmed => PaysConfirmedWallet
  BY DEF Confirmed, PaysB, PaysConfirmedWallet
<1> QED
  BY <1>1, InitConfirmed, StepConfirmed, PTL DEF Spec

----------------------------------------------------------------------------
(* No bundle but one that the operator has seen and accepted.              *)

\* The table on the screen is the mapping at the only prompt that takes
\* PROCEED; from there on the mapping is copied and never built again.
Agreed ==
    /\ step = "review" => shown = mapping
    /\ session # None => session.assignments \in accepted
    /\ step \in {"ack", "bundle"} => session # None
    /\ BundleWasAccepted

LEMMA InitAgreed == Init => Agreed
BY DEF Init, Agreed, BundleWasAccepted

LEMMA PlanAgreed == Agreed /\ Plan => Agreed'
<1> SUFFICES ASSUME Agreed, Plan PROVE Agreed'
  OBVIOUS
<1> USE DEF Agreed, BundleWasAccepted, world, files, directory, operator, NoCommand
<1>1. CASE Proceed
  BY <1>1 DEF Proceed
<1>2. CASE BuildMapping
  BY <1>2 DEF BuildMapping
<1>3. CASE CloseOptions
  BY <1>3 DEF CloseOptions
<1>4. CASE PlanStart \/ ConfirmOwnership \/ AnswerLabel \/ OpenOptions \/ ChangeFees
  BY <1>4 DEF PlanStart, ConfirmOwnership, AnswerLabel, OpenOptions, ChangeFees
<1> QED
  BY <1>1, <1>2, <1>3, <1>4 DEF Plan

LEMMA GenerateAgreed == Agreed /\ Generate => Agreed'
<1> SUFFICES ASSUME Agreed, Generate PROVE Agreed'
  OBVIOUS
<1> USE DEF Agreed, BundleWasAccepted, world, files, directory, operator, NoCommand
<1>1. CASE WriteManifest
  BY <1>1 DEF WriteManifest
<1>2. CASE GenerateStart \/ Acknowledge
  BY <1>2 DEF GenerateStart, Acknowledge
<1>3. CASE WritePsbt \/ BundleFails \/ WriteSchedule \/ WriteSkipped
  BY <1>3 DEF WritePsbt, BundleFails, WriteSchedule, WriteSkipped
<1> QED
  BY <1>1, <1>2, <1>3 DEF Generate

LEMMA StepAgreed == Agreed /\ [Next]_vars => Agreed'
<1>1. ASSUME Agreed, Abort \/ Around PROVE Agreed'
  BY <1>1, OthersLeave DEF Agreed, BundleWasAccepted, NoCommand, command
<1>2. ASSUME Agreed, UNCHANGED vars PROVE Agreed'
  BY <1>2 DEF Agreed, BundleWasAccepted, vars, world, files, directory, operator, command
<1> QED
  BY <1>1, <1>2, PlanAgreed, GenerateAgreed DEF Next

\* Fees drawn anew in the options, sessions planned over, bundles that fail
\* half-way and killed commands: a complete bundle is one that was accepted.
THEOREM BundleIsAccepted == Spec => []BundleWasAccepted
<1>1. Agreed => BundleWasAccepted
  BY DEF Agreed
<1> QED
  BY <1>1, InitAgreed, StepAgreed, PTL DEF Spec

----------------------------------------------------------------------------
(* Indices and names of a mapping.                                         *)

\* A set of numbers that is not empty has a least one.
LEMMA LeastNumber ==
    ASSUME NEW S \in SUBSET Nat, S # {}
    PROVE  \E m \in S : \A i \in S : m <= i
<1> DEFINE Less == {ss \in Nat \X Nat : ss[1] < ss[2]}
<1>1. IsWellFoundedOn(Less, Nat)
  BY NatLessThanWellFounded DEF OpToRel
<1> HIDE DEF Less
<1>2. PICK m \in S : \A i \in S : <<i, m>> \notin Less
  BY <1>1, WFMin
<1>3. ASSUME NEW i \in S PROVE m <= i
  <2>1. i \in Nat /\ m \in Nat /\ <<i, m>> \in Nat \X Nat
    OBVIOUS
  <2>2. ~(i < m)
    BY <1>2, <2>1 DEF Less
  <2> QED BY <2>1, <2>2
<1> QED BY <1>3

\* The members of S ahead of i.
Ahead(S, i) == {j \in S : j < i}

\* A finite set of numbers has a first member, a second one and so on.
LEMMA MemberOfEveryRank ==
    ASSUME NEW F \in SUBSET Nat, IsFiniteSet(F), NEW k \in Nat, k < Cardinality(F)
    PROVE  \E i \in F : Cardinality(Ahead(F, i)) = k
<1> DEFINE Unranked == {n \in Nat : n < Cardinality(F)
                            /\ \A i \in F : Cardinality(Ahead(F, i)) # n}
<1>1. SUFFICES ASSUME Unranked # {} PROVE FALSE
  OBVIOUS
<1>2. PICK n \in Unranked : \A r \in Unranked : n <= r
  BY <1>1, LeastNumber
<1>3. Cardinality(F) \in Nat /\ n \in Nat /\ n < Cardinality(F)
  BY FS_CardinalityType
<1>4. \A i \in F : IsFiniteSet(Ahead(F, i)) /\ Ahead(F, i) \subseteq F /\ i \notin Ahead(F, i)
  BY FS_Subset DEF Ahead
<1>5. CASE n = 0
  <2>1. PICK m \in F : \A i \in F : m <= i
    BY <1>3, <1>5, FS_EmptySet, LeastNumber
  <2>2. ASSUME NEW j \in F PROVE ~(j < m)
    BY <2>1
  <2>3. Ahead(F, m) = {}
    BY <2>2 DEF Ahead
  <2> QED BY <1>5, <2>3, FS_EmptySet
<1>6. CASE n # 0
  <2>1. n - 1 \in Nat /\ n - 1 < Cardinality(F) /\ n - 1 \notin Unranked
    BY <1>2, <1>3, <1>6
  <2>2. PICK i \in F : Cardinality(Ahead(F, i)) = n - 1
    BY <2>1
  <2> DEFINE upto == Ahead(F, i) \cup {i}
             rest == {j \in F : j > i}
  <2>3. IsFiniteSet(upto) /\ Cardinality(upto) = n
    <3>1. /\ IsFiniteSet(Ahead(F, i) \cup {i})
          /\ Cardinality(Ahead(F, i) \cup {i}) = Cardinality(Ahead(F, i)) + 1
      BY <1>4, FS_AddElement
    <3> QED BY <1>3, <2>2, <3>1
  <2>4. rest # {}
    <3>1. ASSUME rest = {}, NEW j \in F PROVE j \in upto
      <4>1. j < i \/ j = i
        BY <3>1
      <4> QED BY <4>1 DEF Ahead
    <3>2. rest = {} => upto = F
      BY <1>4, <3>1
    <3> HIDE DEF rest, upto
    <3> QED BY <1>3, <2>3, <3>2
  <2>5. PICK g \in rest : \A j \in rest : g <= j
    BY <2>4, LeastNumber
  <2>6. Ahead(F, g) = upto
    <3>1. ASSUME NEW j \in F PROVE j < g <=> j < i \/ j = i
      BY <2>5
    <3> QED BY <2>5, <3>1 DEF Ahead
  <2> QED BY <2>3, <2>5, <2>6
<1> QED BY <1>5, <1>6

\* Members of S are told apart by how many others are ahead of them.
LEMMA RankTellsApart ==
    ASSUME NEW S \in SUBSET Int, IsFiniteSet(S), NEW c \in S, NEW d \in S,
           Cardinality(Ahead(S, c)) = Cardinality(Ahead(S, d))
    PROVE  c = d
<1>1. ASSUME NEW a \in S, NEW b \in S, a < b PROVE Cardinality(Ahead(S, a)) # Cardinality(Ahead(S, b))
  <2>1. \A j \in S : j < a => j < b
    BY <1>1
  <2>2. ~(a < a)
    OBVIOUS
  <2>3. Ahead(S, a) \subseteq Ahead(S, b) /\ a \in Ahead(S, b) /\ a \notin Ahead(S, a)
    BY <1>1, <2>1, <2>2 DEF Ahead
  <2>4. IsFiniteSet(Ahead(S, b))
    BY FS_Subset DEF Ahead
  <2> QED BY <2>3, <2>4, FS_Subset
<1> QED BY <1>1

\* Few enough indices are used for every coin to get one.
Few(used) == used \subseteq Indices /\ Cardinality(used) <= Len(Value) + MaxMishaps

LEMMA CoinsAreFew ==
    /\ Len(Value) \in Nat /\ Coins \subseteq Nat
    /\ IsFiniteSet(Coins) /\ Cardinality(Coins) = Len(Value)
    /\ IsFiniteSet(Indices) /\ Cardinality(Indices) = MaxIndex + 1
<1>1. Len(Value) \in Nat /\ MaxIndex \in Nat
  BY BatchAssumption
<1>2. /\ IsFiniteSet(1 .. Len(Value))
      /\ Cardinality(1 .. Len(Value)) = IF 1 > Len(Value) THEN 0 ELSE Len(Value) - 1 + 1
  BY <1>1, FS_Interval
<1>3. /\ IsFiniteSet(0 .. MaxIndex)
      /\ Cardinality(0 .. MaxIndex) = IF 0 > MaxIndex THEN 0 ELSE MaxIndex - 0 + 1
  BY <1>1, FS_Interval
<1>4. Cardinality(1 .. Len(Value)) = Len(Value) /\ Cardinality(0 .. MaxIndex) = MaxIndex + 1
  BY <1>1, <1>2, <1>3
<1> QED BY <1>1, <1>2, <1>3, <1>4 DEF Coins, Indices

\* A coin gets an index that is not used; no two coins get the same one.
LEMMA IndexIsFree ==
    ASSUME NEW S \in SUBSET Coins, NEW used, Few(used), NEW c \in S
    PROVE  /\ IndexOf(c, S, used) \in Indices \ used
           /\ Cardinality(Ahead(Indices \ used, IndexOf(c, S, used))) = Cardinality(Ahead(S, c))
<1> DEFINE F == Indices \ used
<1>1. /\ IsFiniteSet(used) /\ Cardinality(used) \in Nat /\ IsFiniteSet(F)
      /\ Cardinality(F) = (MaxIndex + 1) - Cardinality(used)
  <2>1. Indices \cap used = used /\ used \in SUBSET Indices
    BY DEF Few
  <2>2. IsFiniteSet(used) /\ Cardinality(used) \in Nat
    BY <2>1, CoinsAreFew, FS_Subset, FS_CardinalityType
  <2>3. IsFiniteSet(F) /\ Cardinality(F) = Cardinality(Indices) - Cardinality(Indices \cap used)
    BY CoinsAreFew, FS_Difference
  <2> QED BY <2>1, <2>2, <2>3, CoinsAreFew
<1>2. Cardinality(Ahead(S, c)) \in Nat /\ Cardinality(Ahead(S, c)) <= Len(Value)
  <2>1. Ahead(S, c) \in SUBSET Coins
    BY DEF Ahead
  <2> QED BY <2>1, CoinsAreFew, FS_Subset, FS_CardinalityType
<1>3. Cardinality(Ahead(S, c)) < Cardinality(F)
  BY <1>1, <1>2, CoinsAreFew, BatchAssumption DEF Few
<1>4. F \in SUBSET Nat
  BY DEF Indices
<1> HIDE DEF F
<1>5. \E i \in F : Cardinality(Ahead(F, i)) = Cardinality(Ahead(S, c))
  BY <1>1, <1>2, <1>3, <1>4, MemberOfEveryRank
<1> QED BY <1>5 DEF IndexOf, Ahead, F

\* A mapping of these coins: every coin once, with a name and an index of its
\* own.
Fits(A, S) ==
    /\ A # {} /\ A \subseteq Assignment /\ CoinsOf(A) = S
    /\ \A a1, a2 \in A : a1.coin = a2.coin \/ a1.name = a2.name \/ a1.index = a2.index => a1 = a2

LEMMA NamesDiffer ==
    ASSUME NEW S \in SUBSET Coins, NEW c \in S
    PROVE  /\ NameOf(c, S) \in Nat \X STRING \X Nat
           /\ \A d \in S : NameOf(c, S) = NameOf(d, S) => c = d
<1>1. IsFiniteSet(S) /\ S \in SUBSET Int
  <2>1. IsFiniteSet(S)
    BY CoinsAreFew, FS_Subset
  <2>2. S \in SUBSET Int
    BY CoinsAreFew
  <2> QED BY <2>1, <2>2
<1>2. ASSUME NEW T \in SUBSET S PROVE Cardinality(T) \in Nat
  BY <1>1, FS_Subset, FS_CardinalityType
<1>3. ASSUME NEW d \in S
      PROVE  \E n \in Nat : NameOf(d, S) = <<Cardinality(Ahead(S, d)) + 1, Label[d], n>>
  <2>1. Cardinality({e \in {f \in S : f < d} : Label[e] = Label[d]}) \in Nat
    BY <1>2
  <2> QED BY <2>1 DEF NameOf, Ahead
<1>4. ASSUME NEW d \in S PROVE Cardinality(Ahead(S, d)) \in Nat
  BY <1>2 DEF Ahead
<1>5. Label[c] \in STRING
  BY BatchAssumption
<1>6. NameOf(c, S) \in Nat \X STRING \X Nat
  BY <1>3, <1>4, <1>5
<1>7. ASSUME NEW d \in S, NameOf(c, S) = NameOf(d, S) PROVE c = d
  <2>1. Cardinality(Ahead(S, c)) + 1 = Cardinality(Ahead(S, d)) + 1
    BY <1>3, <1>7
  <2>2. Cardinality(Ahead(S, c)) = Cardinality(Ahead(S, d))
    BY <1>4, <2>1
  <2> QED BY <1>1, <2>2, RankTellsApart
<1> QED BY <1>6, <1>7

LEMMA DrawnFits ==
    ASSUME NEW S \in SUBSET Coins, S # {}, NEW b \in FilesOfB, Few(b.used), plans \in Nat,
           NEW A \in Drawn(S, b)
    PROVE  /\ Fits(A, S) /\ Fees # {}
           /\ \A a \in A : a.plan = plans /\ a.index \notin b.used
<1>1. PICK fees \in [S -> Fees] : A = Assignments(S, b, fees)
  BY DEF Drawn
<1> DEFINE of(c) == Assigned(c, S, b, fees[c])
<1>2. A = {of(c) : c \in S}
  BY <1>1 DEF Assignments
<1>3. b.wallet \in {"A", "B", "other"}
  BY DEF FilesOfB, Foreign
<1>4. ASSUME NEW c \in S
      PROVE  /\ of(c) \in Assignment /\ of(c).coin = c /\ of(c).plan = plans
             /\ of(c).name = NameOf(c, S) /\ of(c).index = IndexOf(c, S, b.used)
             /\ of(c).index \notin b.used
  <2>1. IndexOf(c, S, b.used) \in Indices \ b.used
    BY IndexIsFree
  <2>2. NameOf(c, S) \in Nat \X STRING \X Nat
    BY NamesDiffer
  <2>3. fees[c] \in Fees /\ c \in Coins
    OBVIOUS
  <2> QED BY <1>3, <2>1, <2>2, <2>3 DEF Assigned, Assignment
<1>5. ASSUME NEW c \in S, NEW d \in S, IndexOf(c, S, b.used) = IndexOf(d, S, b.used)
      PROVE  c = d
  <2> DEFINE F == Indices \ b.used
  <2>1. /\ Cardinality(Ahead(F, IndexOf(c, S, b.used))) = Cardinality(Ahead(S, c))
        /\ Cardinality(Ahead(F, IndexOf(d, S, b.used))) = Cardinality(Ahead(S, d))
    BY IndexIsFree
  <2>2. IsFiniteSet(S)
    BY CoinsAreFew, FS_Subset
  <2>3. S \in SUBSET Int
    BY CoinsAreFew
  <2>4. Cardinality(Ahead(S, c)) = Cardinality(Ahead(S, d))
    BY <1>5, <2>1
  <2> QED BY <2>2, <2>3, <2>4, RankTellsApart
<1> HIDE DEF of
<1>6. CoinsOf(A) = S /\ A # {} /\ A \subseteq Assignment
  BY <1>2, <1>4 DEF CoinsOf
<1>7. ASSUME NEW a1 \in A, NEW a2 \in A,
             a1.coin = a2.coin \/ a1.name = a2.name \/ a1.index = a2.index
      PROVE  a1 = a2
  <2>1. PICK c \in S, d \in S : a1 = of(c) /\ a2 = of(d)
    BY <1>2
  <2>2. c = d
    BY <1>4, <1>5, <1>7, <2>1, NamesDiffer
  <2> QED BY <2>1, <2>2
<1>8. Fees # {}
  BY <1>1
<1> QED BY <1>2, <1>4, <1>6, <1>7, <1>8 DEF Fits

\* There are not more of them than coins.
LEMMA MappingIsSmall ==
    ASSUME NEW S, NEW A, Fits(A, S)
    PROVE  IsFiniteSet(A) /\ Cardinality(A) \in Nat /\ Cardinality(A) <= Len(Value)
<1> DEFINE f == [a \in A |-> a.coin]
<1>1. f \in Injection(A, Coins)
  <2>1. \A a \in A : a.coin \in Coins
    BY DEF Fits, Assignment
  <2>2. \A a1, a2 \in A : a1.coin = a2.coin => a1 = a2
    BY DEF Fits
  <2> QED BY <2>1, <2>2 DEF Injection, IsInjective
<1> HIDE DEF f
<1> QED BY <1>1, CoinsAreFew, FS_Injection, FS_CardinalityType

\* A schedule in any order has every one of them.
LEMMA OrderingIsWhole ==
    ASSUME NEW A, IsFiniteSet(A), NEW o \in Orderings(A)
    PROVE  DOMAIN o = 1 .. Cardinality(A) /\ {o[i] : i \in DOMAIN o} = A
<1>1. /\ Cardinality(A) \in Nat /\ IsFiniteSet(1 .. Cardinality(A))
      /\ Cardinality(1 .. Cardinality(A)) = Cardinality(A)
  <2>1. Cardinality(A) \in Nat
    BY FS_CardinalityType
  <2>2. /\ IsFiniteSet(1 .. Cardinality(A))
        /\ Cardinality(1 .. Cardinality(A))
                = IF 1 > Cardinality(A) THEN 0 ELSE Cardinality(A) - 1 + 1
    BY <2>1, FS_Interval
  <2> QED BY <2>1, <2>2
<1>2. o \in [1 .. Cardinality(A) -> A]
  BY DEF Orderings
<1>3. o \in Injection(1 .. Cardinality(A), A)
  <2>1. \A i, j \in 1 .. Cardinality(A) : i < j => o[i] # o[j]
    BY DEF Orderings
  <2>2. \A i, j \in 1 .. Cardinality(A) : o[i] = o[j] => i = j
    BY <1>1, <2>1
  <2> QED BY <1>2, <2>2 DEF Injection, IsInjective
<1>4. o \in Surjection(1 .. Cardinality(A), A)
  BY <1>1, <1>3, FS_Injection
<1> QED BY <1>2, <1>4 DEF Surjection

----------------------------------------------------------------------------
(* The invariant of the whole batch.                                       *)

\* The coins that were there and are not any more.
Gone == Coins \ (unspent \cup yetToCome)

\* A coin comes once and goes once; an index of Wallet B is used up by a coin
\* that went or by a mishap, so that there are always enough left.
ChainOK ==
    /\ unspent \cap yetToCome = {}
    /\ Cardinality(paidTo) <= Cardinality(Gone) + mishaps
    /\ \A t \in known : t.coin \in Gone
    /\ Few(fileB.used)
    /\ step # "idle" => Few(snap.b.used)

Planning == step \in {"ownership", "labels", "review", "options"}

Scheduled == {schedule[o] : o \in DOMAIN schedule}

\* The mapping on the table fits the coins in the batch, of the copy that plan
\* has read; the one of the session is older, and so is what is scheduled.
PlanOK ==
    /\ Planning => plans < MaxPlans
    /\ step \in {"labels", "review", "options"} => included \subseteq snap.a.unspent
    /\ step \in {"review", "options"} =>
        /\ Fits(mapping, included) /\ Fees # {}
        /\ \A a \in mapping : a.plan = plans /\ a.index \notin snap.b.used
    /\ session # None =>
        /\ Fits(session.assignments, session.included) /\ Fees # {}
        /\ session.included \subseteq session.utxos
        /\ \A a \in session.assignments : a.plan < plans
    /\ Scheduled \subseteq Assignment /\ \A a \in Scheduled : a.plan < plans

Writing == step \in {"ack", "bundle", "schedule", "skipped"}

\* generate has the coins of the session in its copy; it writes them one after
\* the other, and a whole schedule of a session has all of its PSBTs.
BundleOK ==
    /\ Writing => session # None /\ session.included \subseteq snap.a.unspent
    /\ step = "bundle" =>
        \A a \in session.assignments : a.index \notin snap.b.used /\ (a.coin \in asked \/ a \in psbts)
    /\ step \in {"schedule", "skipped"} => session.assignments \subseteq psbts
    /\ step = "skipped" => Scheduled = session.assignments
    /\ session # None /\ Scheduled = session.assignments => Scheduled \subseteq psbts
    /\ \A f, g \in psbts : f.name = g.name => f = g
    /\ DOMAIN schedule \subseteq 1 .. Len(Value)

BatchInv == TypeOK /\ ChainOK /\ PlanOK /\ BundleOK

LEMMA CopiesTyped ==
    ASSUME TypeOK
    PROVE  /\ \A S \in SUBSET Coins : CopyOfA(S) \in FilesOfA
           /\ CopyOfB \in FilesOfB
           /\ Foreign \in FilesOfA /\ Foreign \in FilesOfB
           /\ \A a \in FilesOfA : a.unspent \subseteq Coins
           /\ \A b \in FilesOfB : b.used \subseteq Indices
BY DEF TypeOK, CopyOfA, CopyOfB, FilesOfA, FilesOfB, Foreign

LEMMA InitBatch == Init => BatchInv
<1> SUFFICES ASSUME Init PROVE BatchInv
  OBVIOUS
<1>1. yetToCome \subseteq Coins /\ unspent = Coins \ yetToCome /\ paidTo = {}
  BY BatchAssumption DEF Init
<1>2. CopyOfA({}) \in FilesOfA /\ CopyOfB \in FilesOfB
  BY <1>1 DEF CopyOfA, CopyOfB, FilesOfA, FilesOfB
<1>3. TypeOK
  BY <1>1, <1>2, BatchAssumption DEF Init, TypeOK
<1>4. Gone = {}
  BY <1>1 DEF Gone
<1>5. Cardinality({}) = 0
  BY FS_EmptySet
<1>6. ChainOK
  BY <1>1, <1>4, <1>5, CoinsAreFew, BatchAssumption DEF Init, ChainOK, Few, CopyOfB
<1>7. Scheduled = {}
  BY DEF Init, Scheduled
<1>8. PlanOK /\ BundleOK
  BY <1>7 DEF Init, PlanOK, BundleOK, Planning, Writing
<1> QED BY <1>3, <1>6, <1>8 DEF BatchInv

\* What a plan does to types.
LEMMA PlanType == BatchInv /\ Plan => TypeOK'
<1> SUFFICES ASSUME BatchInv, Plan PROVE TypeOK'
  OBVIOUS
<1> USE DEF BatchInv, TypeOK, world, chain, files, directory, operator, NoCommand
<1>1. CASE PlanStart
  <2>1. snap' \in [a: FilesOfA, b: FilesOfB]
    BY <1>1 DEF PlanStart
  <2>2. snap' # None
    BY <2>1, FileAssumption
  <2> QED BY <1>1, <2>1, <2>2 DEF PlanStart
<1>2. CASE ConfirmOwnership \/ AnswerLabel \/ OpenOptions \/ CloseOptions
  BY <1>2 DEF ConfirmOwnership, AnswerLabel, OpenOptions, CloseOptions
<1>3. CASE BuildMapping \/ ChangeFees
  <2>1. mapping' \subseteq Assignment
    <3>1. CASE mapping' = {}
      BY <3>1
    <3>2. CASE mapping' \in Drawn(included, snap.b)
      <4>1. snap.b \in FilesOfB /\ Few(snap.b.used)
        BY <1>3 DEF BuildMapping, ChangeFees, ChainOK
      <4>2. included \in SUBSET Coins
        BY <1>3, CopiesTyped DEF BuildMapping, ChangeFees, PlanOK
      <4>3. CASE included = {}
        BY <3>2, <4>3 DEF Drawn, Assignments
      <4>4. CASE included # {}
        BY <3>2, <4>1, <4>2, <4>4, DrawnFits DEF Fits
      <4> QED BY <4>3, <4>4
    <3> QED BY <1>3, <3>1, <3>2 DEF BuildMapping, ChangeFees
  <2> QED BY <1>3, <2>1 DEF BuildMapping, ChangeFees
<1>4. CASE Proceed
  BY <1>4, BatchAssumption DEF Proceed, PlanOK, Planning
<1> QED BY <1>1, <1>2, <1>3, <1>4 DEF Plan

LEMMA GenerateType == BatchInv /\ Generate => TypeOK'
<1> SUFFICES ASSUME BatchInv, Generate PROVE TypeOK'
  OBVIOUS
<1> USE DEF BatchInv, TypeOK, world, chain, files, directory, operator, NoCommand
<1>1. CASE GenerateStart
  <2>1. snap' \in [a: FilesOfA, b: FilesOfB]
    BY <1>1 DEF GenerateStart
  <2>2. snap' # None
    BY <2>1, FileAssumption
  <2> QED BY <1>1, <2>1, <2>2 DEF GenerateStart
<1>2. CASE Acknowledge
  BY <1>2 DEF Acknowledge
<1>3. CASE WritePsbt
  <2>1. session.assignments \subseteq Assignment
    BY <1>3 DEF WritePsbt, BundleOK, Writing, PlanOK, Fits
  <2>2. psbts' \subseteq Assignment
    BY <1>3, <2>1 DEF WritePsbt, Reached, Written
  <2> QED BY <1>3, <2>2 DEF WritePsbt
<1>4. CASE WriteManifest
  <2>1. session.assignments \subseteq Assignment
    BY <1>4 DEF WriteManifest, BundleOK, Writing, PlanOK, Fits
  <2> QED BY <1>4, <2>1 DEF WriteManifest
<1>5. CASE BundleFails \/ WriteSchedule \/ WriteSkipped
  BY <1>5 DEF BundleFails, WriteSchedule, WriteSkipped
<1> QED BY <1>1, <1>2, <1>3, <1>4, <1>5 DEF Generate

LEMMA AroundType == BatchInv /\ (Abort \/ Around) => TypeOK'
<1> SUFFICES ASSUME BatchInv, Abort \/ Around PROVE TypeOK'
  OBVIOUS
<1> USE DEF BatchInv, TypeOK, world, chain, files, directory, command, operator, NoCommand
<1>1. CASE Abort
  BY <1>1 DEF Abort
<1>2. CASE Crash
  BY <1>2, BatchAssumption DEF Crash, Mishap
<1>3. CASE Misplace
  BY <1>3, CopiesTyped, BatchAssumption DEF Misplace, Mishap
<1>4. CASE Recopy
  BY <1>4, CopiesTyped DEF Recopy
<1>5. CASE CleanUpAndResume
  BY <1>5 DEF CleanUpAndResume
<1>6. ASSUME NEW c \in Coins, SpendElsewhere(c) \/ Arrive(c) PROVE TypeOK'
  <2>1. mishaps' \in 0 .. MaxMishaps
    BY <1>6, BatchAssumption DEF SpendElsewhere, Arrive, Mishap
  <2> QED BY <1>6, <2>1 DEF SpendElsewhere, Arrive
<1>7. ASSUME NEW c \in Coins, Freeze(c) PROVE TypeOK'
  BY <1>7, CopiesTyped, BatchAssumption DEF Freeze, Mishap
<1>8. ASSUME NEW i \in Indices, ReceiveElsewhere(i) PROVE TypeOK'
  BY <1>8, BatchAssumption DEF ReceiveElsewhere, Mishap
<1>9. ASSUME NEW f \in psbts, Sign(f) PROVE TypeOK'
  BY <1>9 DEF Sign, Written
<1>10. ASSUME NEW o \in DOMAIN schedule, NEW f \in signed, Broadcast(o, f) PROVE TypeOK'
  <2>1. f.index \in Indices /\ o \in 1 .. Len(Value)
    BY <1>10 DEF BundleOK, Assignment
  <2> QED BY <1>10, <2>1 DEF Broadcast
<1> QED BY <1>1, <1>2, <1>3, <1>4, <1>5, <1>6, <1>7, <1>8, <1>9, <1>10 DEF Around

\* One more member, one more at most.
LEMMA OneMore ==
    ASSUME NEW S, NEW x, IsFiniteSet(S)
    PROVE  /\ IsFiniteSet(S \cup {x}) /\ Cardinality(S) \in Nat
           /\ Cardinality(S \cup {x}) <= Cardinality(S) + 1
           /\ x \notin S => Cardinality(S \cup {x}) = Cardinality(S) + 1
BY FS_AddElement, FS_CardinalityType

\* So far there are always enough indices left.
LEMMA PaidAreFew ==
    ASSUME TypeOK, ChainOK
    PROVE  /\ IsFiniteSet(paidTo) /\ IsFiniteSet(Gone) /\ Cardinality(Gone) \in Nat
           /\ Few(paidTo) /\ Few({})
<1>1. Gone \in SUBSET Coins /\ paidTo \in SUBSET Indices
  BY DEF Gone, TypeOK
<1>2. /\ IsFiniteSet(Gone) /\ Cardinality(Gone) \in Nat /\ Cardinality(Gone) <= Len(Value)
      /\ IsFiniteSet(paidTo) /\ Cardinality(paidTo) \in Nat
  BY <1>1, CoinsAreFew, FS_Subset, FS_CardinalityType
<1>3. Cardinality(paidTo) <= Cardinality(Gone) + mishaps
  BY DEF ChainOK
<1>4. mishaps \in Nat /\ mishaps <= MaxMishaps /\ MaxMishaps \in Nat /\ Len(Value) \in Nat
  BY BatchAssumption, CoinsAreFew DEF TypeOK
<1>5. Few(paidTo)
  BY <1>1, <1>2, <1>3, <1>4 DEF Few
<1>6. Few({})
  BY <1>4, FS_EmptySet DEF Few
<1> QED BY <1>2, <1>5, <1>6

\* A command reads the wallet files when it starts, and then never again.
LEMMA CommandReadsOnce ==
    ASSUME Plan \/ Generate \/ Abort
    PROVE  /\ UNCHANGED <<world, files>>
           /\ \/ step' = "idle"
              \/ step = "idle" /\ snap' = [a |-> fileA, b |-> fileB]
              \/ step # "idle" /\ snap' = snap
<1> USE DEF NoCommand
<1>1. CASE Plan
  BY <1>1 DEF Plan, PlanStart, ConfirmOwnership, AnswerLabel, BuildMapping, OpenOptions,
              ChangeFees, CloseOptions, Proceed
<1>2. CASE Generate
  BY <1>2 DEF Generate, GenerateStart, Acknowledge, WritePsbt, BundleFails, WriteManifest,
              WriteSchedule, WriteSkipped
<1>3. CASE Abort
  BY <1>3 DEF Abort
<1> QED BY <1>1, <1>2, <1>3

\* The world moves on beside it.
LEMMA AroundChain == BatchInv /\ Around => ChainOK'
<1> SUFFICES ASSUME BatchInv, Around PROVE ChainOK'
  OBVIOUS
<1> USE DEF BatchInv, chain, world, files, directory, command, operator
<1>1. /\ IsFiniteSet(paidTo) /\ IsFiniteSet(Gone) /\ Cardinality(Gone) \in Nat
      /\ Few(paidTo) /\ Few({}) /\ Cardinality(paidTo) \in Nat
      /\ mishaps \in Nat
  BY PaidAreFew, FS_CardinalityType, BatchAssumption DEF TypeOK
<1>2. /\ Cardinality(paidTo) <= Cardinality(Gone) + mishaps
      /\ unspent \cap yetToCome = {} /\ \A t \in known : t.coin \in Gone
  BY DEF ChainOK
\* The wallet files, when the chain stays as it is.
<1>3. ASSUME UNCHANGED chain, mishaps' = mishaps \/ mishaps' = mishaps + 1,
             Few(fileB'.used), UNCHANGED command \/ step' = "idle"
      PROVE  ChainOK'
  BY <1>1, <1>2, <1>3 DEF ChainOK, Gone
<1>4. CASE Crash
  BY <1>3, <1>4 DEF Crash, Mishap, NoCommand, ChainOK
<1>5. CASE Misplace
  <2>1. fileB' = fileB \/ fileB'.used = {}
    BY <1>5 DEF Misplace, Foreign
  <2> QED BY <1>1, <1>3, <1>5, <2>1 DEF Misplace, Mishap, ChainOK
<1>6. CASE Recopy
  <2>1. fileB' = fileB \/ fileB'.used = paidTo
    BY <1>6 DEF Recopy, CopyOfB
  <2> QED BY <1>1, <1>3, <1>6, <2>1 DEF Recopy, ChainOK
<1>7. CASE CleanUpAndResume \/ \E f \in psbts : Sign(f)
  BY <1>3, <1>7 DEF CleanUpAndResume, Sign, ChainOK
<1>8. ASSUME NEW c \in Coins, Freeze(c) PROVE ChainOK'
  BY <1>3, <1>8 DEF Freeze, Mishap, ChainOK
\* The chain itself: what it does to the count.
<1>9. ASSUME UNCHANGED <<files, command>>, unspent' \cap yetToCome' = {},
             Cardinality(paidTo') <= Cardinality(Gone') + mishaps',
             \A t \in known' : t.coin \in Gone'
      PROVE  ChainOK'
  BY <1>9 DEF ChainOK
<1>10. ASSUME NEW c \in unspent
       PROVE  /\ c \in Coins /\ c \notin Gone
              /\ Coins \ ((unspent \ {c}) \cup yetToCome) = Gone \cup {c}
              /\ Cardinality(Gone \cup {c}) = Cardinality(Gone) + 1
  <2>1. c \in Coins /\ c \notin Gone
    BY <1>10 DEF TypeOK, Gone
  <2>2. Coins \ ((unspent \ {c}) \cup yetToCome) = Gone \cup {c}
    BY <1>2, <1>10, <2>1 DEF Gone
  <2> QED BY <1>1, <2>1, <2>2, OneMore
<1>11. ASSUME NEW c \in Coins, SpendElsewhere(c) PROVE ChainOK'
  <2>1. c \in unspent /\ Gone' = Gone \cup {c}
    BY <1>10, <1>11 DEF SpendElsewhere, Gone
  <2>2. Cardinality(Gone') = Cardinality(Gone) + 1
    BY <1>10, <2>1
  <2> QED BY <1>1, <1>2, <1>9, <1>11, <2>1, <2>2 DEF SpendElsewhere, Mishap
<1>12. ASSUME NEW c \in Coins, Arrive(c) PROVE ChainOK'
  <2>1. Gone' = Gone
    BY <1>12 DEF Arrive, Gone
  <2> QED BY <1>1, <1>2, <1>9, <1>12, <2>1 DEF Arrive, Mishap
<1>13. ASSUME NEW i \in Indices, ReceiveElsewhere(i) PROVE ChainOK'
  <2>1. Gone' = Gone
    BY <1>13 DEF ReceiveElsewhere, Gone
  <2>2. Cardinality(paidTo \cup {i}) <= Cardinality(paidTo) + 1 /\ Cardinality(paidTo \cup {i}) \in Nat
    BY <1>1, OneMore, FS_CardinalityType
  <2> QED BY <1>1, <1>2, <1>9, <1>13, <2>1, <2>2 DEF ReceiveElsewhere, Mishap
<1>14. ASSUME NEW o \in DOMAIN schedule, NEW f \in signed, Broadcast(o, f) PROVE ChainOK'
  <2>1. CASE f.coin \in unspent /\ unspent' = unspent \ {f.coin}
    <3>1. Gone' = Gone \cup {f.coin} /\ Cardinality(Gone') = Cardinality(Gone) + 1
      BY <1>10, <1>14, <2>1 DEF Broadcast, Gone
    <3>2. Cardinality(paidTo \cup {f.index}) <= Cardinality(paidTo) + 1
          /\ Cardinality(paidTo \cup {f.index}) \in Nat
      BY <1>1, OneMore, FS_CardinalityType
    <3>3. paidTo' = paidTo \/ paidTo' = paidTo \cup {f.index}
      BY <1>14, <2>1 DEF Broadcast
    <3>4. Cardinality(paidTo') <= Cardinality(Gone') + mishaps'
      <4>1. mishaps' = mishaps
        BY <1>14 DEF Broadcast
      <4>2. CASE paidTo' = paidTo
        BY <1>1, <1>2, <3>1, <4>1, <4>2
      <4>3. CASE paidTo' = paidTo \cup {f.index}
        <5>1. Cardinality(paidTo') = Cardinality(paidTo \cup {f.index})
          BY <4>3
        <5> QED BY <1>1, <1>2, <3>1, <3>2, <4>1, <5>1
      <4> QED BY <3>3, <4>2, <4>3
    <3>5. \A t \in known' : t.coin \in Gone'
      <4>1. known' = known \/ known' = known \cup {Transaction(f)}
        BY <1>14, <2>1 DEF Broadcast
      <4> QED BY <1>2, <3>1, <4>1 DEF Transaction
    <3>6. unspent' \cap yetToCome' = {}
      BY <1>2, <1>14, <2>1 DEF Broadcast
    <3> QED BY <1>9, <1>14, <3>4, <3>5, <3>6 DEF Broadcast
  <2>2. CASE UNCHANGED <<unspent, paidTo, known>>
    BY <1>2, <1>9, <1>14, <2>2 DEF Broadcast, Gone
  <2> QED BY <1>14, <2>1, <2>2 DEF Broadcast
<1> QED BY <1>4, <1>5, <1>6, <1>7, <1>8, <1>11, <1>12, <1>13, <1>14 DEF Around

LEMMA StepChain == BatchInv /\ [Next]_vars => ChainOK'
<1> SUFFICES ASSUME BatchInv, [Next]_vars PROVE ChainOK'
  OBVIOUS
<1>1. CASE Plan \/ Generate \/ Abort
  <2>1. UNCHANGED <<unspent, paidTo, yetToCome, known, mishaps, fileB>>
    BY <1>1, CommandReadsOnce DEF world, chain, files
  <2>2. step' # "idle" => Few(snap'.b.used)
    BY <1>1, CommandReadsOnce DEF BatchInv, ChainOK
  <2> QED BY <2>1, <2>2 DEF BatchInv, ChainOK, Gone
<1>2. CASE UNCHANGED vars
  BY <1>2 DEF BatchInv, ChainOK, Gone, vars, world, chain, files, command
<1> QED BY <1>1, <1>2, AroundChain DEF Next

\* What plan and generate leave alone of the directory, and the rest does.
LEMMA DirectoryFrame ==
    /\ Plan => UNCHANGED <<psbts, manifest, schedule, skipped, signed, booked, careful, paused>>
    /\ Generate => UNCHANGED <<session, signed, booked, operator>>
    /\ Abort => UNCHANGED directory /\ UNCHANGED operator /\ NoCommand
    /\ Around => UNCHANGED <<session, psbts, manifest, schedule, skipped, plans, careful>>
<1>1. Plan => UNCHANGED <<psbts, manifest, schedule, skipped, signed, booked, careful, paused>>
  BY DEF Plan, PlanStart, ConfirmOwnership, AnswerLabel, BuildMapping, OpenOptions, ChangeFees,
         CloseOptions, Proceed, directory, operator
<1>2. Generate => UNCHANGED <<session, signed, booked, operator>>
  BY DEF Generate, GenerateStart, Acknowledge, WritePsbt, BundleFails, WriteManifest,
         WriteSchedule, WriteSkipped, directory, operator
<1>3. Abort => UNCHANGED directory /\ UNCHANGED operator /\ NoCommand
  BY DEF Abort
<1>4. Around => UNCHANGED <<session, psbts, manifest, schedule, skipped, plans, careful>>
  BY DEF Around, Crash, Misplace, Recopy, CleanUpAndResume, SpendElsewhere, Arrive, Freeze,
         ReceiveElsewhere, Sign, Broadcast, directory, operator
<1> QED BY <1>1, <1>2, <1>3, <1>4

LEMMA DrawingFits ==
    ASSUME BatchInv, step \in {"labels", "options"}, included # {},
           NEW A \in Drawn(included, snap.b)
    PROVE  /\ Fits(A, included) /\ Fees # {}
           /\ \A a \in A : a.plan = plans /\ a.index \notin snap.b.used
<1>1. snap.a \in FilesOfA /\ snap.b \in FilesOfB /\ Few(snap.b.used) /\ plans \in Nat
  BY BatchAssumption DEF BatchInv, TypeOK, ChainOK
<1>2. included \in SUBSET Coins
  BY <1>1, CopiesTyped DEF BatchInv, PlanOK
<1> QED BY <1>1, <1>2, DrawnFits

LEMMA PlanPlan == BatchInv /\ Plan => PlanOK'
<1> SUFFICES ASSUME BatchInv, Plan PROVE PlanOK'
  OBVIOUS
<1> USE DEF BatchInv, PlanOK, Planning
<1>1. schedule' = schedule /\ Scheduled' = Scheduled
  BY DirectoryFrame DEF Scheduled
<1>2. CASE PlanStart
  BY <1>1, <1>2 DEF PlanStart, directory, operator
<1>3. CASE ConfirmOwnership \/ AnswerLabel
  BY <1>1, <1>3 DEF ConfirmOwnership, AnswerLabel, directory, operator
<1>4. CASE BuildMapping
  <2>1. CASE included = {}
    BY <1>1, <1>4, <2>1 DEF BuildMapping, NoCommand, directory, operator
  <2>2. CASE included # {}
    <3>1. /\ Fits(mapping', included) /\ Fees # {}
          /\ \A a \in mapping' : a.plan = plans /\ a.index \notin snap.b.used
      BY <1>4, <2>2, DrawingFits DEF BuildMapping
    <3>2. step = "labels" /\ step' = "review"
          /\ UNCHANGED <<snap, included, plans, session>>
      BY <1>4, <2>2 DEF BuildMapping, directory, operator
    <3> QED BY <1>1, <3>1, <3>2
  <2> QED BY <2>1, <2>2
<1>5. CASE OpenOptions \/ CloseOptions
  BY <1>1, <1>5 DEF OpenOptions, CloseOptions, directory, operator
<1>6. CASE ChangeFees
  <2>1. included # {}
    BY <1>6 DEF ChangeFees, Fits, CoinsOf
  <2>2. /\ Fits(mapping', included)
        /\ \A a \in mapping' : a.plan = plans /\ a.index \notin snap.b.used
    BY <1>6, <2>1, DrawingFits DEF ChangeFees
  <2>3. step = "options" /\ step' = "options"
        /\ UNCHANGED <<snap, included, plans, session>>
    BY <1>6 DEF ChangeFees, directory, operator
  <2> QED BY <1>1, <2>2, <2>3
<1>7. CASE Proceed
  <2>1. /\ step = "review" /\ step' = "idle" /\ plans' = plans + 1
        /\ session'.included = included /\ session'.assignments = mapping
        /\ session'.utxos = snap.a.unspent
    BY <1>7 DEF Proceed, NoCommand
  <2>2. plans \in Nat
    BY DEF TypeOK
  <2>3. /\ Fits(mapping, included) /\ Fees # {} /\ included \subseteq snap.a.unspent
        /\ \A a \in mapping : a.plan < plans'
    BY <2>1, <2>2
  <2>4. Scheduled \subseteq Assignment /\ \A a \in Scheduled : a.plan < plans'
    BY <2>1, <2>2 DEF Assignment
  <2> QED BY <1>1, <2>1, <2>3, <2>4
<1> QED BY <1>2, <1>3, <1>4, <1>5, <1>6, <1>7 DEF Plan

\* A schedule has the session's assignments, all of them.
LEMMA ScheduleIsWhole ==
    ASSUME BatchInv, WriteSchedule
    PROVE  Scheduled' = session.assignments /\ DOMAIN schedule' \subseteq 1 .. Len(Value)
<1>1. Fits(session.assignments, session.included)
  BY DEF BatchInv, WriteSchedule, BundleOK, Writing, PlanOK
<1>2. schedule' \in Orderings(session.assignments)
  BY DEF WriteSchedule
<1>3. /\ IsFiniteSet(session.assignments) /\ Cardinality(session.assignments) \in Nat
      /\ Cardinality(session.assignments) <= Len(Value)
  BY <1>1, MappingIsSmall
<1>4. /\ DOMAIN schedule' = 1 .. Cardinality(session.assignments)
      /\ {schedule'[i] : i \in DOMAIN schedule'} = session.assignments
  BY <1>2, <1>3, OrderingIsWhole
<1> QED BY <1>3, <1>4, CoinsAreFew DEF Scheduled

LEMMA StepPlan == BatchInv /\ [Next]_vars => PlanOK'
<1> SUFFICES ASSUME BatchInv, [Next]_vars PROVE PlanOK'
  OBVIOUS
<1> USE DEF BatchInv, PlanOK, Planning
<1>1. ASSUME UNCHANGED <<session, schedule, plans>>,
             \/ step' \in {"idle", "ack", "bundle", "schedule", "skipped"}
             \/ UNCHANGED <<step, snap, included, mapping>>
      PROVE  PlanOK'
  BY <1>1 DEF Scheduled
<1>2. CASE Generate
  <2>1. step' \in {"idle", "ack", "bundle", "schedule", "skipped"}
    BY <1>2 DEF Generate, GenerateStart, Acknowledge, WritePsbt, BundleFails, WriteManifest,
                WriteSchedule, WriteSkipped, NoCommand
  <2>2. UNCHANGED <<session, plans>>
    BY <1>2, DirectoryFrame DEF operator
  <2>3. CASE WriteSchedule
    <3>1. Scheduled' = session.assignments
      BY <2>3, ScheduleIsWhole
    <3>2. Fits(session.assignments, session.included)
          /\ \A a \in session.assignments : a.plan < plans
      BY <2>3 DEF WriteSchedule, BundleOK, Writing
    <3> QED BY <2>1, <2>2, <3>1, <3>2 DEF Fits
  <2>4. CASE ~WriteSchedule
    <3>1. schedule' = schedule
      BY <1>2, <2>4 DEF Generate, GenerateStart, Acknowledge, WritePsbt, BundleFails,
                        WriteManifest, WriteSkipped, directory
    <3> QED BY <1>1, <2>1, <2>2, <3>1
  <2> QED BY <2>3, <2>4
<1>3. CASE Abort \/ Around
  <2>1. UNCHANGED <<session, schedule, plans>>
    BY <1>3, DirectoryFrame DEF directory, operator
  <2> QED BY <1>1, <1>3, <2>1, OthersLeave DEF NoCommand, command
<1>4. CASE UNCHANGED vars
  BY <1>1, <1>4 DEF vars, directory, command, operator
<1> QED BY <1>2, <1>3, <1>4, PlanPlan DEF Next

\* What the comparison with a mapping built again says of the session's own:
\* none of its indices is used in the copy that it was built on.
LEMMA ComparedIsFresh ==
    ASSUME BatchInv, step = "ack", SameMapping(snap.b)
    PROVE  \A a \in session.assignments : a.index \notin snap.b.used
<1> DEFINE S == session.included
           b == snap.b
           fees == [c \in S |-> CHOOSE fee \in Fees : TRUE]
           other == Assignments(S, b, fees)
<1>1. Fits(session.assignments, S) /\ Fees # {}
  BY DEF BatchInv, BundleOK, Writing, PlanOK
<1>2. S \in SUBSET Coins /\ S # {}
  BY <1>1 DEF Fits, CoinsOf, Assignment
<1>3. b \in FilesOfB /\ Few(b.used) /\ plans \in Nat
  BY BatchAssumption DEF BatchInv, TypeOK, ChainOK
<1>4. fees \in [S -> Fees]
  BY <1>1
<1>5. other \in Drawn(S, b)
  BY <1>4 DEF Drawn
<1> HIDE DEF other, S, b
<1>6. \A a \in other : a.index \notin b.used
  BY <1>2, <1>3, <1>5, DrawnFits
<1>7. Destinations(other) = Destinations(session.assignments)
  BY <1>5 DEF SameMapping, S, b
<1>8. ASSUME NEW a \in session.assignments PROVE a.index \notin b.used
  <2>1. <<a.coin, a.index, a.wallet>> \in Destinations(other)
    BY <1>7 DEF Destinations
  <2>2. PICK a2 \in other : <<a2.coin, a2.index, a2.wallet>> = <<a.coin, a.index, a.wallet>>
    BY <2>1 DEF Destinations
  <2> QED BY <1>6, <2>2
<1> QED BY <1>8 DEF b

\* A file takes the place of the one of its name and of no other: what the
\* session has written stays there.
LEMMA WrittenStays ==
    ASSUME BatchInv, WritePsbt
    PROVE  \E a \in session.assignments :
              /\ asked # {} /\ a.coin = First(asked)
              /\ asked' = asked \ {a.coin}
              /\ psbts' = Written(psbts, a) /\ a \in psbts'
              /\ \A other \in session.assignments : other.coin = a.coin => other = a
              /\ \A other \in session.assignments \cap psbts : other \in psbts'
              /\ \A f, g \in psbts' : f.name = g.name => f = g
<1>1. Fits(session.assignments, session.included)
  BY DEF BatchInv, WritePsbt, BundleOK, Writing, PlanOK
<1>2. PICK a \in session.assignments : /\ asked # {} /\ a.coin = First(asked)
                                      /\ psbts' = Written(psbts, a)
  BY DEF WritePsbt, Reached
<1>3. asked' = asked \ {a.coin}
  BY <1>2 DEF WritePsbt
<1>4. /\ \A other \in session.assignments : other.coin = a.coin => other = a
      /\ \A other \in session.assignments : other.name = a.name => other = a
  BY <1>1 DEF Fits
<1>5. a \in psbts' /\ \A other \in session.assignments \cap psbts : other \in psbts'
  BY <1>2, <1>4 DEF Written
<1>6. \A f, g \in psbts' : f.name = g.name => f = g
  BY <1>2 DEF Written, BatchInv, BundleOK
<1> QED BY <1>2, <1>3, <1>4, <1>5, <1>6

LEMMA GenerateBundle == BatchInv /\ Generate => BundleOK'
<1> SUFFICES ASSUME BatchInv, Generate PROVE BundleOK'
  OBVIOUS
<1> USE DEF BatchInv, BundleOK, Writing
<1>1. session' = session
  BY DirectoryFrame
<1>2. ASSUME UNCHANGED <<psbts, schedule>>, step' = "idle" PROVE BundleOK'
  BY <1>1, <1>2 DEF Scheduled
<1>3. CASE GenerateStart
  <2>1. UNCHANGED <<psbts, schedule>> /\ session # None /\ step' = "ack"
        /\ session.included \subseteq snap'.a.unspent
    BY <1>3 DEF GenerateStart, SourceUnspent, directory
  <2> QED BY <1>1, <2>1 DEF Scheduled
<1>4. CASE Acknowledge
  <2>1. UNCHANGED <<psbts, schedule>>
    BY <1>4 DEF Acknowledge, directory
  <2>2. CASE SameMapping(snap.b)
    <3>1. step = "ack" /\ step' = "bundle" /\ snap' = snap /\ asked' = CoinsOf(session.assignments)
      BY <1>4, <2>2 DEF Acknowledge
    <3>2. \A a \in session.assignments : a.index \notin snap.b.used /\ a.coin \in asked'
      BY <2>2, <3>1, ComparedIsFresh DEF CoinsOf
    <3> QED BY <1>1, <2>1, <3>1, <3>2 DEF Scheduled
  <2>3. CASE ~SameMapping(snap.b)
    BY <1>2, <1>4, <2>1, <2>3 DEF Acknowledge, NoCommand
  <2> QED BY <2>2, <2>3
<1>5. CASE WritePsbt
  <2>1. step = "bundle" /\ UNCHANGED <<step, snap, schedule>>
    BY <1>5 DEF WritePsbt
  <2>2. PICK a \in session.assignments :
          /\ asked' = asked \ {a.coin} /\ a \in psbts'
          /\ \A other \in session.assignments : other.coin = a.coin => other = a
          /\ \A other \in session.assignments \cap psbts : other \in psbts'
          /\ \A f, g \in psbts' : f.name = g.name => f = g
    BY <1>5, WrittenStays
  <2>3. ASSUME NEW other \in session.assignments PROVE other.coin \in asked' \/ other \in psbts'
    BY <2>1, <2>2
  <2>4. Scheduled' = Scheduled
    BY <2>1 DEF Scheduled
  <2>5. Scheduled = session.assignments => Scheduled \subseteq psbts'
    BY <2>1, <2>2
  <2> QED BY <1>1, <2>1, <2>2, <2>3, <2>4, <2>5
<1>6. CASE WriteManifest
  <2>1. step' = "schedule" /\ UNCHANGED <<snap, psbts, schedule>>
        /\ session.assignments \subseteq psbts
    BY <1>6 DEF WriteManifest
  <2>2. step = "bundle"
    BY <1>6 DEF WriteManifest
  <2> QED BY <1>1, <2>1, <2>2 DEF Scheduled
<1>7. CASE WriteSchedule
  <2>1. step = "schedule" /\ step' = "skipped" /\ UNCHANGED <<snap, psbts>>
    BY <1>7 DEF WriteSchedule
  <2>2. Scheduled' = session.assignments /\ DOMAIN schedule' \subseteq 1 .. Len(Value)
    BY <1>7, ScheduleIsWhole
  <2> QED BY <1>1, <2>1, <2>2
<1>8. CASE BundleFails \/ WriteSkipped
  BY <1>2, <1>8 DEF BundleFails, WriteSkipped, NoCommand, directory
<1> QED BY <1>3, <1>4, <1>5, <1>6, <1>7, <1>8 DEF Generate

LEMMA PlanBundle == BatchInv /\ Plan => BundleOK'
<1> SUFFICES ASSUME BatchInv, Plan PROVE BundleOK'
  OBVIOUS
<1> USE DEF BatchInv, BundleOK, Writing
<1>1. UNCHANGED <<psbts, schedule>> /\ Scheduled' = Scheduled
  BY DirectoryFrame DEF Scheduled
<1>2. step' \in {"idle", "ownership", "labels", "review", "options"}
  BY DEF Plan, PlanStart, ConfirmOwnership, AnswerLabel, BuildMapping, OpenOptions,
         ChangeFees, CloseOptions, Proceed, NoCommand
<1>3. CASE Proceed
  <2>1. session'.assignments = mapping /\ step = "review"
    BY <1>3 DEF Proceed
  <2>2. Fits(mapping, included) /\ \A a \in mapping : a.plan = plans
    BY <2>1 DEF PlanOK
  <2>3. \A a \in Scheduled : a.plan < plans
    BY DEF PlanOK
  <2>4. plans \in Nat
    BY DEF TypeOK
  <2>5. Scheduled # mapping
    BY <2>2, <2>3, <2>4 DEF Fits
  <2> QED BY <1>1, <1>2, <2>1, <2>5
<1>4. CASE ~Proceed
  <2>1. session' = session
    BY <1>4 DEF Plan, PlanStart, ConfirmOwnership, AnswerLabel, BuildMapping, OpenOptions,
                ChangeFees, CloseOptions, directory
  <2> QED BY <1>1, <1>2, <2>1
<1> QED BY <1>3, <1>4

LEMMA StepBundle == BatchInv /\ [Next]_vars => BundleOK'
<1> SUFFICES ASSUME BatchInv, [Next]_vars PROVE BundleOK'
  OBVIOUS
<1> USE DEF BatchInv, BundleOK, Writing
<1>1. ASSUME UNCHANGED <<session, psbts, schedule>>,
             step' = "idle" \/ UNCHANGED <<step, snap, asked>>
      PROVE  BundleOK'
  BY <1>1 DEF Scheduled
<1>2. CASE Abort \/ Around
  <2>1. UNCHANGED <<session, psbts, schedule>>
    BY <1>2, DirectoryFrame DEF directory
  <2> QED BY <1>1, <1>2, <2>1, OthersLeave DEF NoCommand, command
<1>3. CASE UNCHANGED vars
  BY <1>1, <1>3 DEF vars, directory, command
<1> QED BY <1>2, <1>3, PlanBundle, GenerateBundle DEF Next

LEMMA StepBatch == BatchInv /\ [Next]_vars => BatchInv'
<1>1. BatchInv /\ UNCHANGED vars => TypeOK'
  BY DEF BatchInv, TypeOK, vars, world, chain, files, directory, command, operator
<1>2. BatchInv /\ [Next]_vars => TypeOK'
  BY <1>1, PlanType, GenerateType, AroundType DEF Next
<1> QED BY <1>2, StepChain, StepPlan, StepBundle DEF BatchInv

\* Every variable has its type whatever is planned, written, killed or paid by
\* others; plan never runs out of indices.
THEOREM BatchTypeCorrect == Spec => []TypeOK
<1>1. BatchInv => TypeOK
  BY DEF BatchInv
<1> QED BY <1>1, InitBatch, StepBatch, PTL DEF Spec

----------------------------------------------------------------------------
(* What a bundle promises.                                                 *)

\* Every coin of the copy that plan read is scheduled or named as skipped, for
\* any number of coins, plans and bundles that came to nothing.
THEOREM NothingIsForgotten == Spec => NothingLeftUnsaid
<1>1. BatchInv /\ [Next]_vars =>
        [skipped' # skipped =>
            session.utxos = CoinsOf({schedule[o] : o \in DOMAIN schedule}) \cup skipped']_vars
  <2> SUFFICES ASSUME BatchInv, [Next]_vars, skipped' # skipped
               PROVE  session.utxos = CoinsOf({schedule[o] : o \in DOMAIN schedule}) \cup skipped'
    OBVIOUS
  <2>1. WriteSkipped
    <3>1. Generate
      BY DirectoryFrame DEF Next, vars, directory
    <3> QED BY <3>1 DEF Generate, GenerateStart, Acknowledge, WritePsbt, BundleFails,
                        WriteManifest, WriteSchedule, directory
  <2>2. skipped' = session.utxos \ session.included /\ step = "skipped"
    BY <2>1 DEF WriteSkipped
  <2>3. Scheduled = session.assignments /\ session # None
    BY <2>2 DEF BatchInv, BundleOK, Writing
  <2>4. CoinsOf(Scheduled) = session.included /\ session.included \subseteq session.utxos
    BY <2>3 DEF BatchInv, PlanOK, Fits
  <2> QED BY <2>2, <2>4 DEF Scheduled
<1> QED BY <1>1, InitBatch, StepBatch, PTL DEF Spec, NothingLeftUnsaid

\* A bundle is completed only of coins unspent and indices unused in what
\* generate has read, however old the session is.
THEOREM BundleIsFresh == Spec => FreshWhenWritten
<1>1. BatchInv /\ [Next]_vars =>
        [manifest' # manifest =>
            \A a \in manifest' : a.coin \in snap.a.unspent /\ a.index \notin snap.b.used]_vars
  <2> SUFFICES ASSUME BatchInv, [Next]_vars, manifest' # manifest, NEW a \in manifest'
               PROVE  a.coin \in snap.a.unspent /\ a.index \notin snap.b.used
    OBVIOUS
  <2>1. WriteManifest
    <3>1. Generate
      BY DirectoryFrame DEF Next, vars, directory
    <3> QED BY <3>1 DEF Generate, GenerateStart, Acknowledge, WritePsbt, BundleFails,
                        WriteSchedule, WriteSkipped, directory
  <2>2. manifest' = session.assignments /\ step = "bundle"
    BY <2>1 DEF WriteManifest
  <2>3. /\ session # None /\ session.included \subseteq snap.a.unspent
        /\ a.index \notin snap.b.used
    BY <2>2 DEF BatchInv, BundleOK, Writing
  <2>4. a.coin \in session.included
    BY <2>2, <2>3 DEF BatchInv, PlanOK, Fits, CoinsOf
  <2> QED BY <2>3, <2>4
<1> QED BY <1>1, InitBatch, StepBatch, PTL DEF Spec, FreshWhenWritten

----------------------------------------------------------------------------
(* What a careful operator has of it.                                      *)

\* Nothing is broadcast while a command runs; no index of the session's is paid
\* to before its coin goes.  Once the broadcaster is resumed, the schedule is
\* the session's, only its files are signed, and what is booked has gone.
CarefulOK == careful =>
    /\ step # "idle" => paused
    /\ Planning => snap.b.used = paidTo
    /\ session # None =>
        \A a \in session.assignments : a.coin \notin Gone => a.index \notin paidTo
    /\ ~paused =>
        /\ session # None /\ Scheduled = session.assignments /\ signed \subseteq psbts
        /\ \A o \in booked : o \in DOMAIN schedule /\ schedule[o].coin \in Gone

LEMMA InitCareful == Init => CarefulOK
BY DEF Init, CarefulOK, Planning

\* The broadcaster of a careful operator sends nothing but the session's.
LEMMA SendsScheduled ==
    ASSUME BatchInv, CarefulOK, careful, NEW o \in DOMAIN schedule, NEW f \in signed,
           Broadcast(o, f)
    PROVE  ~paused /\ session # None /\ f = schedule[o] /\ f \in session.assignments
<1>1. ~paused /\ f.name = schedule[o].name
  BY DEF Broadcast
<1>2. /\ session # None /\ Scheduled = session.assignments /\ signed \subseteq psbts
      /\ Scheduled \subseteq psbts
  BY <1>1 DEF CarefulOK, BatchInv, BundleOK
<1>3. schedule[o] \in Scheduled
  BY DEF Scheduled
<1>4. \A g, h \in psbts : g.name = h.name => g = h
  BY DEF BatchInv, BundleOK
<1> QED BY <1>1, <1>2, <1>3, <1>4

\* A broadcast uses up the index of its coin and no other one of the session.
LEMMA BroadcastCareful ==
    ASSUME BatchInv, CarefulOK, careful, NEW o \in DOMAIN schedule, NEW f \in signed,
           Broadcast(o, f)
    PROVE  CarefulOK'
<1>1. ~paused /\ session # None /\ f = schedule[o] /\ f \in session.assignments
  BY SendsScheduled
<1>2. /\ UNCHANGED <<yetToCome, session, psbts, schedule, signed, step, snap, careful, paused>>
      /\ booked' = booked \cup {o}
  BY DEF Broadcast, command, operator
<1>3. step = "idle"
  BY <1>1 DEF CarefulOK
<1>4. Scheduled' = Scheduled /\ DOMAIN schedule' = DOMAIN schedule
  BY <1>2 DEF Scheduled
<1>5. /\ Scheduled = session.assignments /\ signed \subseteq psbts
      /\ \A q \in booked : q \in DOMAIN schedule /\ schedule[q].coin \in Gone
  BY <1>1 DEF CarefulOK
<1>6. Gone \subseteq Gone' /\ f.coin \in Gone'
  <2>1. unspent' \subseteq unspent
    BY DEF Broadcast
  <2>2. f.coin \in Coins
    BY DEF BatchInv, TypeOK, Assignment
  <2>3. CASE f.coin \in unspent /\ unspent' = unspent \ {f.coin}
    BY <1>2, <2>2, <2>3 DEF Gone, BatchInv, ChainOK
  <2>4. CASE Transaction(f) \in known /\ unspent' = unspent
    BY <1>2, <2>4 DEF Gone, BatchInv, ChainOK, Transaction
  <2> QED BY <2>3, <2>4 DEF Broadcast
<1>7. ASSUME NEW a \in session.assignments, a.coin \notin Gone' PROVE a.index \notin paidTo'
  <2>1. a # f /\ a.coin \notin Gone
    BY <1>6, <1>7
  <2>2. a.index # f.index
    BY <1>1, <2>1 DEF BatchInv, PlanOK, Fits
  <2>3. a.index \notin paidTo
    BY <1>1, <2>1 DEF CarefulOK
  <2>4. paidTo' \subseteq paidTo \cup {f.index}
    BY DEF Broadcast
  <2> QED BY <2>2, <2>3, <2>4
<1>8. \A q \in booked' : q \in DOMAIN schedule' /\ schedule'[q].coin \in Gone'
  BY <1>1, <1>2, <1>4, <1>5, <1>6
<1> QED BY <1>1, <1>2, <1>3, <1>4, <1>5, <1>7, <1>8 DEF CarefulOK, Planning

\* plan runs only while the broadcaster is paused, so the copy of Wallet B that
\* it has read stays true.
LEMMA PlanCareful == BatchInv /\ CarefulOK /\ Plan => CarefulOK'
<1> SUFFICES ASSUME BatchInv, CarefulOK, Plan, careful PROVE CarefulOK'
  BY DirectoryFrame DEF CarefulOK
<1> USE DEF CarefulOK, Planning
<1>1. /\ UNCHANGED <<psbts, schedule, signed, booked, careful, paused>> /\ Scheduled' = Scheduled
      /\ UNCHANGED <<paidTo, unspent, yetToCome>> /\ Gone' = Gone
  BY DirectoryFrame, CommandReadsOnce DEF Scheduled, Gone, world, chain
<1>2. paused
  BY DEF Plan, PlanStart, ConfirmOwnership, AnswerLabel, BuildMapping, OpenOptions, ChangeFees,
         CloseOptions, Proceed
<1>3. CASE PlanStart
  BY <1>1, <1>2, <1>3 DEF PlanStart, directory
<1>4. CASE Proceed
  <2>1. step = "review" /\ step' = "idle" /\ session'.assignments = mapping
    BY <1>4 DEF Proceed, NoCommand
  <2>2. \A a \in mapping : a.index \notin paidTo
    BY <2>1 DEF BatchInv, PlanOK
  <2> QED BY <1>1, <1>2, <2>1, <2>2
<1>5. CASE ~PlanStart /\ ~Proceed
  <2>1. session' = session /\ (step' = "idle" \/ snap' = snap) /\ step # "idle"
        /\ step' \in {"idle", "labels", "review", "options"} /\ Planning
    BY <1>5 DEF Plan, ConfirmOwnership, AnswerLabel, BuildMapping, OpenOptions, ChangeFees,
                CloseOptions, NoCommand, directory
  <2> QED BY <1>1, <1>2, <2>1
<1> QED BY <1>3, <1>4, <1>5

\* So does generate, and its bundle is not yet the broadcaster's.
LEMMA GenerateCareful == BatchInv /\ CarefulOK /\ Generate => CarefulOK'
<1> SUFFICES ASSUME BatchInv, CarefulOK, Generate, careful PROVE CarefulOK'
  BY DirectoryFrame DEF CarefulOK, operator
<1>1. UNCHANGED <<session, signed, booked, careful, paused>>
  BY DirectoryFrame DEF operator
<1>2. UNCHANGED <<paidTo, unspent, yetToCome>> /\ Gone' = Gone
  BY CommandReadsOnce DEF Gone, world, chain
<1>3. paused /\ step' \in {"idle", "ack", "bundle", "schedule", "skipped"}
  BY DEF CarefulOK, Generate, GenerateStart, Acknowledge, WritePsbt, BundleFails, WriteManifest,
         WriteSchedule, WriteSkipped, NoCommand
<1> QED BY <1>1, <1>2, <1>3 DEF CarefulOK, Planning

LEMMA StepCareful == BatchInv /\ CarefulOK /\ [Next]_vars => CarefulOK'
<1> SUFFICES ASSUME BatchInv, CarefulOK, [Next]_vars PROVE CarefulOK'
  OBVIOUS
<1>1. CASE ~careful
  <2>1. careful' = careful
    BY DirectoryFrame DEF Next, vars, operator
  <2> QED BY <1>1, <2>1 DEF CarefulOK
<1>2. CASE careful /\ (Abort \/ Around)
  <2>1. /\ UNCHANGED <<session, psbts, schedule, careful>> /\ Scheduled' = Scheduled
        /\ step' = "idle" \/ UNCHANGED <<step, snap>>
    BY <1>2, DirectoryFrame, OthersLeave DEF Scheduled, NoCommand, command, directory, operator
\* What the directory has is left to the broadcaster as it is.
  <2>2. ASSUME Gone \subseteq Gone', paidTo' = paidTo, paused' = paused \/ paused' = TRUE,
               booked' = booked, signed' = signed
        PROVE  CarefulOK'
    BY <1>2, <2>1, <2>2 DEF CarefulOK, Planning
  <2>3. CASE Abort \/ Crash \/ Misplace \/ \E c \in Coins : Freeze(c)
    BY <2>2, <2>3 DEF Abort, Crash, Misplace, Freeze, Gone, world, chain, directory, operator
  <2>4. ASSUME NEW c \in Coins, SpendElsewhere(c) \/ Arrive(c) PROVE CarefulOK'
    BY <2>2, <2>4 DEF SpendElsewhere, Arrive, Gone, directory, operator
  <2>5. CASE \E i \in Indices : ReceiveElsewhere(i)
    BY <1>2, <2>5 DEF ReceiveElsewhere
  <2>6. CASE Recopy
    BY <1>2, <2>2, <2>6 DEF Recopy, Gone, world, chain, directory
  <2>7. CASE CleanUpAndResume
    <3>1. /\ UNCHANGED <<unspent, yetToCome, paidTo>> /\ Gone' = Gone
          /\ step = "idle" /\ step' = "idle" /\ session # None
          /\ signed' = {} /\ booked' = {} /\ Scheduled = session.assignments
      BY <2>7 DEF CleanUpAndResume, Finished, Scheduled, Gone, world, chain, command
    <3> QED BY <1>2, <2>1, <3>1 DEF CarefulOK, Planning
  <2>8. ASSUME NEW f \in psbts, Sign(f) PROVE CarefulOK'
    <3>1. ~paused /\ signed' \subseteq signed \cup {f}
          /\ UNCHANGED <<unspent, yetToCome, paidTo, step, snap, booked, paused>> /\ Gone' = Gone
      BY <1>2, <2>8 DEF Sign, Written, Gone, world, chain, command, operator
    <3> QED BY <1>2, <2>1, <2>8, <3>1 DEF CarefulOK, Planning
  <2>9. CASE \E o \in DOMAIN schedule : \E f \in signed : Broadcast(o, f)
    BY <1>2, <2>9, BroadcastCareful
  <2> QED BY <1>2, <2>3, <2>4, <2>5, <2>6, <2>7, <2>8, <2>9 DEF Around
<1>3. CASE UNCHANGED vars
  BY <1>3
  DEF CarefulOK, Planning, Scheduled, Gone, vars, world, chain, directory, command, operator
<1> QED BY <1>1, <1>2, <1>3, PlanCareful, GenerateCareful DEF Next

\* A careful operator's state file never calls an order broadcast that still
\* has its coin: over all batches, bundles that failed half-way included.
THEOREM BookedIsGone == Spec => []BookedIsSpent
<1>1. CarefulOK => BookedIsSpent
  BY DEF CarefulOK, BookedIsSpent, Gone
<1> QED BY <1>1, InitBatch, StepBatch, InitCareful, StepCareful, PTL DEF Spec

\* A careful operator's coins go to addresses of Wallet B that nobody has paid
\* to before, over any number of batches.
THEOREM NoAddressTwice == Spec => AddressesUsedOnce
<1>1. BatchInv /\ CarefulOK /\ [Next]_vars =>
        [careful => \A f \in signed :
            f.coin \in unspent /\ f.coin \notin unspent' /\ Transaction(f) \in known' \ known
                => f.index \notin paidTo]_vars
  <2> SUFFICES ASSUME BatchInv, CarefulOK, [Next]_vars, careful, NEW f \in signed,
                      f.coin \in unspent, Transaction(f) \in known' \ known
               PROVE  f.index \notin paidTo
    OBVIOUS
  <2>1. PICK o \in DOMAIN schedule, g \in signed : Broadcast(o, g)
    <3>1. Around
      BY CommandReadsOnce DEF Next, vars, world, chain
    <3> QED BY <3>1 DEF Around, Crash, Misplace, Recopy, CleanUpAndResume, SpendElsewhere, Arrive,
                        Freeze, ReceiveElsewhere, Sign, world, chain
  <2>2. Transaction(f) = Transaction(g)
    BY <2>1 DEF Broadcast
  <2>3. f.coin = g.coin /\ f.index = g.index
    BY <2>2 DEF Transaction
  <2>4. session # None /\ g \in session.assignments
    BY <2>1, SendsScheduled
  <2>5. g.coin \notin Gone
    BY <2>3 DEF Gone
  <2> QED BY <2>3, <2>4, <2>5 DEF CarefulOK
<1> QED BY <1>1, InitBatch, StepBatch, InitCareful, StepCareful, PTL DEF Spec, AddressesUsedOnce

=============================================================================
