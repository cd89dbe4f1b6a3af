--------------------------- MODULE ProcessProofs ----------------------------
(***************************************************************************)
(* Theorems about Process: for any addresses, names and answers of the     *)
(* resolver, and any number of calls and signals, connections are local    *)
(* and the workspace is gone at the end.                                   *)
(***************************************************************************)
EXTENDS Process, SequenceTheorems, TLAPS

----------------------------------------------------------------------------
(* What the steps of a call leave alone.                                   *)

LEMMA CallFrame ==
    ASSUME CallStep \/ CallEnds \/ Call \/ \E h \in Host : CreateClient(h)
    PROVE  patched' = patched
BY DEF CallStep, CallEnds, Call, CreateClient, Open, Vet, Resolve, Connect, Refused,
       Blocked, Exchanged, Redirected

\* A call's address has been checked when a connection is made to it.
LEMMA CallIsLocal ==
    ASSUME CallStep, patched, peers \subseteq LocalAddr, pending \subseteq LocalAddr,
           candidates \in Seq(Addr), stage = "connect" => candidates # <<>>
    PROVE  peers' \subseteq LocalAddr
<1>1. CASE Connect
  <2>1. Head(candidates) \in Addr
    BY <1>1 DEF Connect
  <2>2. Head(candidates) \notin LocalName
    BY <2>1, NetworkAssumption
  <2>3. Head(candidates) \in LocalAddr
    BY <1>1, <2>2 DEF Connect, Allowed
  <2> QED BY <1>1, <2>3 DEF Connect
<1>2. CASE Open \/ Vet \/ Resolve \/ Refused \/ Blocked \/ Exchanged \/ Redirected
  BY <1>2 DEF Open, Vet, Resolve, Refused, Blocked, Exchanged, Redirected, CallEnds
<1> QED BY <1>1, <1>2 DEF CallStep
----------------------------------------------------------------------------
(* Types.                                                                  *)

LEMMA CallEndsTyped == NetworkTypeOK /\ CallEnds => NetworkTypeOK'
BY NetworkAssumption DEF NetworkTypeOK, CallEnds

LEMMA CallTyped ==
    ASSUME NetworkTypeOK, CallStep \/ Call \/ EnableGuard \/ \E h \in Host : CreateClient(h)
    PROVE  NetworkTypeOK'
<1> USE NetworkAssumption
<1>1. CASE Open
  <2>1. CASE CallEnds
    BY <2>1, CallEndsTyped
  <2>2. CASE ~CallEnds
    BY <1>1, <2>2 DEF Open, NetworkTypeOK
  <2> QED BY <2>1, <2>2
<1>2. CASE Vet
  <2>1. CASE CallEnds
    BY <2>1, CallEndsTyped
  <2>2. CASE ~CallEnds
    BY <1>2, <2>2 DEF Vet, NetworkTypeOK
  <2> QED BY <2>1, <2>2
<1>3. CASE Resolve
  <2>1. CASE CallEnds
    BY <2>1, CallEndsTyped
  <2>2. CASE ~CallEnds
    <3>1. PICK a \in IF host \in Name THEN Answers ELSE {<<host>>} :
              a # <<>> /\ candidates' = a /\ stage' = "connect"
                /\ UNCHANGED <<patched, url, host, hops, pending, peers>>
      BY <1>3, <2>2 DEF Resolve
    <3>2. host \in Host
      BY <1>3 DEF Resolve, NetworkTypeOK
    <3>3. a \in Seq(Addr)
      <4>1. CASE host \in Name
        BY <3>1, <4>1
      <4>2. CASE host \notin Name
        <5>1. a = <<host>> /\ host \in Addr
          BY <3>1, <3>2, <4>2 DEF Host
        <5> QED BY <5>1
      <4> QED BY <4>1, <4>2
    <3> QED BY <1>3, <3>1, <3>2, <3>3 DEF NetworkTypeOK, Resolve
  <2> QED BY <2>1, <2>2
<1>4. CASE Connect
  <2>1. Head(candidates) \in Addr
    BY <1>4 DEF Connect, NetworkTypeOK
  <2> QED BY <1>4, <2>1 DEF Connect, NetworkTypeOK
<1>5. CASE Refused
  <2>1. CASE CallEnds
    BY <2>1, CallEndsTyped
  <2>2. CASE ~CallEnds
    <3>1. Tail(candidates) \in Seq(Addr) /\ Len(candidates) # 1 /\ candidates # <<>>
      BY <1>5, <2>2 DEF Refused, NetworkTypeOK
    <3>2. Tail(candidates) # <<>>
      <4>1. candidates \in Seq(Addr) /\ Len(candidates) \in Nat \ {0, 1}
        BY <3>1 DEF NetworkTypeOK
      <4>2. Len(Tail(candidates)) = Len(candidates) - 1
        BY <4>1
      <4> QED BY <3>1, <4>1, <4>2, EmptySeq
    <3> QED BY <1>5, <2>2, <3>1, <3>2 DEF Refused, NetworkTypeOK
  <2> QED BY <2>1, <2>2
<1>6. CASE Blocked \/ Exchanged
  BY <1>6, CallEndsTyped DEF Blocked, Exchanged
<1>7. CASE Redirected
  BY <1>7 DEF Redirected, NetworkTypeOK
<1>8. CASE Call \/ EnableGuard \/ \E h \in Host : CreateClient(h)
  BY <1>8 DEF Call, EnableGuard, CreateClient, NetworkTypeOK
<1> QED
  BY <1>1, <1>2, <1>3, <1>4, <1>5, <1>6, <1>7, <1>8 DEF CallStep

LEMMA StepTyped == ProcessTypeOK /\ [ProcessNext]_processVars => ProcessTypeOK'
<1> SUFFICES ASSUME ProcessTypeOK, [ProcessNext]_processVars PROVE ProcessTypeOK'
  OBVIOUS
<1> USE ProcessAssumption DEF place, armed, ending
<1>1. CASE Guard \/ MakeClient \/ PassCalls
  <2>1. NetworkTypeOK'
    BY <1>1, CallTyped DEF Guard, MakeClient, PassCalls, ProcessTypeOK
  <2> QED BY <1>1, <2>1
        DEF Guard, MakeClient, PassCalls, ProcessTypeOK, EnableGuard, CreateClient
<1>2. CASE Calling
  <2>1. NetworkTypeOK'
    BY <1>2, CallTyped DEF Calling, ProcessTypeOK
  <2> QED BY <1>2, <2>1 DEF Calling, ProcessTypeOK, process
<1>3. CASE Killed \/ Terminated \/ Interrupted
  <2>1. NetworkTypeOK' /\ stage' = "idle"
    BY <1>3, CallEndsTyped DEF Killed, Terminated, Interrupted, ProcessTypeOK, CallEnds
  <2>2. CASE Killed
    BY <2>1, <2>2 DEF Killed, ProcessTypeOK
  <2>3. CASE Terminated
    BY <2>1, <2>3 DEF Terminated, Signal, ProcessTypeOK
  <2>4. CASE Interrupted
    <3>1. /\ life' \in {"finalize", "ended"} /\ finalizing' \in BOOLEAN
          /\ fate' \in {"alive", "exit", "killed"} /\ wiping' = "remove"
      BY <2>4 DEF Interrupted, Unwind, ProcessTypeOK
    <3> QED BY <2>1, <2>4, <3>1 DEF Interrupted, Signal, ProcessTypeOK
  <2> QED BY <1>3, <2>2, <2>3, <2>4
<1>6. CASE WipeStep
  <2>1. CASE wiping = "remove"
    <3>1. NetworkTypeOK' /\ UNCHANGED <<stage, life>> /\ workspace' \in BOOLEAN
      BY <1>6, <2>1 DEF WipeStep, Wipe, ProcessTypeOK, NetworkTypeOK, network
    <3> QED BY <1>6, <2>1, <3>1 DEF WipeStep, Wipe, ProcessTypeOK
  <2>2. CASE wiping = "forget"
    <3>1. NetworkTypeOK' /\ stage' = "idle"
      BY <1>6, <2>2, CallEndsTyped DEF WipeStep, Wipe, ProcessTypeOK, CallEnds
    <3> QED BY <1>6, <2>2, <3>1 DEF WipeStep, Wipe, Unwind, ProcessTypeOK
  <2> QED BY <2>1, <2>2 DEF ProcessTypeOK
<1>4. CASE \/ MakeWorkspace \/ KnowWorkspace \/ Register \/ Install \/ Route
           \/ Work \/ ClientRejected \/ BeginPass \/ NextPass \/ PassEnds
           \/ \E s \in Signals : Noted(s) \/ Caught(s)
  <2>1. NetworkTypeOK' /\ stage' = stage
    BY <1>4 DEF MakeWorkspace, KnowWorkspace, Register, Install, Route, Work,
                ClientRejected, BeginPass, NextPass, PassEnds, Noted, Caught,
                ProcessTypeOK, NetworkTypeOK, network
  <2>2. CASE MakeWorkspace \/ KnowWorkspace \/ Register
    BY <2>1, <2>2 DEF MakeWorkspace, KnowWorkspace, Register, ProcessTypeOK
  <2>8. CASE BeginPass \/ NextPass
    BY <2>1, <2>8 DEF BeginPass, NextPass, ProcessTypeOK
  <2>6. CASE Install
    BY <2>1, <2>6 DEF Install, ProcessTypeOK, Signals
  <2>7. CASE Route
    BY <2>1, <2>7 DEF Route, ProcessTypeOK, Signals
  <2>3. CASE \E s \in Signals : Caught(s)
    <3>1. stage # "idle" => life \in {"pass", "handling"}
      BY DEF ProcessTypeOK
    <3> QED BY <2>1, <2>3, <3>1 DEF Caught, Signal, ProcessTypeOK
  <2>4. CASE Work \/ ClientRejected \/ PassEnds
    BY <2>1, <2>4 DEF Work, ClientRejected, PassEnds, Leaves, Unwind, ProcessTypeOK
  <2>5. CASE \E s \in Signals : Noted(s)
    BY <2>1, <2>5 DEF Noted, Signal, ProcessTypeOK
  <2> QED BY <1>4, <2>2, <2>3, <2>4, <2>5, <2>6, <2>7, <2>8
<1>5. CASE UNCHANGED processVars
  BY <1>5 DEF processVars, process, network, ProcessTypeOK, NetworkTypeOK
<1> QED
  BY <1>1, <1>2, <1>3, <1>4, <1>5, <1>6 DEF ProcessNext, ProcessStep

\* Every variable of a process has its type, and a call to Core that a signal
\* interrupts stays open under the handler but no longer: it is not left when the
\* interpreter goes on to its exit handlers.
THEOREM ProcessTypeCorrect == ProcessSpec => []ProcessTypeOK
<1>1. ProcessInit => ProcessTypeOK
  <2> SUFFICES ASSUME ProcessInit PROVE ProcessTypeOK
    OBVIOUS
  <2>1. NetworkTypeOK
    <3>1. candidates \in Seq(Addr) /\ hops \in 0 .. MaxHops
      BY NetworkAssumption DEF ProcessInit, NetworkInit
    <3> QED BY <3>1 DEF ProcessInit, NetworkInit, NetworkTypeOK
  <2>2. stage = "idle" /\ calls \in 0 .. MaxCalls /\ signals \in 0 .. MaxSignals
    BY ProcessAssumption DEF ProcessInit, NetworkInit
  <2>3. {workspace, known, registered, requested, finalizing} \subseteq BOOLEAN
    BY DEF ProcessInit
  <2> QED BY <2>1, <2>2, <2>3 DEF ProcessInit, ProcessTypeOK
<1> QED BY <1>1, StepTyped, PTL DEF ProcessSpec

----------------------------------------------------------------------------
(* The workspace.                                                          *)

LEMMA StepCleaning == ProcessTypeOK /\ Cleaning /\ [ProcessNext]_processVars => Cleaning'
<1> SUFFICES ASSUME ProcessTypeOK, Cleaning, [ProcessNext]_processVars PROVE Cleaning'
  OBVIOUS
<1> USE DEF Cleaning, WipedAtExit, place, armed, ending
<1>1. CASE Guard \/ MakeWorkspace \/ KnowWorkspace \/ Register
  BY <1>1 DEF Guard, MakeWorkspace, KnowWorkspace, Register
<1>2. CASE Install \/ Route
  BY <1>2 DEF Install, Route, ProcessTypeOK, Signals
<1>3. CASE WipeStep
  <2>1. CASE wiping = "remove"
    <3>1. workspace' = (workspace /\ ~known) /\ life' = life /\ wiping' = "forget"
      BY <1>3, <2>1 DEF WipeStep, Wipe
    <3>2. ~workspace'
      BY <1>3, <3>1 DEF WipeStep
    <3> QED BY <1>3, <2>1, <3>1, <3>2 DEF WipeStep, Wipe
  <2>2. CASE wiping = "forget"
    <3>1. ~workspace' /\ Unwind /\ UNCHANGED <<registered, handler>>
      BY <1>3, <2>2 DEF WipeStep, Wipe
    <3> QED BY <1>3, <3>1 DEF WipeStep, Unwind, Signals
  <2> QED BY <2>1, <2>2 DEF ProcessTypeOK
<1>4. CASE Work \/ ClientRejected \/ PassEnds
  BY <1>4 DEF Work, ClientRejected, PassEnds, Leaves, Unwind
<1>5. CASE MakeClient \/ BeginPass \/ PassCalls \/ NextPass
  BY <1>5 DEF MakeClient, BeginPass, PassCalls, NextPass
<1>6. CASE Calling \/ UNCHANGED processVars
  BY <1>6 DEF Calling, processVars, process
<1>7. CASE \E s \in Signals : Caught(s)
  BY <1>7 DEF Caught, Signal
<1>8. CASE \E s \in Signals : Noted(s)
  BY <1>8 DEF Noted, Signal
<1>9. CASE Terminated \/ Killed
  BY <1>9 DEF Terminated, Killed, Signal
<1>10. CASE Interrupted
  BY <1>10 DEF Interrupted, Signal, Unwind
<1> QED
  BY <1>1, <1>2, <1>3, <1>4, <1>5, <1>6, <1>7, <1>8, <1>9, <1>10 DEF ProcessNext, ProcessStep

\* Wherever signals strike, a process that was not killed leaves no workspace.
THEOREM WorkspaceIsWiped == ProcessSpec => []WipedAtExit
<1>1. ProcessInit => Cleaning
  BY DEF ProcessInit, Cleaning, WipedAtExit
<1>2. Cleaning => WipedAtExit
  BY DEF Cleaning
<1> QED BY <1>1, <1>2, StepCleaning, ProcessTypeCorrect, PTL DEF ProcessSpec

----------------------------------------------------------------------------
(* The connections.                                                        *)

LEMMA StepGuarded ==
    ProcessTypeOK /\ Cleaning /\ Guarded /\ [ProcessNext]_processVars => Guarded'
<1> SUFFICES ASSUME ProcessTypeOK, Cleaning, Guarded, [ProcessNext]_processVars
             PROVE  Guarded'
  OBVIOUS
<1> USE DEF Guarded, OnlyLocalPeers
<1>1. CASE Calling
  <2>1. patched /\ patched' = patched /\ UNCHANGED life /\ life # "guard"
    BY <1>1, CallFrame DEF Calling, process
  <2>2. peers' \subseteq LocalAddr
    BY <1>1, <2>1, CallIsLocal DEF Calling, ProcessTypeOK, NetworkTypeOK
  <2> QED BY <2>1, <2>2
<1>2. CASE Guard \/ MakeClient \/ PassCalls
  BY <1>2 DEF Guard, MakeClient, PassCalls, EnableGuard, CreateClient, Call
<1>3. CASE \/ MakeWorkspace \/ KnowWorkspace \/ Register \/ Install \/ Route
           \/ BeginPass \/ NextPass
           \/ UNCHANGED processVars
  BY <1>3 DEF MakeWorkspace, KnowWorkspace, Register, Install, Route, BeginPass, NextPass,
              processVars, process, network
<1>4. CASE Work \/ ClientRejected \/ PassEnds
  BY <1>4 DEF Work, ClientRejected, PassEnds, Leaves, Unwind, network
<1>7. CASE WipeStep
  BY <1>7 DEF WipeStep, Wipe, Unwind, CallEnds, network
<1>5. CASE Terminated \/ Killed \/ Interrupted
  BY <1>5 DEF Terminated, Killed, Interrupted, Signal, Unwind, Cleaning, CallEnds
<1>6. CASE \E s \in Signals : Caught(s) \/ Noted(s)
  BY <1>6 DEF Caught, Noted, Signal, Cleaning, CallEnds, network
<1> QED
  BY <1>1, <1>2, <1>3, <1>4, <1>5, <1>6, <1>7 DEF ProcessNext, ProcessStep

\* Whatever the resolver says, the first time and the second, and wherever a
\* server redirects the client, every connection is to a local address.
THEOREM PeersAreLocal == ProcessSpec => []OnlyLocalPeers
<1>1. ProcessInit => Cleaning /\ Guarded
  BY DEF ProcessInit, NetworkInit, Cleaning, WipedAtExit, Guarded, OnlyLocalPeers
<1>2. Guarded => OnlyLocalPeers
  BY DEF Guarded
<1> QED
  BY <1>1, <1>2, StepCleaning, StepGuarded, ProcessTypeCorrect, PTL DEF ProcessSpec
=============================================================================
