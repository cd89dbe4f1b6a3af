------------------------------ MODULE Process -------------------------------
(***************************************************************************)
(* The life of one coldcard-panic-drain process around its command: the    *)
(* start-up of cli.py (main), the workspace that wipe.py makes and removes *)
(* again, the signal handlers, and the calls to Core of broadcast-due      *)
(* (NetworkGuard).  Signals come at any moment, also during start-up and   *)
(* while the workspace is being removed.                                   *)
(***************************************************************************)
EXTENDS NetworkGuard

CONSTANTS
    MaxCalls,   \* RPCs of one pass (bound)
    MaxSignals  \* how often the process is signalled (bound)

ASSUME ProcessAssumption ==
    /\ MaxCalls \in Nat
    /\ MaxSignals \in Nat

VARIABLES
    command,    \* "file" (all commands without a network), "once" or "follow"
    life,       \* the statement of the start-up, or what the process is at
    workspace,  \* whether the directory is there
    known,      \* _TEMP_DIR is set
    registered, \* wipe_workspace is an atexit handler
    handler,    \* what SIGTERM and SIGINT do
    requested,  \* ShutdownFlag.requested
    wiping,     \* the step of wipe_workspace
    finalizing, \* the atexit handlers have been called
    calls,      \* RPCs of this pass
    signals,    \* signals so far
    fate        \* how the process ended

place == <<workspace, known>>
armed == <<registered, handler, requested>>
ending == <<wiping, finalizing, fate>>
process == <<command, life, place, armed, ending, calls, signals>>
processVars == <<network, process>>

Signals == {"TERM", "INT"}

ProcessInit ==
    /\ NetworkInit
    /\ command \in {"file", "once", "follow"}
    /\ life = "guard"
    /\ workspace = FALSE
    /\ known = FALSE
    /\ registered = FALSE
    /\ handler = [s \in Signals |-> "default"]
    /\ requested = FALSE
    /\ wiping = "remove"
    /\ finalizing = FALSE
    /\ calls = 0
    /\ signals = 0
    /\ fate = "alive"

----------------------------------------------------------------------------
(* cli.py main and init_ram_workspace, statement by statement.             *)

Guard ==
    /\ life = "guard"
    /\ EnableGuard
    /\ life' = "mkdtemp"
    /\ UNCHANGED <<command, place, armed, ending, calls, signals>>

MakeWorkspace ==
    /\ life = "mkdtemp"
    /\ workspace' = TRUE
    /\ life' = "assign"
    /\ UNCHANGED <<network, command, known, armed, ending, calls, signals>>

KnowWorkspace ==
    /\ life = "assign"
    /\ known' = TRUE
    /\ life' = "atexit"
    /\ UNCHANGED <<network, command, workspace, armed, ending, calls, signals>>

Register ==
    /\ life = "atexit"
    /\ registered' = TRUE
    /\ life' = "TERM"
    /\ UNCHANGED <<network, command, place, handler, requested, ending, calls, signals>>

\* signal.signal, in the order of the loop.
Install ==
    /\ \/ life = "TERM" /\ life' = "INT"
       \/ life = "INT" /\ life' = IF command = "file" THEN "work" ELSE "client"
    /\ handler' = [handler EXCEPT ![life] = "wipe"]
    /\ UNCHANGED <<network, command, place, registered, requested, ending, calls, signals>>

----------------------------------------------------------------------------
(* The end, ordered or not.                                                *)

\* SystemExit, KeyboardInterrupt or the end of the command: the interpreter
\* calls the atexit handler, unless it is at it or there is none.
Unwind ==
    /\ IF registered /\ ~finalizing
       THEN life' = "finalize" /\ finalizing' = TRUE /\ UNCHANGED fate
       ELSE life' = "ended" /\ fate' = "exit" /\ UNCHANGED finalizing
    /\ wiping' = "remove"

Leaves ==
    /\ Unwind
    /\ UNCHANGED <<command, place, armed, calls, signals>>

\* Variant: _TEMP_DIR is taken out first, lest a second call removes it again.
WipeForgetsFirst ==
    \/ /\ wiping = "remove" /\ known
       /\ known' = FALSE
       /\ wiping' = "forget"
       /\ UNCHANGED <<network, life, workspace, finalizing, fate>>
    \/ /\ wiping = "remove" /\ ~known
       /\ Unwind /\ CallEnds
       /\ UNCHANGED place
    \/ /\ wiping = "forget"
       /\ workspace' = FALSE
       /\ Unwind /\ CallEnds
       /\ UNCHANGED known

\* Variant: the handler calls the exit handlers itself, on top of what it has
\* interrupted, instead of raising SystemExit.
WipeOnTop ==
    \/ /\ wiping = "remove"
       /\ workspace' = (workspace /\ ~known)
       /\ wiping' = "forget"
       /\ UNCHANGED <<network, life, known, finalizing, fate>>
    \/ /\ wiping = "forget"
       /\ known' = FALSE
       /\ Unwind
       /\ UNCHANGED <<network, workspace>>

\* wipe_workspace: the tree is removed, and then forgotten.  What follows it in a
\* handler, SystemExit, unwinds the call to Core that the signal had interrupted.
Wipe ==
    \/ /\ wiping = "remove"
       /\ workspace' = (workspace /\ ~known)
       /\ wiping' = "forget"
       /\ UNCHANGED <<network, life, known, finalizing, fate>>
    \/ /\ wiping = "forget"
       /\ known' = FALSE
       /\ Unwind /\ CallEnds
       /\ UNCHANGED workspace

\* In the handler of a signal, or at exit.
WipeStep ==
    /\ life \in {"handling", "finalize"}
    /\ Wipe
    /\ UNCHANGED <<command, armed, calls, signals>>

----------------------------------------------------------------------------
(* The command.                                                            *)

\* A command that needs no network, or its end.
Work ==
    /\ life = "work"
    /\ Leaves
    /\ UNCHANGED network

\* The client is made ...
MakeClient ==
    /\ life = "client"
    /\ \E h \in Host : CreateClient(h)
    /\ life' = IF command = "follow" THEN "routeINT" ELSE "pass"
    /\ UNCHANGED <<command, place, armed, ending, calls, signals>>

\* ... or not: its URL is remote, or there is no cookie.
ClientRejected ==
    /\ life = "client"
    /\ Leaves
    /\ UNCHANGED network

\* install_signal_handlers of --follow, in the order of its own loop.
Route ==
    /\ \/ /\ life = "routeINT"
          /\ handler' = [handler EXCEPT !["INT"] = "flag"]
          /\ life' = "routeTERM"
       \/ /\ life = "routeTERM"
          /\ handler' = [handler EXCEPT !["TERM"] = "flag"]
          /\ life' = "loop"
    /\ UNCHANGED <<network, command, place, registered, requested, ending, calls, signals>>

\* The top of the loop of --follow: the flag is looked at, and a pass begins.
BeginPass ==
    /\ life = "loop"
    /\ ~requested
    /\ life' = "pass"
    /\ calls' = 0
    /\ UNCHANGED <<network, command, place, armed, ending, signals>>

\* A pass makes an RPC.
PassCalls ==
    /\ life = "pass"
    /\ calls < MaxCalls
    /\ Call
    /\ calls' = calls + 1
    /\ UNCHANGED <<command, life, place, armed, ending, signals>>

Calling ==
    /\ life = "pass"
    /\ CallStep
    /\ UNCHANGED process

\* A pass returns; --follow goes on, unless it is asked to stop.
NextPass ==
    /\ life = "pass" /\ stage = "idle"
    /\ command = "follow" /\ ~requested
    /\ life' = "loop"
    /\ UNCHANGED <<network, command, place, armed, ending, calls, signals>>

\* The last pass returns, or one raises; or --follow is asked to stop in between.
PassEnds ==
    /\ \/ life = "pass" /\ stage = "idle"
       \/ life = "loop" /\ requested
    /\ Leaves
    /\ UNCHANGED network

----------------------------------------------------------------------------
(* Signals.                                                                *)

\* The handler of Python runs between two steps of the process.
Signal(s) ==
    /\ life # "ended"
    /\ signals < MaxSignals
    /\ signals' = signals + 1
    /\ UNCHANGED <<command, place, registered, handler, calls>>

\* _signal_handler begins, on top of whatever it interrupts: a call to Core stays
\* open under it, and a wipe that had begun is begun again.
Caught(s) ==
    /\ handler[s] = "wipe"
    /\ Signal(s)
    /\ life' = "handling"
    /\ wiping' = "remove"
    /\ UNCHANGED <<network, requested, finalizing, fate>>

\* Variant: a second signal takes the first one back.
NotedToggles(s) ==
    /\ handler[s] = "flag"
    /\ Signal(s)
    /\ requested' = ~requested
    /\ UNCHANGED <<network, life, ending>>

\* ShutdownFlag.request
Noted(s) ==
    /\ handler[s] = "flag"
    /\ Signal(s)
    /\ requested' = TRUE
    /\ UNCHANGED <<network, life, ending>>

\* No handler yet: SIGTERM kills, SIGINT is a KeyboardInterrupt.
Terminated ==
    /\ handler["TERM"] = "default"
    /\ Signal("TERM")
    /\ life' = "ended"
    /\ fate' = "killed"
    /\ CallEnds
    /\ UNCHANGED <<requested, wiping, finalizing>>

Interrupted ==
    /\ handler["INT"] = "default"
    /\ Signal("INT")
    /\ Unwind
    /\ CallEnds
    /\ UNCHANGED requested

\* kill -9, SIGHUP.
Killed ==
    /\ life # "ended"
    /\ life' = "ended"
    /\ fate' = "killed"
    /\ CallEnds
    /\ UNCHANGED <<command, place, armed, wiping, finalizing, calls, signals>>

ProcessStep ==
    \/ Guard \/ MakeWorkspace \/ KnowWorkspace \/ Register \/ Install
    \/ WipeStep \/ Work \/ MakeClient \/ ClientRejected \/ Route
    \/ BeginPass \/ PassCalls \/ Calling \/ NextPass \/ PassEnds

ProcessNext ==
    \/ ProcessStep
    \/ \E s \in Signals : Caught(s) \/ Noted(s)
    \/ Terminated \/ Interrupted \/ Killed

ProcessSpec == ProcessInit /\ [][ProcessNext]_processVars

\* The process runs, and a call ends (its timeout is 60 s); it need not make
\* any call, and signals need not come.
ProcessFairness == WF_processVars(ProcessStep)

FairProcessSpec == ProcessSpec /\ ProcessFairness

----------------------------------------------------------------------------
(* What should hold.                                                       *)

\* Every variable has its type, and a call to Core is open only in a pass or
\* under the handler of the signal that interrupted it: none is left when the
\* interpreter goes on to its exit handlers.
ProcessTypeOK ==
    /\ NetworkTypeOK
    /\ command \in {"file", "once", "follow"}
    /\ life \in {"guard", "mkdtemp", "assign", "atexit", "TERM", "INT", "client",
                 "routeINT", "routeTERM", "work", "loop", "pass", "handling", "finalize", "ended"}
    /\ {workspace, known, registered, requested, finalizing} \subseteq BOOLEAN
    /\ handler \in [Signals -> {"default", "wipe", "flag"}]
    /\ wiping \in {"remove", "forget"}
    /\ calls \in 0 .. MaxCalls
    /\ signals \in 0 .. MaxSignals
    /\ fate \in {"alive", "exit", "killed"}
    /\ stage # "idle" => life \in {"pass", "handling"}

\* README, "Local network contract": whatever the resolver answers, and answers
\* the second time, and wherever a server redirects the client, no connection
\* is made to an address that is not local.
OnlyLocalPeers == peers \subseteq LocalAddr

\* README: the workspace is gone when the process has ended, except when it was
\* killed, or interrupted before both handlers were in place; a second signal
\* while the first is handled, or at exit, leaves nothing behind.
WipedAtExit ==
    fate = "exit" /\ handler["INT"] # "default" => ~workspace

\* Why: what is left of the workspace is known and will be removed at exit, and
\* is gone when it is forgotten.
Cleaning ==
    /\ life \in {"guard", "mkdtemp"} => ~workspace
    /\ life \in {"guard", "mkdtemp", "assign", "atexit"} => ~registered
    /\ life \in {"TERM", "INT", "client", "routeINT", "routeTERM", "work", "loop", "pass"} => registered
    /\ \A s \in Signals : handler[s] # "default" => registered
    /\ workspace /\ life \notin {"assign", "ended"} => known
    /\ wiping = "forget" => ~workspace /\ life \in {"handling", "finalize", "ended"}
    /\ finalizing => life \in {"finalize", "handling", "ended"}
    /\ life = "finalize" => finalizing
    /\ fate = "exit" => life = "ended"
    /\ WipedAtExit

\* Why: nothing is called before the guard is in place, and what it lets pass
\* is checked address by address.
Guarded ==
    /\ life # "guard" => patched \/ life = "ended"
    /\ life = "guard" => stage = "idle" /\ url = NoHost
    /\ stage # "idle" => patched
    /\ OnlyLocalPeers

\* A process that is asked to stop, at whatever point of its start-up, of a pass,
\* of a call to Core or of its own clean-up, ends.
StopEnds == (signals > 0) ~> (life = "ended")

=============================================================================
