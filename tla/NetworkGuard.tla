---------------------------- MODULE NetworkGuard ----------------------------
(***************************************************************************)
(* One process's way to Bitcoin Core: the check of --rpc-url               *)
(* (broadcast/rpc_url.py), the RPC client (broadcast/core_rpc.py, call)    *)
(* and the guard under it that replaces socket.socket and                  *)
(* socket.create_connection (network_guard.py).  A host name is looked up  *)
(* twice, by the guard and again by the connection, and the resolver may   *)
(* answer differently.                                                     *)
(***************************************************************************)
EXTENDS Integers, Sequences, SequencesExt

CONSTANTS
    Addr,       \* IP addresses
    LocalAddr,  \* the private, loopback, link-local and shared ones
    Loopback,   \* the loopback ones
    Name,       \* host names
    LocalName,  \* localhost and *.local
    Answers,    \* what a resolver may say of a name; <<>> is a failure
    MaxHops,    \* how many redirects of one call are followed
    NoHost

Host == Addr \cup Name

ASSUME NetworkAssumption ==
    /\ Loopback \subseteq LocalAddr
    /\ LocalAddr \subseteq Addr
    /\ LocalName \subseteq Name
    /\ Addr \cap Name = {}
    /\ NoHost \notin Host
    /\ Answers \subseteq Seq(Addr)
    /\ MaxHops \in Nat

VARIABLES
    patched,    \* _PATCHED
    url,        \* the host of the client's URL
    stage,      \* where a call stands
    host,       \* the host it is about to reach
    hops,       \* redirects followed so far
    pending,    \* _pending.allowed_ips
    candidates, \* the addresses socket.create_connection has yet to try
    peers       \* history: addresses a connection was made to

network == <<patched, url, stage, host, hops, pending, candidates, peers>>

NetworkInit ==
    /\ patched = FALSE
    /\ url = NoHost
    /\ stage = "idle"
    /\ host = NoHost
    /\ hops = 0
    /\ pending = {}
    /\ candidates = <<>>
    /\ peers = {}

----------------------------------------------------------------------------
\* assert_loopback_rpc_url
LocalUrl(h) == h \in LocalName \cup Loopback

\* Variant: while a .local name is reached, any address is.
AllowedWhenVetted(h) == pending # {} \/ h \in LocalName \cup LocalAddr

\* _is_allowed_host
Allowed(h) == h \in LocalName \/ h \in pending \/ h \in LocalAddr

\* The call is over: a result, a CoreRpcError, or an exception that passes
\* through; `finally` drops what was vetted.
CallEnds ==
    /\ stage' = "idle"
    /\ host' = NoHost
    /\ hops' = 0
    /\ pending' = {}
    /\ candidates' = <<>>
    /\ UNCHANGED <<patched, url, peers>>

\* enable_localhost_guard
EnableGuard ==
    /\ patched' = TRUE
    /\ UNCHANGED <<url, stage, host, hops, pending, candidates, peers>>

\* CoreRpcClient(...) accepts the URL.
CreateClient(h) ==
    /\ url = NoHost
    /\ LocalUrl(h)
    /\ url' = h
    /\ UNCHANGED <<patched, stage, host, hops, pending, candidates, peers>>

\* An RPC; no proxy is used.
Call ==
    /\ stage = "idle" /\ url # NoHost
    /\ host' = url
    /\ stage' = "open"
    /\ UNCHANGED <<patched, url, hops, pending, candidates, peers>>

\* _guarded_create_connection checks the host ...
Open ==
    /\ stage = "open"
    /\ IF patched /\ ~Allowed(host)
       THEN CallEnds
       ELSE /\ stage' = IF patched /\ host \in LocalName THEN "vet" ELSE "resolve"
            /\ UNCHANGED <<patched, url, host, hops, pending, candidates, peers>>

\* ... and looks a local name up: some answer must be a local address.
Vet ==
    /\ stage = "vet"
    /\ \E a \in Answers :
        IF ToSet(a) \cap LocalAddr = {}
        THEN CallEnds
        ELSE /\ pending' = ToSet(a) \cap LocalAddr
             /\ stage' = "resolve"
             /\ UNCHANGED <<patched, url, host, hops, candidates, peers>>

\* The original create_connection looks it up itself.
Resolve ==
    /\ stage = "resolve"
    /\ \E a \in IF host \in Name THEN Answers ELSE {<<host>>} :
        IF a = <<>>
        THEN CallEnds
        ELSE /\ candidates' = a
             /\ stage' = "connect"
             /\ UNCHANGED <<patched, url, host, hops, pending, peers>>

\* _LocalhostSocket.connect lets the next candidate pass ...
Connect ==
    /\ stage = "connect"
    /\ patched => Allowed(Head(candidates))
    /\ peers' = peers \cup {Head(candidates)}
    /\ stage' = "exchange"
    /\ pending' = {}
    /\ candidates' = <<>>
    /\ UNCHANGED <<patched, url, host, hops>>

\* ... and nobody listens there, so the one after it is tried, if any ...
Refused ==
    /\ stage = "connect"
    /\ patched => Allowed(Head(candidates))
    /\ IF Len(candidates) = 1
       THEN CallEnds
       ELSE /\ candidates' = Tail(candidates)
            /\ UNCHANGED <<patched, url, stage, host, hops, pending, peers>>

\* ... or it does not: NetworkBlockedError is no OSError, and ends the call
\* although candidates are left.
Blocked ==
    /\ stage = "connect"
    /\ patched /\ ~Allowed(Head(candidates))
    /\ CallEnds

\* Core answers, or the connection breaks or times out.
Exchanged ==
    /\ stage = "exchange"
    /\ CallEnds

\* What listens there sends the client elsewhere, and urllib follows.
Redirected ==
    /\ stage = "exchange"
    /\ hops < MaxHops
    /\ host' \in Host
    /\ hops' = hops + 1
    /\ stage' = "open"
    /\ UNCHANGED <<patched, url, pending, candidates, peers>>

CallStep ==
    Open \/ Vet \/ Resolve \/ Connect \/ Refused \/ Blocked \/ Exchanged \/ Redirected

----------------------------------------------------------------------------
NetworkTypeOK ==
    /\ patched \in BOOLEAN
    /\ url \in Host \cup {NoHost}
    /\ stage \in {"idle", "open", "vet", "resolve", "connect", "exchange"}
    /\ host \in Host \cup {NoHost}
    /\ hops \in 0 .. MaxHops
    /\ pending \subseteq LocalAddr
    /\ candidates \in Seq(Addr)
    /\ peers \subseteq Addr
    /\ stage = "idle" <=> host = NoHost
    /\ stage = "connect" <=> candidates # <<>>

=============================================================================
