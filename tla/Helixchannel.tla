---------------------------- MODULE Helixchannel ----------------------------
(***************************************************************************)
(* The helixchannel program: one process runs one of its commands. The     *)
(* gateway is Access; proxy and aes-bridge open the connections of         *)
(* Transport, the bridge only after it has found its own socket to be      *)
(* local; the SOCKS5 client is a library a test program calls.             *)
(***************************************************************************)
EXTENDS Transport, Access

CONSTANT BridgeHosts   \* what --listen of aes-bridge may be

ASSUME BridgeAssumption == \A h \in BridgeHosts : WellFormed(h)

VARIABLES
    command,
    bridge      \* the bridge's listen address, its stage and its socket

vars == <<tvars, avars, command, bridge>>

NoBridge == [at |-> "none", host |-> EmptyHost, addr |-> "none"]

\* The gateway's part while another command runs.
NoGateway ==
    /\ cfg = CHOOSE c \in Configs : TRUE
    /\ phase = "absent" /\ AccessIdle

\* runGateway, runProxy, the library's callers, and runAESBridge, whose
\* transport dials only once the bridge serves.
RunGateway ==
    /\ command = "gateway"
    /\ AccessInit /\ TransportInit("connect", "absent") /\ bridge = NoBridge
RunProxy ==
    /\ command = "proxy" /\ "connect" \in Kinds
    /\ NoGateway /\ TransportInit("connect", "dial") /\ bridge = NoBridge
UseLibrary ==
    /\ command = "library"
    /\ NoGateway /\ \E k \in Kinds \cap {"socks5", "sse"} : TransportInit(k, "dial")
    /\ bridge = NoBridge
RunAESBridge ==
    /\ command = "aes-bridge" /\ "aes" \in Kinds
    /\ NoGateway /\ TransportInit("aes", "absent")
    /\ \E h \in BridgeHosts : bridge = [at |-> "check", host |-> h, addr |-> "none"]

\* main: the command line picks the command.
Init == RunGateway \/ RunProxy \/ UseLibrary \/ RunAESBridge

\* AESBridge.ListenAndServe: the text of the address, then the bind.
BridgeListens ==
    /\ bridge.at = "check"
    /\ \E a \in BindOpens(bridge.host) :
           bridge' = IF a = "fails" \/ ~RequireLoopbackAddr(bridge.host)
                     THEN [NoBridge EXCEPT !.at = "refused"]
                     ELSE [NoBridge EXCEPT !.at = "bound", !.addr = a]
    /\ UNCHANGED <<tvars, avars, command>>

\* AESBridge.Serve: the same check on the socket that was opened; a request
\* then makes the transport dial.
BridgeServes ==
    /\ bridge.at = "bound"
    /\ IF RequireLoopbackAddr(Literal(bridge.addr))
         THEN bridge' = [bridge EXCEPT !.at = "serving"] /\ pc' = "dial"
         ELSE bridge' = [bridge EXCEPT !.at = "refused"] /\ UNCHANGED pc
    /\ UNCHANGED <<wvars, avars, command, kind, conn, step, answered, got, agent, halves>>

Next ==
    \/ TransportNext /\ UNCHANGED <<avars, command, bridge>>
    \/ AccessNext /\ UNCHANGED <<tvars, command, bridge>>
    \/ BridgeListens
    \/ BridgeServes

Spec == Init /\ [][Next]_vars /\ TransportFairness /\ AccessFairness

-----------------------------------------------------------------------------
\* A caller from another host has a request proxied only if it holds the
\* gateway token or the operator allowed everyone: on either leg, and also by
\* way of a CONNECT tunnel that comes back to the gateway.
RemoteServedOnlyWithToken ==
    \A c \in Callers : callers[c].at \in {"proxied", "inside"} /\ callers[c].from = "remote" =>
        "gateway" \in callers[c].holds \/ Mode = "open"

\* No caller from another host holds a tunnel into the gateway's own machine.
NoRemoteTunnelHome ==
    \A c \in Callers : callers[c].at \in {"tunnel", "inside"} /\ callers[c].from = "remote" =>
        callers[c].reached = "peer"

\* The hop into the bridge is not encrypted: the bridge serves and dials on a
\* loopback socket only.
BridgeStaysLocal == bridge.at = "serving" => BoundListenScope(bridge.addr) = "loopbackOnly"

\* Nothing lets another host in that has no right to be: whatever the
\* configuration says, wherever its names resolve and whatever the sockets
\* turn out to be (Serve, ServeWrapped, handleConnect, AESBridge.Serve).
RemoteKeptOut == RemoteServedOnlyWithToken /\ NoRemoteTunnelHome /\ BridgeStaysLocal

\* Every handler between the slot and its return holds exactly one token of
\* the tunnel semaphore, whichever way it ends.
TunnelSlotsCounted ==
    tunnels = Cardinality({c \in Callers : callers[c].at \in {"dialling", "tunnel", "inside"}})

\* What a handshake, a tunnel or a handler took it gives back on every one of
\* its ways out: the connection it dialled and the slot it was counted in
\* (dialGateway, dialSOCKS5, StreamSSE, handle; handleConnect).
ResourcesReturned == ConnsReleased /\ TunnelSlotsCounted

\* A gateway others can reach serves no allowlist that spells this machine,
\* in any notation inet_aton would read, at any width of the last part.
AllowlistNamesNoLocal ==
    legs["plain"] = "serving" /\ BoundListenScope(bound["plain"]) = "reachable" =>
        \A t \in cfg.allowed :
            /\ ~(t.host.form = "literal" /\ t.host.addr \in {"loopback", "unspecified"})
            /\ ~(t.host.form = "numeric" /\ AtonReading(t.host.parts) \in {"loopback", "unspecified"})

\* A gateway that runs has one distinct, usable credential for every key the
\* rotation store counts, in the store's order: what is charged to a key of
\* RotationStore was spent with that key's credential.
PoolFitsStore ==
    phase \in {"start", "running"} /\ HasPluralKeys(cfg.route) =>
        /\ Len(pool) = DeclaredKeyCount(cfg.route)
        /\ \A i \in DOMAIN pool : /\ pool[i] \notin Unusable
                                  /\ pool[i] = KeySlots(cfg.route)[i].value
        /\ \A i, j \in DOMAIN pool : i # j => pool[i] # pool[j]

\* When a leg fails or a signal arrives the whole process ends, although a
\* proxied request or a tunnel may never end by itself.
FailureStopsGateway ==
    (\E l \in Legs : legs[l] = "failed") \/ ctxDone ~> phase = "exited"
=============================================================================
