------------------------------- MODULE Access -------------------------------
(***************************************************************************)
(* Who may use a gateway, from its configuration to its shutdown: Validate *)
(* on the configuration, NewServer, the two legs runGateway starts (the    *)
(* reverse-proxy leg with CONNECT, and the AES leg without it), what each  *)
(* makes of the socket it really bound, the callers that arrive, and the   *)
(* joined end of the legs. What a leg serves is modelled by Gateway and    *)
(* Tunnel; here a proxied request or a tunnel is only open or closed.      *)
(*                                                                         *)
(* A caller is local or remote and holds some of the two tokens. A remote  *)
(* one connects only to a socket that can be reached. A tunnel whose far   *)
(* end is this gateway's own port lets its holder send a request that      *)
(* arrives as the gateway's own connection.                                *)
(***************************************************************************)
EXTENDS ConnectTarget, Credentials, FiniteSets

CONSTANTS
    Configs,      \* the configurations to start with
    NoLeg,        \* the AES leg is not enabled
    Callers,
    MaxTunnels    \* connect.max_concurrent

ASSUME AccessAssumption == MaxTunnels \in Nat \ {0} /\ IsFiniteSet(Callers)

\* There is a configuration; its hosts are hosts and its key sources sources.
ASSUME ConfigAssumption ==
    /\ Configs # {}
    /\ \A c \in Configs :
           /\ WellFormed(c.listen) /\ (c.aes # NoLeg => WellFormed(c.aes))
           /\ \A t \in c.allowed : WellFormed(t.host) /\ t.port \in {"own", "other"}
           /\ {c.route.keyEnvs, c.route.keyFiles, c.route.keyRefs} \subseteq Seq(KeySource)

Legs == {"plain", "aes"}

VARIABLES
    cfg,        \* the configuration, with the --listen override applied
    phase,      \* where runGateway is
    pool,       \* credentials of the route's injector
    bound,      \* leg -> the address its socket got
    legs,       \* leg -> where its goroutine is
    ctxDone,    \* a signal, or stop() after the first error
    tunnels,    \* tokens in the tunnel semaphore
    callers     \* caller -> what it is doing

avars == <<cfg, phase, pool, bound, legs, ctxDone, tunnels, callers>>
starting == <<cfg, pool, bound, ctxDone, tunnels, callers>>

Away == [at |-> "away", from |-> "local", holds |-> {}, leg |-> "plain",
         reached |-> "none", port |-> "none"]

\* Nothing has started.
AccessIdle ==
    /\ pool = <<>>
    /\ bound = [l \in Legs |-> "none"]
    /\ legs = [l \in Legs |-> "off"]
    /\ ctxDone = FALSE /\ tunnels = 0
    /\ callers = [c \in Callers |-> Away]

AccessInit == cfg \in Configs /\ phase = "load" /\ AccessIdle

-----------------------------------------------------------------------------
\* GatewayAuthConfig.Mode
Mode == CASE cfg.hasToken /\ cfg.exemptLoopback -> "tokenLoopbackExempt"
          [] cfg.hasToken /\ ~cfg.exemptLoopback -> "token"
          [] ~cfg.hasToken /\ cfg.allowUnauthenticated -> "open"
          [] OTHER -> "loopbackOnly"

ConnectEnabled(l) == l = "plain" /\ cfg.allowed # {}

ValidateConnect ==
    \A t \in cfg.allowed : ~ConnectSelfReference(t, cfg.listen, IsLoopbackListen(cfg.listen))

\* The two listen strings differ in host or in port; the certificate and the key
\* source that are also required are taken as given.
ValidateAES == cfg.aes # NoLeg => cfg.aes # cfg.listen \/ cfg.aesPort # "own"

ValidateGatewayAuth ==
    /\ ~(cfg.hasToken /\ cfg.allowUnauthenticated)
    /\ cfg.hasToken \/ cfg.exemptLoopback
    /\ cfg.hasToken \/ cfg.allowUnauthenticated \/ IsLoopbackListen(cfg.listen)

Validate == ValidateRoute(cfg.route) /\ ValidateConnect /\ ValidateAES /\ ValidateGatewayAuth

\* LoadConfig, and Validate again when --listen replaced the address.
LoadConfig ==
    /\ phase = "load"
    /\ phase' = IF Validate THEN "server" ELSE "refused"
    /\ UNCHANGED <<starting, legs>>

\* The two tokens gate different powers and must differ.
TokensUsable ==
    /\ cfg.hasToken => cfg.gatewayToken \notin Unusable
    /\ cfg.allowed # {} => cfg.connectToken \notin Unusable
    /\ cfg.hasToken /\ cfg.allowed # {} => cfg.gatewayToken # cfg.connectToken

NewServer ==
    /\ phase = "server"
    /\ IF CredentialsUsable(cfg.route) /\ TokensUsable
         THEN /\ phase' = IF cfg.aes = NoLeg THEN "start" ELSE "aes"
              /\ pool' = ResolveKeyPool(cfg.route)
         ELSE /\ phase' = "refused"
              /\ UNCHANGED pool
    /\ UNCHANGED <<cfg, bound, legs, ctxDone, tunnels, callers>>

\* runGateway binds the AES leg's socket itself, before either leg runs.
ListenAES ==
    /\ phase = "aes"
    /\ \E a \in BindOpens(cfg.aes) :
           IF a = "fails" THEN phase' = "refused" /\ UNCHANGED bound
           ELSE phase' = "start" /\ bound' = [bound EXCEPT !["aes"] = a]
    /\ UNCHANGED <<cfg, pool, legs, ctxDone, tunnels, callers>>

StartLegs ==
    /\ phase = "start"
    /\ phase' = "running"
    /\ legs' = [l \in Legs |-> IF l = "aes" /\ cfg.aes = NoLeg THEN "joined" ELSE "start"]
    /\ UNCHANGED starting

-----------------------------------------------------------------------------
\* bindRefusal # "": this socket must not be served.
BindRefusal(l, addr) ==
    /\ BoundListenScope(addr) # "loopbackOnly"
    /\ \/ Mode = "loopbackOnly"
       \/ /\ ConnectEnabled(l)
          /\ \E t \in cfg.allowed : ConnectSelfReference(t, Literal(addr), FALSE)

\* ListenAndServe and Serve: bind, judge what was bound, then serve or close it.
ServePlain ==
    /\ legs["plain"] = "start"
    /\ \E a \in BindOpens(cfg.listen) :
           IF a = "fails" \/ BindRefusal("plain", a)
           THEN legs' = [legs EXCEPT !["plain"] = "failed"] /\ UNCHANGED bound
           ELSE /\ legs' = [legs EXCEPT !["plain"] = "serving"]
                /\ bound' = [bound EXCEPT !["plain"] = a]
    /\ UNCHANGED <<cfg, phase, pool, ctxDone, tunnels, callers>>

ServeWrapped ==
    /\ legs["aes"] = "start"
    /\ legs' = [legs EXCEPT !["aes"] = IF BindRefusal("aes", bound["aes"]) THEN "failed" ELSE "serving"]
    /\ UNCHANGED <<starting, phase>>

ServeFails(l) ==
    /\ legs[l] = "serving"
    /\ legs' = [legs EXCEPT ![l] = "failed"]
    /\ UNCHANGED <<starting, phase>>

Signal ==
    /\ phase = "running" /\ ~ctxDone
    /\ ctxDone' = TRUE
    /\ UNCHANGED <<cfg, phase, pool, bound, legs, tunnels, callers>>

\* The connections net/http waits for: a tunnel has been taken out of its hands.
InFlight(l) == {c \in Callers : callers[c].at \in {"proxied", "dialling"} /\ callers[c].leg = l}

\* shutdownHTTPServer: no new connections, wait for the requests in flight.
BeginShutdown(l) ==
    /\ ctxDone /\ legs[l] = "serving"
    /\ legs' = [legs EXCEPT ![l] = "draining"]
    /\ UNCHANGED <<starting, phase>>

Drained(l) ==
    /\ legs[l] = "draining" /\ InFlight(l) = {}
    /\ legs' = [legs EXCEPT ![l] = "ended"]
    /\ UNCHANGED <<starting, phase>>

\* The budget is over: what is still in flight is closed, and reported. A
\* handler that is dialling finds out later.
BudgetExpires(l) ==
    /\ legs[l] = "draining" /\ InFlight(l) # {}
    /\ callers' = [c \in Callers |-> IF c \in InFlight(l) /\ callers[c].at = "proxied"
                                       THEN Away ELSE callers[c]]
    /\ legs' = [legs EXCEPT ![l] = "failed"]
    /\ UNCHANGED <<cfg, phase, pool, bound, ctxDone, tunnels>>

\* Faulty variant: the other leg is left running.
JoinWithoutStop(l) ==
    /\ legs[l] \in {"failed", "ended"}
    /\ legs' = [legs EXCEPT ![l] = "joined"]
    /\ UNCHANGED <<cfg, phase, pool, bound, ctxDone, tunnels, callers>>

\* runGateway receives a leg's result; the first error stops the other leg.
Join(l) ==
    /\ legs[l] \in {"failed", "ended"}
    /\ legs' = [legs EXCEPT ![l] = "joined"]
    /\ ctxDone' = (ctxDone \/ legs[l] = "failed")
    /\ UNCHANGED <<cfg, phase, pool, bound, tunnels, callers>>

\* The process exits, and with it every tunnel that is still up.
Exit ==
    /\ phase = "running" /\ \A l \in Legs : legs[l] = "joined"
    /\ phase' = "exited"
    /\ callers' = [c \in Callers |-> Away] /\ tunnels' = 0
    /\ UNCHANGED <<cfg, pool, bound, legs, ctxDone>>

-----------------------------------------------------------------------------
Leave(c) == callers' = [callers EXCEPT ![c] = Away]

\* A caller reaches a leg: from another host only if the socket can be reached.
CanReach(from, l) ==
    legs[l] = "serving" /\ (from = "remote" => BoundListenScope(bound[l]) = "reachable")

\* isLoopbackPeer, for a caller on this machine.
PeerIsLoopback(from, l) == from = "local" /\ bound[l] \notin {"own", "alias"}

\* authorizeProxy: what a caller without the right token may still do.
AuthorizeProxy(loopbackPeer, holds) ==
    \/ Mode \in {"open", "loopbackOnly"}
    \/ Mode = "tokenLoopbackExempt" /\ loopbackPeer
    \/ cfg.hasToken /\ "gateway" \in holds

\* A proxied request: served, or refused with 401 at once.
Proxied(c, from, holds, l) ==
    /\ callers[c] = Away /\ CanReach(from, l)
    /\ AuthorizeProxy(PeerIsLoopback(from, l), holds)
    /\ callers' = [callers EXCEPT ![c] = [at |-> "proxied", from |-> from, holds |-> holds,
                                          leg |-> l, reached |-> "none", port |-> "none"]]
    /\ UNCHANGED <<cfg, phase, pool, bound, legs, ctxDone, tunnels>>

ProxiedEnds(c) ==
    /\ callers[c].at = "proxied"
    /\ Leave(c)
    /\ UNCHANGED <<cfg, phase, pool, bound, legs, ctxDone, tunnels>>

\* handleConnect up to the slot: leg, token, allowlist, semaphore.
ConnectAdmitted(c, from, holds, l) ==
    /\ callers[c] = Away /\ CanReach(from, l)
    /\ ConnectEnabled(l) /\ "connect" \in holds
    /\ tunnels < MaxTunnels
    /\ tunnels' = tunnels + 1
    /\ callers' = [callers EXCEPT ![c] = [at |-> "dialling", from |-> from, holds |-> holds,
                                          leg |-> l, reached |-> "none", port |-> "none"]]
    /\ UNCHANGED <<cfg, phase, pool, bound, legs, ctxDone>>

\* The dial or the hijack failed: the deferred release gives the slot back.
ConnectFails(c) ==
    /\ callers[c].at = "dialling"
    /\ Leave(c)
    /\ tunnels' = tunnels - 1
    /\ UNCHANGED <<cfg, phase, pool, bound, legs, ctxDone>>

\* Faulty variant: the reach is predicted from the configured address.
ServingScopeByText(l) == IF IsLoopbackListen(cfg.listen) \/ cfg.listen = ReservedName
                         THEN "loopbackOnly" ELSE "reachable"

\* servingScope: the reach of the socket that was adopted.
ServingScope(l) == BoundListenScope(bound[l])

\* The dial reached a machine: refused with the slot given back, or a tunnel.
Dialled(c) ==
    /\ callers[c].at = "dialling"
    /\ \E t \in cfg.allowed : \E remote \in DialReaches(t.host) :
           IF ConnectDialRefusal(ServingScope(callers[c].leg), SourceOf(remote), remote)
           THEN Leave(c) /\ tunnels' = tunnels - 1
           ELSE /\ callers' = [callers EXCEPT ![c].at = "tunnel", ![c].reached = remote,
                                              ![c].port = t.port]
                /\ UNCHANGED tunnels
    /\ UNCHANGED <<cfg, phase, pool, bound, legs, ctxDone>>

\* A request sent through a tunnel that ends on this gateway's own socket.
ProxiedThroughTunnel(c) ==
    /\ callers[c].at = "tunnel" /\ callers[c].port = "own"
    /\ legs["plain"] = "serving" /\ bound["plain"] \in {callers[c].reached, "unspecified"}
    /\ callers[c].reached # "peer"
    /\ AuthorizeProxy(callers[c].reached = "loopback", callers[c].holds)
    /\ callers' = [callers EXCEPT ![c].at = "inside"]
    /\ UNCHANGED <<cfg, phase, pool, bound, legs, ctxDone, tunnels>>

TunnelEnds(c) ==
    /\ callers[c].at \in {"tunnel", "inside"}
    /\ Leave(c)
    /\ tunnels' = tunnels - 1
    /\ UNCHANGED <<cfg, phase, pool, bound, legs, ctxDone>>

Arrives(c) ==
    \E from \in {"local", "remote"}, holds \in {{}, {"gateway"}, {"connect"}}, l \in Legs :
        Proxied(c, from, holds, l) \/ ConnectAdmitted(c, from, holds, l)

Caller(c) == \/ Arrives(c) \/ ProxiedEnds(c) \/ ConnectFails(c) \/ Dialled(c)
             \/ ProxiedThroughTunnel(c) \/ TunnelEnds(c)

Leg(l) == ServeFails(l) \/ BeginShutdown(l) \/ Drained(l) \/ BudgetExpires(l) \/ Join(l)

Startup == LoadConfig \/ NewServer \/ ListenAES \/ StartLegs \/ ServePlain \/ ServeWrapped

AccessNext == Startup \/ Signal \/ Exit \/ (\E l \in Legs : Leg(l)) \/ (\E c \in Callers : Caller(c))

\* The process goes on; no caller need ever finish, and no leg need ever fail.
AccessFairness ==
    /\ WF_avars(Startup) /\ WF_avars(Exit)
    /\ \A l \in Legs : WF_avars(BeginShutdown(l) \/ Drained(l) \/ BudgetExpires(l) \/ Join(l))
=============================================================================
