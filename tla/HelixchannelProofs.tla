------------------------- MODULE HelixchannelProofs -------------------------
(***************************************************************************)
(* Proofs about the helixchannel program, for every set of configurations, *)
(* callers and bridge addresses: nobody from another host gets in without  *)
(* the right to, the allowlist of a gateway others can reach does not name *)
(* it, the pool of credentials is the one the rotation store counts, what  *)
(* a handler takes it gives back, and every kind of connection carries its *)
(* bytes as a stream.                                                      *)
(***************************************************************************)
EXTENDS Helixchannel, FiniteSetTheorems, SequenceTheorems, TLAPS

-----------------------------------------------------------------------------
(* The gateway's part: the legs, the sockets and the callers.              *)

LegStates == {"off", "start", "serving", "draining", "failed", "ended", "joined"}

CallerStates ==
    [at: {"away", "proxied", "dialling", "tunnel", "inside"}, from: {"local", "remote"},
     holds: SUBSET {"gateway", "connect"}, leg: Legs,
     reached: Addresses \cup {"none"}, port: {"own", "other", "none"}]

AccessTypeOK ==
    /\ cfg \in Configs
    /\ bound \in [Legs -> Addresses \cup {"none"}]
    /\ legs \in [Legs -> LegStates]
    /\ callers \in [Callers -> CallerStates]

\* Nothing runs before runGateway has started the legs, and it binds a socket
\* for the AES leg only if there is one.
LegsStartLate ==
    /\ phase \notin {"running", "exited"} => \A l \in Legs : legs[l] = "off"
    /\ phase = "aes" => cfg.aes # NoLeg

\* A gateway without a token that was not told to let everyone in serves only
\* on sockets nobody else can reach.
SocketsJudged ==
    \A l \in Legs : legs[l] = "serving" /\ Mode = "loopbackOnly" =>
        BoundListenScope(bound[l]) = "loopbackOnly"

\* Why a caller is where it is: its leg has come to serve, one from another
\* host came by a socket that can be reached, it is served with the token or
\* because everyone is, and its tunnel does not end here.
CallerJustified(c) ==
    /\ callers[c].at # "away" => legs[callers[c].leg] \notin {"off", "start"}
    /\ callers[c].at # "away" /\ callers[c].from = "remote" =>
           BoundListenScope(bound[callers[c].leg]) = "reachable"
    /\ callers[c].at \in {"proxied", "inside"} /\ callers[c].from = "remote" =>
           "gateway" \in callers[c].holds \/ Mode = "open"
    /\ callers[c].at \in {"tunnel", "inside"} /\ callers[c].from = "remote" =>
           callers[c].reached = "peer"

AccessInv ==
    /\ AccessTypeOK /\ LegsStartLate /\ SocketsJudged
    /\ \A c \in Callers : CallerJustified(c)

InTunnel == {c \in Callers : callers[c].at \in {"dialling", "tunnel", "inside"}}

-----------------------------------------------------------------------------
\* What a bind of a well-formed host opens, and what a dial to one reaches.
LEMMA HostsLead ==
    ASSUME NEW h, WellFormed(h)
    PROVE  /\ BindOpens(h) \subseteq Addresses \cup {"fails"}
           /\ DialReaches(h) \subseteq Addresses
BY DEF WellFormed, BindOpens, DialReaches, AnyMachine, Addresses

\* The dial of a caller from another host that is not refused has reached
\* another machine: the last layer of the defence needs no configuration.
LEMMA DialEndsElsewhere ==
    ASSUME NEW remote, ~ConnectDialRefusal("reachable", SourceOf(remote), remote)
    PROVE  remote = "peer"
BY DEF ConnectDialRefusal, SourceOf

\* authorizeProxy lets a caller without the token in only if everyone is, or
\* nobody from elsewhere can be there, or it is this machine's own.
LEMMA AuthorizedBy ==
    ASSUME NEW loopbackPeer, NEW holds, AuthorizeProxy(loopbackPeer, holds)
    PROVE  Mode \in {"open", "loopbackOnly"} \/ loopbackPeer \/ "gateway" \in holds
BY DEF AuthorizeProxy

LEMMA ModeKept == UNCHANGED cfg => Mode' = Mode
BY DEF Mode

LEMMA AccessIdleInv ==
    ASSUME cfg \in Configs, phase \notin {"aes", "running", "exited"}, AccessIdle
    PROVE  AccessInv /\ TunnelSlotsCounted
<1>1. AccessTypeOK
  BY DEF AccessIdle, AccessTypeOK, Away, CallerStates, LegStates, Legs
<1>2. LegsStartLate /\ SocketsJudged /\ \A c \in Callers : CallerJustified(c)
  BY DEF AccessIdle, Away, LegsStartLate, SocketsJudged, CallerJustified
<1>3. {c \in Callers : callers[c].at \in {"dialling", "tunnel", "inside"}} = {}
  BY DEF AccessIdle, Away
<1>4. QED  BY <1>1, <1>2, <1>3, FS_EmptySet DEF AccessInv, TunnelSlotsCounted, AccessIdle

\* A step that leaves the callers alone, keeps the sockets of the legs that
\* serve or have served, and starts no leg twice, justifies them still.
LEMMA CallersUntouched ==
    ASSUME AccessInv, UNCHANGED <<cfg, callers>>,
           \A l \in Legs : legs[l] \notin {"off", "start"} =>
               legs'[l] \notin {"off", "start"} /\ bound'[l] = bound[l]
    PROVE  \A c \in Callers : CallerJustified(c)'
<1> SUFFICES ASSUME NEW c \in Callers PROVE CallerJustified(c)'
  OBVIOUS
<1>1. callers[c].leg \in Legs
  BY DEF AccessInv, AccessTypeOK, CallerStates
<1>2. Mode' = Mode
  BY ModeKept
<1>3. QED  BY <1>1, <1>2 DEF AccessInv, CallerJustified

\* A step of caller c leaves the justification of the others alone.
LEMMA OneCallerMoves ==
    ASSUME AccessInv, UNCHANGED <<cfg, phase, bound, legs>>, NEW c \in Callers,
           NEW q \in CallerStates, callers' = [callers EXCEPT ![c] = q],
           CallerJustified(c)'
    PROVE  AccessInv'
<1>1. Mode' = Mode
  BY ModeKept
<1>2. AccessTypeOK' /\ LegsStartLate' /\ SocketsJudged'
  BY <1>1 DEF AccessInv, AccessTypeOK, LegsStartLate, SocketsJudged
<1>3. ASSUME NEW d \in Callers, d # c PROVE CallerJustified(d)'
  <2>1. callers'[d] = callers[d]
    BY <1>3 DEF AccessInv, AccessTypeOK
  <2>2. QED  BY <1>1, <2>1 DEF AccessInv, CallerJustified
<1>4. QED  BY <1>2, <1>3 DEF AccessInv

\* A caller that is away needs no justification.
LEMMA AwayState == Away \in CallerStates
BY DEF Away, CallerStates, Legs

LEMMA AwayJustified ==
    ASSUME NEW c \in Callers, AccessTypeOK, callers' = [callers EXCEPT ![c] = Away]
    PROVE  CallerJustified(c)'
<1>1. callers'[c].at = "away"
  BY DEF AccessTypeOK, Away
<1>2. QED  BY <1>1 DEF CallerJustified

-----------------------------------------------------------------------------
\* From the configuration to legs that serve.
LEMMA StartupKeeps ==
    ASSUME AccessInv, Startup
    PROVE  AccessInv'
<1> USE DEF Legs
<1>1. CASE LoadConfig \/ NewServer
  <2>1. /\ UNCHANGED <<cfg, bound, legs, callers>> /\ phase \notin {"running", "exited"}
        /\ phase' = "aes" => cfg.aes # NoLeg
    BY <1>1 DEF LoadConfig, NewServer, starting
  <2>2. Mode' = Mode
    BY <2>1, ModeKept
  <2>3. AccessTypeOK' /\ LegsStartLate' /\ SocketsJudged'
    BY <2>1, <2>2 DEF AccessInv, AccessTypeOK, LegsStartLate, SocketsJudged
  <2>4. QED  BY <2>1, <2>3, CallersUntouched DEF AccessInv
<1>2. CASE ListenAES
  <2>1. \A l \in Legs : legs[l] = "off" /\ legs'[l] = "off"
    BY <1>2 DEF AccessInv, LegsStartLate, ListenAES
  <2>2. PICK a \in BindOpens(cfg.aes) :
            IF a = "fails" THEN phase' = "refused" /\ UNCHANGED bound
            ELSE phase' = "start" /\ bound' = [bound EXCEPT !["aes"] = a]
    BY <1>2 DEF ListenAES
  <2>3. AccessTypeOK'
    BY <1>2, <2>2, HostsLead, ConfigAssumption DEF ListenAES, AccessInv, AccessTypeOK, LegsStartLate
  <2>4. QED
    BY <1>2, <2>1, <2>3, CallersUntouched DEF ListenAES, AccessInv, LegsStartLate, SocketsJudged
<1>3. CASE StartLegs
  <2>1. \A l \in Legs : legs[l] = "off" /\ legs'[l] \in {"joined", "start"}
    BY <1>3 DEF AccessInv, LegsStartLate, StartLegs
  <2>2. AccessTypeOK'
    BY <1>3 DEF AccessInv, AccessTypeOK, StartLegs, starting, LegStates
  <2>3. QED
    BY <1>3, <2>1, <2>2, CallersUntouched
       DEF StartLegs, starting, AccessInv, LegsStartLate, SocketsJudged
<1>4. CASE ServePlain
  <2>1. PICK a \in BindOpens(cfg.listen) :
            IF a = "fails" \/ BindRefusal("plain", a)
            THEN legs' = [legs EXCEPT !["plain"] = "failed"] /\ UNCHANGED bound
            ELSE /\ legs' = [legs EXCEPT !["plain"] = "serving"]
                 /\ bound' = [bound EXCEPT !["plain"] = a]
    BY <1>4 DEF ServePlain
  <2>2. a \in Addresses \cup {"fails"}
    BY HostsLead, ConfigAssumption DEF AccessInv, AccessTypeOK
  <2>3. AccessTypeOK'
    BY <1>4, <2>1, <2>2 DEF ServePlain, AccessInv, AccessTypeOK, LegStates
  <2>4. legs["plain"] = "start" /\ UNCHANGED <<cfg, phase, callers>> /\ Mode' = Mode
    BY <1>4, ModeKept DEF ServePlain
  <2>5. legs'["aes"] = legs["aes"] /\ bound'["aes"] = bound["aes"]
    BY <2>1 DEF AccessInv, AccessTypeOK
  <2>6. legs'["plain"] = "serving" => bound'["plain"] = a /\ ~BindRefusal("plain", a)
    BY <2>1 DEF AccessInv, AccessTypeOK
  <2>7. SocketsJudged'
    BY <2>4, <2>5, <2>6 DEF AccessInv, SocketsJudged, BindRefusal
  <2>8. LegsStartLate'
    BY <2>4 DEF AccessInv, LegsStartLate
  <2>9. QED  BY <2>3, <2>4, <2>5, <2>7, <2>8, CallersUntouched DEF AccessInv
<1>5. CASE ServeWrapped
  <2>1. legs["aes"] = "start" /\ UNCHANGED <<cfg, phase, callers, bound>> /\ Mode' = Mode
    BY <1>5, ModeKept DEF ServeWrapped, starting
  <2>2. AccessTypeOK'
    BY <1>5, <2>1 DEF ServeWrapped, AccessInv, AccessTypeOK, LegStates
  <2>3. /\ legs'["plain"] = legs["plain"]
        /\ legs'["aes"] = "serving" => ~BindRefusal("aes", bound["aes"])
    BY <1>5 DEF ServeWrapped, AccessInv, AccessTypeOK
  <2>4. SocketsJudged'
    BY <2>1, <2>3 DEF AccessInv, SocketsJudged, BindRefusal
  <2>5. LegsStartLate'
    BY <2>1 DEF AccessInv, LegsStartLate
  <2>6. QED  BY <2>1, <2>2, <2>3, <2>4, <2>5, CallersUntouched DEF AccessInv
<1>6. QED  BY <1>1, <1>2, <1>3, <1>4, <1>5 DEF Startup

\* The end of a leg, and of the process.
LEMMA LegKeeps ==
    ASSUME AccessInv, NEW k \in Legs, Leg(k)
    PROVE  AccessInv'
<1>1. PICK s \in {"failed", "draining", "ended", "joined"} : legs' = [legs EXCEPT ![k] = s]
  BY DEF Leg, ServeFails, BeginShutdown, Drained, BudgetExpires, Join
<1>2. UNCHANGED <<cfg, phase, bound>> /\ legs[k] \notin {"off", "start"}
  BY DEF Leg, ServeFails, BeginShutdown, Drained, BudgetExpires, Join, starting
<1>3. Mode' = Mode
  BY <1>2, ModeKept
<1>4. \A l \in Legs : legs[l] \notin {"off", "start"} => legs'[l] \notin {"off", "start"}
  BY <1>1 DEF AccessInv, AccessTypeOK
<1>5. LegsStartLate' /\ SocketsJudged'
  BY <1>1, <1>2, <1>3 DEF AccessInv, AccessTypeOK, LegsStartLate, SocketsJudged
<1>6. CASE UNCHANGED callers
  <2>1. AccessTypeOK'
    BY <1>1, <1>2, <1>6 DEF AccessInv, AccessTypeOK, LegStates
  <2>2. QED  BY <1>2, <1>4, <1>5, <1>6, <2>1, CallersUntouched DEF AccessInv
<1>7. CASE callers' = [c \in Callers |-> IF c \in InFlight(k) /\ callers[c].at = "proxied"
                                           THEN Away ELSE callers[c]]
  <2>1. AccessTypeOK'
    BY <1>1, <1>2, <1>7, AwayState DEF AccessInv, AccessTypeOK, LegStates
  <2>2. ASSUME NEW c \in Callers PROVE CallerJustified(c)'
    <3>1. CASE callers'[c] = Away
      BY <3>1 DEF CallerJustified, Away
    <3>2. CASE callers'[c] = callers[c]
      <4>1. callers[c].leg \in Legs
        BY DEF AccessInv, AccessTypeOK, CallerStates
      <4>2. QED  BY <1>2, <1>3, <1>4, <3>2, <4>1 DEF AccessInv, CallerJustified
    <3>3. QED  BY <1>7, <3>1, <3>2
  <2>3. QED  BY <1>5, <2>1, <2>2 DEF AccessInv
<1>8. QED
  BY <1>6, <1>7 DEF Leg, ServeFails, BeginShutdown, Drained, BudgetExpires, Join, starting

LEMMA ExitKeeps ==
    ASSUME AccessInv, Exit
    PROVE  AccessInv'
<1>1. UNCHANGED <<cfg, bound, legs>> /\ Mode' = Mode
  BY ModeKept DEF Exit
<1>2. \A c \in Callers : callers'[c] = Away
  BY DEF Exit
<1>3. AccessTypeOK' /\ \A c \in Callers : CallerJustified(c)'
  BY <1>1, <1>2, AwayState DEF Exit, AccessInv, AccessTypeOK, CallerJustified, Away
<1>4. LegsStartLate' /\ SocketsJudged'
  BY <1>1 DEF Exit, AccessInv, LegsStartLate, SocketsJudged
<1>5. QED  BY <1>3, <1>4 DEF AccessInv

\* What a caller does, one handler step at a time.
LEMMA CallerKeeps ==
    ASSUME AccessInv, NEW c \in Callers, Caller(c)
    PROVE  AccessInv'
<1> USE DEF Legs
<1>1. ASSUME NEW from \in {"local", "remote"}, NEW holds \in {{}, {"gateway"}, {"connect"}},
             NEW l \in Legs, Proxied(c, from, holds, l)
      PROVE  AccessInv'
  <2> DEFINE q == [at |-> "proxied", from |-> from, holds |-> holds,
                   leg |-> l, reached |-> "none", port |-> "none"]
  <2>1. q \in CallerStates
    BY DEF CallerStates
  <2>2. callers' = [callers EXCEPT ![c] = q] /\ UNCHANGED <<cfg, phase, bound, legs>>
    BY <1>1 DEF Proxied
  <2>3. callers'[c] = q
    BY <2>2 DEF AccessInv, AccessTypeOK
  <2>4. legs[l] = "serving" /\ (from = "remote" => BoundListenScope(bound[l]) = "reachable")
    BY <1>1 DEF Proxied, CanReach
  <2>5. ASSUME from = "remote" PROVE "gateway" \in holds \/ Mode = "open"
    <3>1. AuthorizeProxy(PeerIsLoopback(from, l), holds)
      BY <1>1 DEF Proxied
    <3>2. ~PeerIsLoopback(from, l)
      BY <2>5 DEF PeerIsLoopback
    <3>3. Mode # "loopbackOnly"
      BY <2>4, <2>5 DEF AccessInv, SocketsJudged
    <3>4. QED  BY <3>1, <3>2, <3>3, AuthorizedBy
  <2>6. Mode' = Mode
    BY <2>2, ModeKept
  <2>7. CallerJustified(c)'
    BY <2>2, <2>3, <2>4, <2>5, <2>6 DEF CallerJustified
  <2>8. QED  BY <2>1, <2>2, <2>7, OneCallerMoves
<1>2. ASSUME NEW from \in {"local", "remote"}, NEW holds \in {{}, {"gateway"}, {"connect"}},
             NEW l \in Legs, ConnectAdmitted(c, from, holds, l)
      PROVE  AccessInv'
  <2> DEFINE q == [at |-> "dialling", from |-> from, holds |-> holds,
                   leg |-> l, reached |-> "none", port |-> "none"]
  <2>1. q \in CallerStates
    BY DEF CallerStates
  <2>2. callers' = [callers EXCEPT ![c] = q] /\ UNCHANGED <<cfg, phase, bound, legs>>
    BY <1>2 DEF ConnectAdmitted
  <2>3. callers'[c] = q
    BY <2>2 DEF AccessInv, AccessTypeOK
  <2>4. legs[l] = "serving" /\ (from = "remote" => BoundListenScope(bound[l]) = "reachable")
    BY <1>2 DEF ConnectAdmitted, CanReach
  <2>5. CallerJustified(c)'
    BY <2>2, <2>3, <2>4 DEF CallerJustified
  <2>6. QED  BY <2>1, <2>2, <2>5, OneCallerMoves
<1>3. CASE Leave(c) /\ UNCHANGED <<cfg, phase, bound, legs>>
  BY <1>3, AwayState, AwayJustified, OneCallerMoves DEF Leave, AccessInv
<1>4. CASE Dialled(c)
  <2>1. PICK t \in cfg.allowed : \E remote \in DialReaches(t.host) :
            IF ConnectDialRefusal(ServingScope(callers[c].leg), SourceOf(remote), remote)
            THEN Leave(c) /\ tunnels' = tunnels - 1
            ELSE /\ callers' = [callers EXCEPT ![c].at = "tunnel", ![c].reached = remote,
                                               ![c].port = t.port]
                 /\ UNCHANGED tunnels
    BY <1>4 DEF Dialled
  <2>2. PICK remote \in DialReaches(t.host) :
            IF ConnectDialRefusal(ServingScope(callers[c].leg), SourceOf(remote), remote)
            THEN Leave(c)
            ELSE callers' = [callers EXCEPT ![c].at = "tunnel", ![c].reached = remote,
                                            ![c].port = t.port]
    BY <2>1
  <2>3. remote \in Addresses /\ t.port \in {"own", "other"}
    BY ConfigAssumption, HostsLead DEF AccessInv, AccessTypeOK
  <2>4. callers[c].at = "dialling" /\ UNCHANGED <<cfg, phase, bound, legs>>
    BY <1>4 DEF Dialled
  <2>5. CASE ~ConnectDialRefusal(ServingScope(callers[c].leg), SourceOf(remote), remote)
    <3> DEFINE q == [callers[c] EXCEPT !.at = "tunnel", !.reached = remote, !.port = t.port]
    <3>1. callers[c] \in CallerStates
      BY DEF AccessInv, AccessTypeOK
    <3>2. /\ q \in CallerStates /\ q.at = "tunnel" /\ q.reached = remote
          /\ q.from = callers[c].from /\ q.leg = callers[c].leg
      BY <2>3, <3>1 DEF CallerStates
    <3> HIDE DEF q
    <3>3. callers' = [callers EXCEPT ![c] = q]
      BY <2>2, <2>5, Zenon DEF q
    <3>4. callers'[c] = q
      BY <3>3 DEF AccessInv, AccessTypeOK
    <3>5. q.from = "remote" => remote = "peer"
      BY <2>4, <2>5, <3>2, DialEndsElsewhere DEF AccessInv, CallerJustified, ServingScope
    <3>6. CallerJustified(c)'
      BY <2>4, <3>2, <3>4, <3>5 DEF AccessInv, CallerJustified
    <3>7. QED  BY <2>4, <3>2, <3>3, <3>6, OneCallerMoves
  <2>6. QED  BY <1>3, <2>2, <2>4, <2>5
<1>5. CASE ProxiedThroughTunnel(c)
  <2> DEFINE q == [callers[c] EXCEPT !.at = "inside"]
  <2>1. callers[c] \in CallerStates
    BY DEF AccessInv, AccessTypeOK
  <2>2. /\ q \in CallerStates /\ q.at = "inside" /\ q.leg = callers[c].leg
        /\ q.from = callers[c].from /\ q.reached = callers[c].reached
    BY <2>1 DEF CallerStates
  <2> HIDE DEF q
  <2>3. callers' = [callers EXCEPT ![c] = q]
    BY <1>5, Zenon DEF ProxiedThroughTunnel, q
  <2>4. callers'[c] = q
    BY <2>3 DEF AccessInv, AccessTypeOK
  <2>5. callers[c].from # "remote"
    BY <1>5 DEF ProxiedThroughTunnel, AccessInv, CallerJustified
  <2>6. UNCHANGED <<cfg, phase, bound, legs>> /\ callers[c].at = "tunnel"
    BY <1>5 DEF ProxiedThroughTunnel
  <2>7. CallerJustified(c)'
    BY <2>2, <2>4, <2>5, <2>6 DEF AccessInv, CallerJustified
  <2>8. QED  BY <2>2, <2>3, <2>6, <2>7, OneCallerMoves
<1>6. QED
  BY <1>1, <1>2, <1>3, <1>4, <1>5 DEF Caller, Arrives, ProxiedEnds, ConnectFails, TunnelEnds

LEMMA AccessKeeps == AccessInv /\ [AccessNext]_avars => AccessInv'
<1> SUFFICES ASSUME AccessInv, [AccessNext]_avars PROVE AccessInv'
  OBVIOUS
<1>1. CASE Signal \/ UNCHANGED avars
  <2>1. UNCHANGED <<cfg, phase, bound, legs, callers>> /\ Mode' = Mode
    BY <1>1, ModeKept DEF Signal, avars
  <2>2. AccessTypeOK' /\ LegsStartLate' /\ SocketsJudged'
    BY <2>1 DEF AccessInv, AccessTypeOK, LegsStartLate, SocketsJudged
  <2>3. QED  BY <2>1, <2>2, CallersUntouched DEF AccessInv
<1>2. QED  BY <1>1, StartupKeeps, LegKeeps, ExitKeeps, CallerKeeps DEF AccessNext
-----------------------------------------------------------------------------
(* The tunnel semaphore.                                                   *)

\* A finite set that gains or loses one element.
LEMMA CountedByOne ==
    ASSUME NEW H, IsFiniteSet(H), NEW c
    PROVE  /\ Cardinality(H) \in Nat
           /\ c \notin H => Cardinality(H \cup {c}) = Cardinality(H) + 1
           /\ c \in H => Cardinality(H \ {c}) = Cardinality(H) - 1
BY FS_AddElement, FS_RemoveElement, FS_CardinalityType

\* A step of one caller changes the callers in a tunnel by that caller at most.
LEMMA InTunnelMoves ==
    ASSUME AccessTypeOK, NEW c \in Callers, NEW q, callers' = [callers EXCEPT ![c] = q]
    PROVE  /\ q.at \in {"dialling", "tunnel", "inside"} => InTunnel' = InTunnel \cup {c}
           /\ q.at \notin {"dialling", "tunnel", "inside"} => InTunnel' = InTunnel \ {c}
           /\ c \in InTunnel <=> callers[c].at \in {"dialling", "tunnel", "inside"}
<1>1. callers'[c] = q /\ \A d \in Callers : d # c => callers'[d] = callers[d]
  BY DEF AccessTypeOK
<1>2. QED  BY <1>1 DEF InTunnel

\* Every way into the slot and every way out of it, one handler at a time.
LEMMA SlotsKept ==
    ASSUME AccessInv, TunnelSlotsCounted, AccessNext
    PROVE  TunnelSlotsCounted'
<1>1. tunnels = Cardinality(InTunnel) /\ (TunnelSlotsCounted' <=> tunnels' = Cardinality(InTunnel'))
  BY DEF TunnelSlotsCounted, InTunnel
<1>2. IsFiniteSet(InTunnel)
  BY AccessAssumption, FS_Subset DEF InTunnel
<1> SUFFICES tunnels' = Cardinality(InTunnel')
  BY <1>1
<1>3. CASE UNCHANGED <<tunnels, callers>>
  BY <1>1, <1>3 DEF InTunnel
<1>4. ASSUME NEW l \in Legs, BudgetExpires(l)
      PROVE  tunnels' = Cardinality(InTunnel')
  <2>1. InTunnel' = InTunnel
    BY <1>4 DEF BudgetExpires, InTunnel, Away
  <2>2. QED  BY <1>1, <1>4, <2>1 DEF BudgetExpires
<1>5. CASE Exit
  <2>1. InTunnel' = {} /\ tunnels' = 0
    BY <1>5 DEF Exit, InTunnel, Away
  <2>2. QED  BY <2>1, FS_EmptySet
<1>6. ASSUME NEW c \in Callers, Caller(c)
      PROVE  tunnels' = Cardinality(InTunnel')
  <2>0. Away.at = "away"
    BY DEF Away
  <2>1. ASSUME NEW from, NEW holds, NEW l, Proxied(c, from, holds, l)
        PROVE  tunnels' = Cardinality(InTunnel')
    <3> DEFINE q == [at |-> "proxied", from |-> from, holds |-> holds,
                     leg |-> l, reached |-> "none", port |-> "none"]
    <3>1. callers' = [callers EXCEPT ![c] = q] /\ callers[c].at = "away" /\ UNCHANGED tunnels
      BY <2>1 DEF Proxied, Away
    <3>2. q.at = "proxied"
      OBVIOUS
    <3> HIDE DEF q
    <3>3. InTunnel' = InTunnel
      BY <3>1, <3>2, InTunnelMoves DEF AccessInv
    <3>4. QED  BY <1>1, <3>1, <3>3
  <2>2. ASSUME NEW from, NEW holds, NEW l, ConnectAdmitted(c, from, holds, l)
        PROVE  tunnels' = Cardinality(InTunnel')
    <3> DEFINE q == [at |-> "dialling", from |-> from, holds |-> holds,
                     leg |-> l, reached |-> "none", port |-> "none"]
    <3>1. /\ callers' = [callers EXCEPT ![c] = q] /\ callers[c].at = "away"
          /\ tunnels' = tunnels + 1
      BY <2>2 DEF ConnectAdmitted, Away
    <3>2. q.at = "dialling"
      OBVIOUS
    <3> HIDE DEF q
    <3>3. InTunnel' = InTunnel \cup {c} /\ c \notin InTunnel
      BY <3>1, <3>2, InTunnelMoves DEF AccessInv
    <3>4. QED  BY <1>1, <1>2, <3>1, <3>3, CountedByOne
  <2>3. CASE ProxiedEnds(c)
    <3>1. /\ callers' = [callers EXCEPT ![c] = Away] /\ callers[c].at = "proxied"
          /\ UNCHANGED tunnels
      BY <2>3 DEF ProxiedEnds, Leave
    <3>2. InTunnel' = InTunnel
      BY <3>1, <2>0, InTunnelMoves DEF AccessInv
    <3>3. QED  BY <1>1, <3>1, <3>2
  <2>4. CASE /\ Leave(c) /\ tunnels' = tunnels - 1
             /\ callers[c].at \in {"dialling", "tunnel", "inside"}
    <3>1. InTunnel' = InTunnel \ {c} /\ c \in InTunnel
      BY <2>4, <2>0, InTunnelMoves DEF AccessInv, Leave
    <3>2. QED  BY <1>1, <1>2, <2>4, <3>1, CountedByOne
  <2>5. ASSUME NEW q, callers' = [callers EXCEPT ![c] = q], UNCHANGED tunnels,
               callers[c].at \in {"dialling", "tunnel", "inside"},
               q.at \in {"dialling", "tunnel", "inside"}
        PROVE  tunnels' = Cardinality(InTunnel')
    <3>1. InTunnel' = InTunnel
      BY <2>5, InTunnelMoves DEF AccessInv
    <3>2. QED  BY <1>1, <2>5, <3>1
  <2>6. CASE Dialled(c)
    <3>1. PICK t \in cfg.allowed : \E remote \in DialReaches(t.host) :
              IF ConnectDialRefusal(ServingScope(callers[c].leg), SourceOf(remote), remote)
              THEN Leave(c) /\ tunnels' = tunnels - 1
              ELSE /\ callers' = [callers EXCEPT ![c].at = "tunnel", ![c].reached = remote,
                                                 ![c].port = t.port]
                   /\ UNCHANGED tunnels
      BY <2>6 DEF Dialled
    <3>2. PICK remote \in DialReaches(t.host) :
              \/ Leave(c) /\ tunnels' = tunnels - 1
              \/ /\ callers' = [callers EXCEPT ![c].at = "tunnel", ![c].reached = remote,
                                               ![c].port = t.port]
                 /\ UNCHANGED tunnels
      BY <3>1
    <3>3. callers[c].at = "dialling" /\ callers[c] \in CallerStates
      BY <2>6 DEF Dialled, AccessInv, AccessTypeOK
    <3> DEFINE q == [callers[c] EXCEPT !.at = "tunnel", !.reached = remote, !.port = t.port]
    <3>4. q.at = "tunnel"
      BY <3>3 DEF CallerStates
    <3> HIDE DEF q
    <3>5. CASE callers' = [callers EXCEPT ![c].at = "tunnel", ![c].reached = remote,
                                          ![c].port = t.port] /\ UNCHANGED tunnels
      <4>1. callers' = [callers EXCEPT ![c] = q]
        BY <3>5, Zenon DEF q
      <4>2. QED  BY <2>5, <3>3, <3>4, <3>5, <4>1
    <3>6. QED  BY <2>4, <3>2, <3>3, <3>5
  <2>7. CASE ProxiedThroughTunnel(c)
    <3> DEFINE q == [callers[c] EXCEPT !.at = "inside"]
    <3>1. q.at = "inside"
      BY DEF AccessInv, AccessTypeOK, CallerStates
    <3> HIDE DEF q
    <3>2. callers' = [callers EXCEPT ![c] = q]
      BY <2>7, Zenon DEF ProxiedThroughTunnel, q
    <3>3. callers[c].at = "tunnel" /\ UNCHANGED tunnels
      BY <2>7 DEF ProxiedThroughTunnel
    <3>4. QED  BY <2>5, <3>1, <3>2, <3>3
  <2>8. QED
    BY <1>6, <2>1, <2>2, <2>3, <2>4, <2>6, <2>7 DEF Caller, Arrives, ConnectFails, TunnelEnds
<1>7. QED
  BY <1>3, <1>4, <1>5, <1>6
     DEF AccessNext, Startup, LoadConfig, NewServer, ListenAES, StartLegs, ServePlain,
         ServeWrapped, Signal, Leg, ServeFails, BeginShutdown, Drained, Join, starting

-----------------------------------------------------------------------------
(* The allowlist, in any notation inet_aton reads.                         *)

\* The weights of the four bytes.
LEMMA WeightIs ==
    /\ Weight[1] = Base * Base * Base /\ Weight[2] = Base * Base
    /\ Weight[3] = Base /\ Weight[4] = 1
BY DEF Weight

\* A digit in front of a number below w gives a number below Base * w.
LEMMA Below ==
    ASSUME NEW w \in Nat, NEW d \in 0 .. Base - 1, NEW x \in Nat, x < w
    PROVE  d * w + x \in Nat /\ d * w + x < Base * w
<1>1. Base \in Nat /\ d \in Nat /\ d + 1 <= Base
  BY BaseAssumption
<1>2. d * w + x < d * w + w
  BY <1>1
<1>3. d * w + w = (d + 1) * w
  BY <1>1
<1>4. (d + 1) * w <= Base * w
  BY <1>1
<1>5. d * w \in Nat /\ Base * w \in Nat
  BY <1>1
<1>6. QED  BY <1>2, <1>3, <1>4, <1>5

\* The numbers the last one, two, three and four bytes of an address spell.
LEMMA ByteNumbers ==
    ASSUME NEW b \in Bytes
    PROVE  /\ Number(b, 4) \in Nat /\ Number(b, 4) < Base * Weight[4]
           /\ Number(b, 3) = b[3] * Weight[3] + Number(b, 4)
           /\ Number(b, 3) \in Nat /\ Number(b, 3) < Base * Weight[3]
           /\ Number(b, 2) = b[2] * Weight[2] + Number(b, 3)
           /\ Number(b, 2) \in Nat /\ Number(b, 2) < Base * Weight[2]
           /\ Number(b, 1) = b[1] * Weight[1] + Number(b, 2)
           /\ Number(b, 1) \in Nat /\ Number(b, 1) < Base * Weight[1]
<1> DEFINE c1 == b[1] * Weight[1]  c2 == b[2] * Weight[2]  c3 == b[3] * Weight[3]
<1>0. Base \in Nat /\ Base * Base \in Nat /\ Base * Base * Base \in Nat
  BY BaseAssumption
<1>1. b[1] \in 0 .. Base - 1 /\ b[2] \in 0 .. Base - 1 /\ b[3] \in 0 .. Base - 1 /\ b[4] \in 0 .. Base - 1
  BY DEF Bytes
<1>2. c1 \in Int /\ c2 \in Int /\ c3 \in Int /\ b[4] * Weight[4] = b[4] /\ b[4] \in Nat
  BY <1>0, <1>1, WeightIs
<1> HIDE DEF c1, c2, c3
<1>3. /\ Number(b, 4) = b[4] /\ Number(b, 3) = c3 + b[4]
      /\ Number(b, 2) = c2 + c3 + b[4] /\ Number(b, 1) = c1 + c2 + c3 + b[4]
  <2>1. /\ Number(b, 4) = 0 + 0 + 0 + b[4] * Weight[4]
        /\ Number(b, 3) = 0 + 0 + c3 + b[4] * Weight[4]
        /\ Number(b, 2) = 0 + c2 + c3 + b[4] * Weight[4]
        /\ Number(b, 1) = c1 + c2 + c3 + b[4] * Weight[4]
    BY DEF Number, c1, c2, c3
  <2>2. QED  BY <1>2, <2>1
<1>4. /\ Number(b, 3) = c3 + Number(b, 4) /\ Number(b, 2) = c2 + Number(b, 3)
      /\ Number(b, 1) = c1 + Number(b, 2)
  BY <1>2, <1>3
<1>W. Weight[1] \in Nat
  BY <1>0, WeightIs
<1>5. Number(b, 4) \in Nat /\ Number(b, 4) < Base * Weight[4] /\ Base * Weight[4] = Weight[3]
  BY <1>0, <1>1, <1>3, WeightIs
<1>6. /\ Number(b, 3) \in Nat /\ Number(b, 3) < Base * Weight[3] /\ Base * Weight[3] = Weight[2]
  BY <1>0, <1>1, <1>4, <1>5, Below, WeightIs DEF c3
<1>7. /\ Number(b, 2) \in Nat /\ Number(b, 2) < Base * Weight[2] /\ Base * Weight[2] = Weight[1]
  BY <1>0, <1>1, <1>4, <1>6, Below, WeightIs DEF c2
<1>8. /\ Number(b, 1) \in Nat /\ Number(b, 1) < Base * Weight[1]
  BY <1>1, <1>4, <1>7, <1>W, Below DEF c1
<1>9. QED  BY <1>4, <1>5, <1>6, <1>7, <1>8 DEF c1, c2, c3

\* Division by the weight of the first byte gives the first byte.
LEMMA TopDigit ==
    ASSUME NEW w \in Nat \ {0}, NEW d \in Nat, NEW x \in Nat, x < w
    PROVE  (d * w + x) \div w = d
<1> DEFINE a == d * w + x
           q == a \div w
<1>1. a \in Nat /\ w * d <= a /\ a < w * d + w
  OBVIOUS
<1> HIDE DEF a
<1>2. q \in Int /\ w * q <= a /\ a < w * q + w
  BY <1>1
<1> HIDE DEF q
<1>3. ASSUME q >= d + 1 PROVE FALSE
  <2>1. w * q >= w * (d + 1)
    BY <1>2, <1>3
  <2>2. QED  BY <1>1, <1>2, <2>1
<1>4. ASSUME q <= d - 1 PROVE FALSE
  <2>1. w * q <= w * (d - 1)
    BY <1>2, <1>4
  <2>2. QED  BY <1>1, <1>2, <2>1
<1>5. q = d
  BY <1>2, <1>3, <1>4
<1>6. QED  BY <1>5 DEF a, q

\* parseIPv4Numeric takes a spelling for the address whose bytes it spells.
LEMMA ParsedAsSpelt ==
    ASSUME NEW parts \in Seq(Nat), NEW b \in Bytes, Spells(b, parts)
    PROVE  ParseIPv4Numeric(parts) = Number(b, 1)
<1> DEFINE n == Len(parts)
           c1 == b[1] * Weight[1]
           c2 == b[2] * Weight[2]
           c3 == b[3] * Weight[3]
           Shifted(i) == IF i < n THEN parts[i] * Weight[i] ELSE 0
<1>1. n \in 1..4 /\ (\A i \in 1 .. n - 1 : b[i] = parts[i]) /\ Number(b, n) = parts[n]
  BY DEF Spells
<1>2. \A i \in 1..4 : b[i] \in 0 .. Base - 1
  BY DEF Bytes
<1>3. ~ \E i \in 1 .. n - 1 : parts[i] >= Base
  <2> SUFFICES ASSUME NEW i \in 1 .. n - 1 PROVE ~(parts[i] >= Base)
    OBVIOUS
  <2>1. i \in 1..4
    BY <1>1
  <2>2. parts[i] \in 0 .. Base - 1
    BY <1>1, <1>2, <2>1
  <2>3. QED  BY <2>2, BaseAssumption
<1>4. LastPartFits(n, Number(b, n))
  <2>1. n = 1 \/ n = 2 \/ n = 3 \/ n = 4
    BY <1>1
  <2>2. QED  BY <2>1, ByteNumbers DEF LastPartFits
<1>5. ParseIPv4Numeric(parts) = Shifted(1) + Shifted(2) + Shifted(3) + parts[n]
  BY <1>1, <1>3, <1>4 DEF ParseIPv4Numeric
<1>6. c1 \in Int /\ c2 \in Int /\ c3 \in Int
  BY BaseAssumption, WeightIs DEF Bytes
<1>7. /\ Number(b, 1) = c1 + Number(b, 2) /\ Number(b, 2) = c2 + Number(b, 3)
      /\ Number(b, 3) = c3 + Number(b, 4)
      /\ Number(b, 1) \in Nat /\ Number(b, 2) \in Nat /\ Number(b, 3) \in Nat /\ Number(b, 4) \in Nat
  BY ByteNumbers
<1>8. /\ Shifted(1) = IF n = 1 THEN 0 ELSE c1
      /\ Shifted(2) = IF n \in {1, 2} THEN 0 ELSE c2
      /\ Shifted(3) = IF n = 4 THEN c3 ELSE 0
  <2>1. ASSUME NEW m \in 1..4
        PROVE  /\ m # 1 => 1 \in 1 .. m - 1
               /\ m \notin {1, 2} => 2 \in 1 .. m - 1
               /\ m = 4 => 3 \in 1 .. m - 1
               /\ 1 < m <=> m # 1
               /\ 2 < m <=> m \notin {1, 2}
               /\ 3 < m <=> m = 4
    OBVIOUS
  <2>2. QED  BY <1>1, <2>1, Zenon
<1> HIDE DEF c1, c2, c3, Shifted, n
<1>9. CASE n = 1
  BY <1>1, <1>5, <1>7, <1>8, <1>9
<1>10. CASE n = 2
  BY <1>1, <1>5, <1>6, <1>7, <1>8, <1>10
<1>11. CASE n = 3
  BY <1>1, <1>5, <1>6, <1>7, <1>8, <1>11, SMTT(40)
<1>12. CASE n = 4
  BY <1>1, <1>5, <1>6, <1>7, <1>8, <1>12, SMTT(40)
<1>13. QED  BY <1>1, <1>9, <1>10, <1>11, <1>12

\* A spelling that inet_aton reads as this machine is read so by hostIP.
LEMMA AtonIsCovered ==
    ASSUME NEW parts \in Seq(Nat), AtonReading(parts) \in {"loopback", "unspecified"}
    PROVE  NumericClass(ParseIPv4Numeric(parts)) = AtonReading(parts)
<1> DEFINE b == CHOOSE c \in Bytes : Spells(c, parts)
<1>1. \E c \in Bytes : Spells(c, parts)
  BY DEF AtonReading
<1>2. b \in Bytes /\ Spells(b, parts)
  BY <1>1
<1>3. AtonReading(parts) = IF b[1] = Base - 1 THEN "loopback"
                           ELSE IF \A i \in 1..4 : b[i] = 0 THEN "unspecified" ELSE "peer"
  BY <1>1 DEF AtonReading
<1> HIDE DEF b
<1>4. ParseIPv4Numeric(parts) = Number(b, 1) /\ Number(b, 1) = b[1] * Weight[1] + Number(b, 2)
  BY <1>2, ParsedAsSpelt, ByteNumbers
<1>5. Number(b, 1) \in Nat /\ Number(b, 2) \in Nat /\ Number(b, 2) < Weight[1]
      /\ Weight[1] \in Nat \ {0} /\ b[1] \in Nat
  <2>1. Base * Weight[2] = Weight[1]
    BY WeightIs, BaseAssumption
  <2>2. Weight[1] \in Nat \ {0} /\ b[1] \in Nat
    <3>1. Base * Base \in Nat \ {0}
      BY BaseAssumption
    <3>2. Base * Base * Base \in Nat \ {0}
      BY <3>1, BaseAssumption
    <3>3. QED  BY <1>2, <3>2, WeightIs, BaseAssumption DEF Bytes
  <2>3. QED  BY <1>2, <2>1, <2>2, ByteNumbers
<1>6. Number(b, 1) \div Weight[1] = b[1]
  BY <1>4, <1>5, TopDigit
<1>7. CASE b[1] = Base - 1
  BY <1>3, <1>4, <1>5, <1>6, <1>7 DEF NumericClass
<1>8. CASE b[1] # Base - 1 /\ \A i \in 1..4 : b[i] = 0
  <2>1. Number(b, 1) = 0
    <3>1. \A i \in 1..4 : b[i] * Weight[i] = 0
      BY <1>8, WeightIs, BaseAssumption
    <3>2. QED  BY <3>1 DEF Number
  <2>2. Number(b, 1) # -1 /\ Number(b, 1) \div Weight[1] # Base - 1
    BY <1>5, <1>6, <1>8
  <2>3. NumericClass(Number(b, 1)) = "unspecified"
    BY <2>1, <2>2 DEF NumericClass
  <2>4. QED  BY <1>3, <1>4, <1>8, <2>3
<1>9. QED  BY <1>3, <1>7, <1>8

\* The socket the plain leg serves on was judged with the whole allowlist.
AllowlistJudged == legs["plain"] = "serving" => ~BindRefusal("plain", bound["plain"])

LEMMA AllowlistKept ==
    ASSUME AccessInv, AllowlistJudged, AccessNext
    PROVE  AllowlistJudged'
<1> USE DEF Legs
<1>1. UNCHANGED cfg
  BY ZenonT(40)
     DEF AccessNext, Startup, LoadConfig, NewServer, ListenAES, StartLegs, ServePlain,
         ServeWrapped, Signal, Exit, Leg, ServeFails, BeginShutdown, Drained, BudgetExpires,
         Join, starting, Caller, Arrives, Proxied, ConnectAdmitted, ProxiedEnds, ConnectFails,
         Dialled, ProxiedThroughTunnel, TunnelEnds
<1>2. \A a : BindRefusal("plain", a)' <=> BindRefusal("plain", a)
  BY <1>1 DEF BindRefusal, Mode, ConnectEnabled
<1>3. CASE ServePlain
  <2>1. PICK a \in BindOpens(cfg.listen) :
            IF a = "fails" \/ BindRefusal("plain", a)
            THEN legs' = [legs EXCEPT !["plain"] = "failed"]
            ELSE bound' = [bound EXCEPT !["plain"] = a]
    BY <1>3 DEF ServePlain
  <2>2. legs'["plain"] = "serving" => bound'["plain"] = a /\ ~BindRefusal("plain", a)
    BY <2>1 DEF AccessInv, AccessTypeOK
  <2>3. QED  BY <1>2, <2>2 DEF AllowlistJudged, BindRefusal
<1>4. CASE legs'["plain"] = "serving" => legs["plain"] = "serving" /\ bound'["plain"] = bound["plain"]
  BY <1>1, <1>4 DEF AllowlistJudged, BindRefusal, Mode, ConnectEnabled
<1>5. \/ ServePlain
      \/ legs'["plain"] = "serving" => legs["plain"] = "serving" /\ bound'["plain"] = bound["plain"]
  <2>1. CASE ListenAES \/ StartLegs \/ ServeWrapped
    BY <2>1 DEF ListenAES, StartLegs, ServeWrapped, starting, AccessInv, AccessTypeOK, LegsStartLate
  <2>2. ASSUME NEW l \in Legs, Leg(l)
        PROVE  legs'["plain"] = "serving" => legs["plain"] = "serving" /\ bound'["plain"] = bound["plain"]
    BY <2>2 DEF Leg, ServeFails, BeginShutdown, Drained, BudgetExpires, Join, starting,
                AccessInv, AccessTypeOK
  <2>3. CASE UNCHANGED <<legs, bound>>
    BY <2>3
  <2>4. QED
    BY <2>1, <2>2, <2>3, ZenonT(40)
       DEF AccessNext, Startup, LoadConfig, NewServer, Signal, Exit, starting, Caller, Arrives,
           Proxied, ConnectAdmitted, ProxiedEnds, ConnectFails, Dialled, ProxiedThroughTunnel, TunnelEnds
<1>6. QED  BY <1>3, <1>4, <1>5

-----------------------------------------------------------------------------
(* The pool of credentials.                                                *)

\* The credentials of a route's sources, in slot order.
SlotValues(r) == [i \in 1 .. Len(KeySlots(r)) |-> KeySlots(r)[i].value]

\* What runGateway knows of the route: it was validated before the server was
\* built, and a server of a route with a pool resolved all of it.
PoolInv ==
    /\ phase \in {"server", "aes", "start", "running"} => ValidateRoute(cfg.route)
    /\ phase \in {"aes", "start", "running"} /\ HasPluralKeys(cfg.route) =>
           pool = ResolveKeyPool(cfg.route) /\ pool # <<>>

\* A pool that was resolved is the slots' credentials, one for every key that
\* was declared, usable and pairwise different.
LEMMA ResolvedPool ==
    ASSUME NEW r, {r.keyEnvs, r.keyFiles, r.keyRefs} \subseteq Seq(KeySource),
           ResolveKeyPool(r) # <<>>
    PROVE  LET p == ResolveKeyPool(r) IN
           /\ Len(p) = DeclaredKeyCount(r)
           /\ \A i \in DOMAIN p : p[i] \notin Unusable /\ p[i] = KeySlots(r)[i].value
           /\ \A i, j \in DOMAIN p : i # j => p[i] # p[j]
<1> DEFINE p == SlotValues(r)
<1>1. ResolveKeyPool(r) = p
  BY DEF ResolveKeyPool, SlotValues
<1>2. /\ \A i \in DOMAIN p : p[i] \notin Unusable
      /\ \A i, j \in DOMAIN p : i # j => p[i] # p[j]
  BY DEF ResolveKeyPool, SlotValues
<1>3. KeySlots(r) \in Seq(KeySource) /\ Len(KeySlots(r)) = DeclaredKeyCount(r)
  BY DEF KeySlots, DeclaredKeyCount
<1>4. DOMAIN p = 1 .. Len(KeySlots(r)) /\ \A i \in DOMAIN p : p[i] = KeySlots(r)[i].value
  BY DEF SlotValues
<1>5. Len(p) = Len(KeySlots(r))
  <2>1. Len(KeySlots(r)) \in Nat
    BY <1>3
  <2>2. QED  BY <2>1 DEF SlotValues
<1>6. QED  BY <1>1, <1>2, <1>3, <1>4, <1>5

LEMMA PoolKept ==
    ASSUME PoolInv, AccessNext
    PROVE  PoolInv'
<1>1. CASE LoadConfig
  BY <1>1 DEF LoadConfig, starting, PoolInv, Validate
<1>2. CASE NewServer
  <2>1. CASE phase' = "refused"
    BY <2>1 DEF PoolInv
  <2>2. CASE CredentialsUsable(cfg.route)
    <3>1. phase = "server" /\ ValidateRoute(cfg.route) /\ UNCHANGED cfg
      BY <1>2 DEF NewServer, PoolInv
    <3>2. ASSUME HasPluralKeys(cfg.route) PROVE ResolveKeyPool(cfg.route) # <<>>
      <4>1. cfg.route.auth # "passthrough"
        BY <3>1, <3>2 DEF ValidateRoute, ValidateAuthMode
      <4>2. QED  BY <2>2, <3>2, <4>1 DEF CredentialsUsable
    <3>3. pool' = ResolveKeyPool(cfg.route) \/ phase' = "refused"
      BY <1>2 DEF NewServer
    <3>4. QED  BY <2>1, <3>1, <3>2, <3>3 DEF PoolInv
  <2>3. QED  BY <1>2, <2>1, <2>2 DEF NewServer
<1>3. CASE ListenAES
  BY <1>3 DEF ListenAES, PoolInv
<1>4. CASE StartLegs
  BY <1>4 DEF StartLegs, starting, PoolInv
<1>5. CASE UNCHANGED <<cfg, phase, pool>> \/ Exit
  BY <1>5 DEF Exit, PoolInv
<1>6. QED
  BY <1>1, <1>2, <1>3, <1>4, <1>5, ZenonT(40)
     DEF AccessNext, Startup, ServePlain, ServeWrapped, Signal, Leg, ServeFails, BeginShutdown,
         Drained, BudgetExpires, Join, starting, Caller, Arrives, Proxied, ConnectAdmitted,
         ProxiedEnds, ConnectFails, Dialled, ProxiedThroughTunnel, TunnelEnds

-----------------------------------------------------------------------------
(* The client's part: the connection it opens, and the bridge.             *)

\* A connection is open only between the dial and the end of its user; the
\* bridge dials only once it serves, on a socket nobody else can reach.
ClientInv ==
    /\ pc \in {"absent", "dial", "done"} => conn # "open"
    /\ bridge.at \in {"check", "bound"} => pc = "absent"
    /\ bridge \in [at: {"none", "check", "bound", "refused", "serving"},
                   host: BridgeHosts \cup {EmptyHost}, addr: Addresses \cup {"none"}]
    /\ BridgeStaysLocal

\* The connection, one step of the handshake, of its user or of the far end at
\* a time.
LEMMA ConnectionKept ==
    ASSUME pc \in {"absent", "dial", "done"} => conn # "open", TransportNext
    PROVE  /\ pc' \in {"absent", "dial", "done"} => conn' # "open"
           /\ pc = "absent" => pc' = "absent"
<1>1. CASE Far
  BY <1>1 DEF Far, FarAnswers, FarSends, FarCloses, AgentLeaves, dvars
<1>2. CASE Dial \/ Handshake \/ SendRequest
  BY <1>2 DEF Dial, Handshake, SendRequest, Goto
<1>3. CASE ReadReply \/ ReplyRead \/ ReplyFails \/ Hijack
  BY <1>3 DEF ReadReply, ReplyRead, ReplyFails, Hijack, Goto
<1>4. CASE (\E n \in BufferSizes : ReadPlain(n)) \/ ReadPlainEOF \/ ReadPlainStops
  BY <1>4 DEF ReadPlain, ReadPlainEOF, ReadPlainStops, ReadingOver, dvars
<1>5. CASE UpEOF \/ UpFails \/ RelayEnds \/ WrapEnds
  BY <1>5 DEF UpEOF, UpFails, RelayEnds, WrapEnds, OnAESLeg
<1>6. CASE WrapStep
  BY <1>6 DEF WrapStep, OnLeg, dvars
<1>7. QED  BY <1>1, <1>2, <1>3, <1>4, <1>5, <1>6 DEF TransportNext, User

LEMMA ClientKept == ClientInv /\ [Next]_vars => ClientInv'
<1> SUFFICES ASSUME ClientInv, [Next]_vars PROVE ClientInv'
  OBVIOUS
<1>1. CASE TransportNext /\ UNCHANGED <<avars, command, bridge>>
  BY <1>1, ConnectionKept DEF ClientInv, BridgeStaysLocal
<1>2. CASE AccessNext /\ UNCHANGED <<tvars, command, bridge>>
  BY <1>2 DEF ClientInv, BridgeStaysLocal, tvars, dvars
<1>3. CASE BridgeListens
  <2>1. PICK a \in BindOpens(bridge.host) :
            bridge' = IF a = "fails" \/ ~RequireLoopbackAddr(bridge.host)
                      THEN [NoBridge EXCEPT !.at = "refused"]
                      ELSE [NoBridge EXCEPT !.at = "bound", !.addr = a]
    BY <1>3 DEF BridgeListens
  <2>2. WellFormed(bridge.host)
    BY BridgeAssumption DEF ClientInv, EmptyHost, WellFormed
  <2>3. a \in Addresses \cup {"fails"}
    BY <2>2, HostsLead
  <2>4. pc = "absent" /\ pc' = pc /\ conn' = conn
    BY <1>3 DEF BridgeListens, ClientInv, tvars, dvars
  <2>5. QED  BY <2>1, <2>3, <2>4 DEF ClientInv, NoBridge, BridgeStaysLocal
<1>4. CASE BridgeServes
  BY <1>4 DEF BridgeServes, ClientInv, BridgeStaysLocal, RequireLoopbackAddr, IsLoopbackListen,
              Literal, BoundListenScope
<1>5. CASE UNCHANGED vars
  BY <1>5 DEF vars, tvars, dvars, ClientInv, BridgeStaysLocal
<1>6. QED  BY <1>1, <1>2, <1>3, <1>4, <1>5 DEF Next

-----------------------------------------------------------------------------
ProgramInv == AccessInv /\ AllowlistJudged /\ TunnelSlotsCounted /\ PoolInv /\ ClientInv

LEMMA ProgramInit == Init => ProgramInv
<1> SUFFICES ASSUME Init PROVE ProgramInv
  OBVIOUS
<1>1. cfg \in Configs /\ phase \in {"load", "absent"} /\ AccessIdle
  BY ConfigAssumption
     DEF Init, RunGateway, RunProxy, UseLibrary, RunAESBridge, NoGateway, AccessInit
<1>2. AccessInv /\ TunnelSlotsCounted
  BY <1>1, AccessIdleInv
<1>3. pc \in {"absent", "dial"} /\ conn = "none"
  BY DEF Init, RunGateway, RunProxy, UseLibrary, RunAESBridge, TransportInit
<1>4. \/ bridge = NoBridge
      \/ pc = "absent" /\ \E h \in BridgeHosts : bridge = [at |-> "check", host |-> h, addr |-> "none"]
  BY DEF Init, RunGateway, RunProxy, UseLibrary, RunAESBridge, TransportInit
<1>5. ClientInv
  BY <1>3, <1>4 DEF ClientInv, NoBridge, BridgeStaysLocal
<1>6. PoolInv /\ AllowlistJudged
  BY <1>1 DEF PoolInv, AllowlistJudged, AccessIdle, Legs
<1>7. QED  BY <1>2, <1>5, <1>6 DEF ProgramInv

\* The inductive invariant of the program, whichever command it runs.
THEOREM ProgramInvariant == Spec => []ProgramInv
<1>1. ProgramInv /\ [Next]_vars => ProgramInv'
  <2> SUFFICES ASSUME ProgramInv, [Next]_vars PROVE ProgramInv'
    OBVIOUS
  <2>1. ClientInv'
    BY ClientKept DEF ProgramInv
  <2>2. CASE UNCHANGED avars
    <3>1. AccessInv'
      BY <2>2, AccessKeeps DEF ProgramInv
    <3>2. TunnelSlotsCounted' /\ PoolInv' /\ AllowlistJudged'
      BY <2>2 DEF avars, ProgramInv, TunnelSlotsCounted, PoolInv, AllowlistJudged, BindRefusal,
                  Mode, ConnectEnabled
    <3>3. QED  BY <2>1, <3>1, <3>2 DEF ProgramInv
  <2>3. CASE AccessNext
    BY <2>1, <2>3, AccessKeeps, SlotsKept, PoolKept, AllowlistKept DEF ProgramInv
  <2>4. QED  BY <2>2, <2>3 DEF Next, BridgeListens, BridgeServes, vars
<1>2. QED  BY ProgramInit, <1>1, PTL DEF Spec

\* Serve, ServeWrapped, handleConnect, AESBridge.Serve: no caller from another
\* host is served, or gets a tunnel into this machine, without the right to,
\* and the bridge serves on loopback only.
THEOREM RemoteStaysOut == Spec => []RemoteKeptOut
<1>1. ProgramInv => RemoteKeptOut
  BY DEF ProgramInv, AccessInv, CallerJustified, ClientInv, RemoteKeptOut,
         RemoteServedOnlyWithToken, NoRemoteTunnelHome
<1>2. QED  BY ProgramInvariant, <1>1, PTL

\* dialGateway, dialSOCKS5, StreamSSE, handle and handleConnect: connections
\* are closed and tunnel slots given back on every way out.
THEOREM ResourcesComeBack == Spec => []ResourcesReturned
<1>1. ProgramInv => ResourcesReturned
  BY DEF ProgramInv, ClientInv, ResourcesReturned, ConnsReleased
<1>2. QED  BY ProgramInvariant, <1>1, PTL

\* resolveKeyPool and newRotationStore: a gateway that runs has one distinct,
\* usable credential for every key the rotation store counts, in its order.
THEOREM PoolAgreesWithStore == Spec => []PoolFitsStore
<1>1. ProgramInv => PoolFitsStore
  <2> SUFFICES ASSUME ProgramInv, phase \in {"start", "running"}, HasPluralKeys(cfg.route)
               PROVE  /\ Len(pool) = DeclaredKeyCount(cfg.route)
                      /\ \A i \in DOMAIN pool : /\ pool[i] \notin Unusable
                                                /\ pool[i] = KeySlots(cfg.route)[i].value
                      /\ \A i, j \in DOMAIN pool : i # j => pool[i] # pool[j]
    BY DEF PoolFitsStore
  <2>1. pool = ResolveKeyPool(cfg.route) /\ pool # <<>>
    BY DEF ProgramInv, PoolInv
  <2>2. {cfg.route.keyEnvs, cfg.route.keyFiles, cfg.route.keyRefs} \subseteq Seq(KeySource)
    BY ConfigAssumption DEF ProgramInv, AccessInv, AccessTypeOK
  <2>3. QED  BY <2>1, <2>2, ResolvedPool
<1>2. QED  BY ProgramInvariant, <1>1, PTL

\* connectSelfReference over hostIP: a gateway others can reach serves no
\* allowlist that spells this machine, in whatever notation.
THEOREM AllowlistStaysForeign == Spec => []AllowlistNamesNoLocal
<1>1. ProgramInv => AllowlistNamesNoLocal
  <2> SUFFICES ASSUME ProgramInv, legs["plain"] = "serving",
                      BoundListenScope(bound["plain"]) = "reachable", NEW t \in cfg.allowed
               PROVE  /\ ~(t.host.form = "literal" /\ t.host.addr \in {"loopback", "unspecified"})
                      /\ ~(/\ t.host.form = "numeric"
                           /\ AtonReading(t.host.parts) \in {"loopback", "unspecified"})
    BY DEF AllowlistNamesNoLocal
  <2>1. ~ConnectSelfReference(t, Literal(bound["plain"]), FALSE)
    BY DEF ProgramInv, AllowlistJudged, BindRefusal, ConnectEnabled
  <2>2. HostIP(t.host) \notin {"loopback", "unspecified"}
    BY <2>1 DEF ConnectSelfReference, LocalTarget
  <2>3. WellFormed(t.host)
    BY ConfigAssumption DEF ProgramInv, AccessInv, AccessTypeOK
  <2>4. QED  BY <2>2, <2>3, AtonIsCovered DEF HostIP, WellFormed
<1>2. QED  BY ProgramInvariant, <1>1, PTL

-----------------------------------------------------------------------------
(* The transports are streams. Byte number i is i, so a sequence of bytes  *)
(* without a gap or a repeat is a run of numbers, and what is to be shown  *)
(* is that everything between the writer and the user's buffer is one.     *)

\* The bytes after number a, up to number b.
Run(a, b) == [i \in 1 .. b - a |-> a + i]

Cell == [rec: Nat, pos: Nat, intact: BOOLEAN]

\* The place on the wire after a cell, and that a cell is one of a record.
Size(recs, r) == Prefix + Sealing + Len(recs[r])
After(recs, c) ==
    IF c.pos < Size(recs, c.rec) THEN <<c.rec, c.pos + 1>> ELSE <<c.rec + 1, 1>>
OfRecord(recs, c) == c.rec \in 1 .. Len(recs) /\ c.pos \in 1 .. Size(recs, c.rec)

\* WrapConn.Write: record r is the bytes after ends[r - 1] up to ends[r], and
\* what was reported as written is in records written whole.
Sent(ends) ==
    LET n == Len(records) IN
    /\ ends \in [0 .. n -> Nat] /\ ends[0] = 0
    /\ \A r \in 1 .. n : ends[r - 1] <= ends[r] /\ records[r] = Run(ends[r - 1], ends[r])
    /\ \A r \in 0 .. n : ends[r] <= Len(offered)
    /\ offered = Run(0, Len(offered))
    /\ Len(pending) <= Len(offered)
    /\ pending = Run(Len(offered) - Len(pending), Len(offered))
    /\ writer # "failed" => ends[n] = Len(offered) - Len(pending) /\ accepted <= ends[n]
    /\ writer = "failed" => n > 0 /\ accepted = ends[n - 1]
    /\ writer = "writing" => ~closed
    /\ writer = "idle" => pending = <<>>

\* The place of the first cell that is not read yet, the first cell of record
\* cur + 1 being the first of the record that is being gathered.
Expected(cur) ==
    IF frame = <<>> THEN <<cur + 1, Len(hdr) + 1>> ELSE After(records, frame[Len(frame)])

\* The place of the first cell that is not written yet.
Unwritten(cur) == IF wire = <<>> THEN Expected(cur) ELSE After(records, wire[Len(wire)])

\* WrapConn.Read: cur records are opened and their bytes delivered or kept;
\* the cells gathered and those on the wire follow each other from the first
\* cell of the next record on, damaged or not, to the last one written.
Gathered(cur) ==
    /\ hdr \in Seq(Cell) /\ Len(hdr) <= Prefix /\ frameLen \in Nat /\ frame \in Seq(Cell)
    /\ frameLen = 0 => frame = <<>>
    /\ frameLen > 0 => Len(hdr) = Prefix
    /\ hdr # <<>> => cur < Len(records)
    /\ frame # <<>> => /\ frame[1].rec = cur + 1 /\ frame[1].pos = Prefix + 1
                       /\ OfRecord(records, frame[Len(frame)])

OnTheWire(cur) ==
    /\ \A i \in 1 .. Len(wire) : OfRecord(records, wire[i])
    /\ wire # <<>> => <<wire[1].rec, wire[1].pos>> = Expected(cur)
    /\ \A i \in 1 .. Len(wire) - 1 : <<wire[i + 1].rec, wire[i + 1].pos>> = After(records, wire[i])
    /\ IF writer = "failed" THEN Unwritten(cur)[1] = Len(records)
       ELSE Unwritten(cur) = <<Len(records) + 1, 1>>

Received(ends, cur) ==
    /\ delivered = Run(0, Len(delivered)) /\ Len(delivered) <= ends[cur]
    /\ readBuf = Run(Len(delivered), ends[cur])
    /\ want > 0 => readBuf = <<>>
    /\ Gathered(cur) /\ OnTheWire(cur)

\* The encrypted leg.
SealedTypeOK ==
    /\ records \in Seq(Seq(Nat)) /\ wire \in Seq(Cell) /\ want \in Nat
    /\ offered \in Seq(Nat) /\ pending \in Seq(Nat) /\ accepted \in Nat
    /\ closed \in BOOLEAN /\ writer \in {"idle", "writing", "failed"}
    /\ status # "open" => want = 0

SealedWith(ends, cur) ==
    /\ cur \in 0 .. Len(records)
    /\ Sent(ends)
    /\ status = "open" => Received(ends, cur)

SealedInv == SealedTypeOK /\ \E ends, cur : SealedWith(ends, cur)

\* Cells of the current answer that are still on the wire.
Unread == IF pc = "reply" /\ answered = step THEN ReplyLen - got ELSE 0
Kept == Len(delivered) + Len(readBuf)

\* The other kinds: the bytes after the last answer are delivered, kept for
\* the first Read, or on the wire behind what is left of that answer.
PlainData ==
    /\ accepted = Len(offered) /\ offered = Run(0, Len(offered))
    /\ delivered = Run(0, Len(delivered)) /\ readBuf = Run(Len(delivered), Kept)
    /\ Kept <= Len(offered) /\ wire \in Seq(Cell)
    /\ Len(offered) \in Nat /\ Len(delivered) \in Nat /\ Len(readBuf) \in Nat

PlainWire ==
    /\ Len(wire) = Unread + Len(offered) - Kept
    /\ \A i \in 1 .. Len(wire) : wire[i].pos = IF i <= Unread THEN 0 ELSE Kept + i - Unread

\* An answer is asked for before it is given and read before the next one is
\* asked for.
PlainSteps ==
    /\ got \in 0 .. ReplyLen /\ step \in Nat /\ answered \in Nat
    /\ answered < Len(Replies(kind)) => Len(offered) = 0
    /\ pc \in {"absent", "dial", "tls", "request"} =>
          step <= Len(Replies(kind)) /\ answered = step - 1 /\ got = 0
    /\ pc = "reply" =>
          /\ step <= Len(Replies(kind)) /\ answered \in {step - 1, step}
          /\ answered = step - 1 => got = 0
          /\ got < ReplyLen => Kept = 0
    /\ pc \in {"hijack", "relay", "use"} => answered = Len(Replies(kind))
    /\ pc \in {"absent", "dial", "tls", "request", "reply", "hijack", "relay", "use", "done"}

PlainInv == PlainData /\ PlainSteps /\ (pc # "done" => PlainWire)

TransportInv ==
    /\ kind \in {"connect", "socks5", "sse", "aes"}
    /\ halves # {} => pc = "relay"
    /\ kind = "aes" => pc \in {"absent", "dial", "tls", "use", "done"} /\ SealedInv
    /\ kind # "aes" => PlainInv

\* A run is a sequence of numbers, one per byte.
LEMMA RunIs ==
    ASSUME NEW a \in Nat, NEW b \in Nat, a <= b
    PROVE  /\ Run(a, b) \in Seq(Nat) /\ Len(Run(a, b)) = b - a
           /\ \A i \in 1 .. b - a : Run(a, b)[i] = a + i
           /\ Run(a, b) = <<>> <=> a = b
<1>1. b - a \in Nat /\ Run(a, b) \in [1 .. b - a -> Nat]
  BY DEF Run
<1>2. Run(a, b) \in Seq(Nat) /\ Len(Run(a, b)) = b - a
  BY <1>1
<1> QED
  BY <1>2, EmptySeq DEF Run

\* A sequence of numbers that counts on from a is a run.
LEMMA CountsOn ==
    ASSUME NEW a \in Nat, NEW b \in Nat, a <= b, NEW s, s \in Seq(Nat), Len(s) = b - a,
           \A i \in 1 .. b - a : s[i] = a + i
    PROVE  s = Run(a, b)
<1> DEFINE t == Run(a, b)
<1>1. t \in Seq(Nat) /\ Len(t) = b - a /\ \A i \in 1 .. b - a : t[i] = a + i
  BY RunIs
<1> HIDE DEF t
<1>2. \A i \in 1 .. Len(s) : s[i] = t[i]
  BY <1>1
<1>3. s = t
  BY <1>1, <1>2, SeqEqual
<1> QED
  BY <1>3 DEF t

\* Runs that meet make one.
LEMMA RunsMeet ==
    ASSUME NEW a \in Nat, NEW b \in Nat, NEW c \in Nat, a <= b, b <= c
    PROVE  Run(a, b) \o Run(b, c) = Run(a, c)
<1> DEFINE s == Run(a, b)
           t == Run(b, c)
<1>1. /\ s \in Seq(Nat) /\ t \in Seq(Nat) /\ Len(s) = b - a /\ Len(t) = c - b
      /\ \A i \in 1 .. b - a : s[i] = a + i
      /\ \A i \in 1 .. c - b : t[i] = b + i
  BY RunIs
<1> HIDE DEF s, t
<1> DEFINE u == s \o t
<1>2. /\ u \in Seq(Nat) /\ Len(u) = Len(s) + Len(t)
      /\ \A i \in 1 .. Len(s) + Len(t) : u[i] = IF i <= Len(s) THEN s[i] ELSE t[i - Len(s)]
  BY <1>1, ConcatProperties, Zenon
<1> HIDE DEF u
<1>3. Len(u) = c - a /\ \A i \in 1 .. c - a : u[i] = a + i
  BY <1>1, <1>2
<1>4. u = Run(a, c)
  BY <1>2, <1>3, CountsOn
<1> QED
  BY <1>4 DEF s, t, u

\* The two parts of a run cut after k bytes are runs.
LEMMA RunCut ==
    ASSUME NEW a \in Nat, NEW b \in Nat, NEW k \in Nat, NEW c \in Nat, c = a + k, c <= b
    PROVE  SubSeq(Run(a, b), 1, k) = Run(a, c) /\ Rest(Run(a, b), k) = Run(c, b)
<1> DEFINE s == Run(a, b)
           t == SubSeq(s, 1, k)
           u == SubSeq(s, k + 1, b - a)
<1>1. /\ s \in Seq(Nat) /\ Len(s) = b - a /\ \A i \in 1 .. b - a : s[i] = a + i
  BY RunIs
<1> HIDE DEF s
<1>2. /\ \A i \in 1 .. k : s[i] \in Nat /\ s[i] = a + i
      /\ \A i \in k + 1 .. b - a : s[i] \in Nat
      /\ \A i \in 1 .. b - c : s[k + i] = c + i
  BY <1>1
<1>3. /\ t \in Seq(Nat) /\ Len(t) = (IF 1 <= k THEN k - 1 + 1 ELSE 0)
      /\ \A i \in 1 .. k - 1 + 1 : t[i] = s[1 + i - 1]
  BY <1>2, SubSeqProperties
<1>4. /\ u \in Seq(Nat) /\ Len(u) = (IF k + 1 <= b - a THEN b - a - (k + 1) + 1 ELSE 0)
      /\ \A i \in 1 .. b - a - (k + 1) + 1 : u[i] = s[k + 1 + i - 1]
  BY <1>2, SubSeqProperties
<1> HIDE DEF t, u
<1>5. Len(t) = c - a /\ \A i \in 1 .. c - a : t[i] = a + i
  BY <1>2, <1>3
<1>6. Len(u) = b - c /\ \A i \in 1 .. b - c : u[i] = c + i
  <2>1. Len(u) = b - c
    BY <1>4
  <2>2. ASSUME NEW i \in 1 .. b - c PROVE u[i] = c + i
    <3>1. i \in 1 .. b - a - (k + 1) + 1 /\ k + 1 + i - 1 = k + i
      OBVIOUS
    <3>2. u[i] = s[k + 1 + i - 1] /\ s[k + i] = c + i
      BY <1>2, <1>4, <3>1
    <3> QED
      BY <3>1, <3>2
  <2> QED
    BY <2>1, <2>2
<1>7. t = Run(a, c)
  <2>1. a <= c
    OBVIOUS
  <2> QED
    BY <1>3, <1>5, <2>1, CountsOn, Zenon
<1>8. u = Run(c, b)
  BY <1>4, <1>6, CountsOn
<1> QED
  BY <1>1, <1>7, <1>8 DEF s, t, u, Rest

\* The first bytes of a run are one.
LEMMA RunStart ==
    ASSUME NEW L \in Nat, NEW m \in Nat, m <= L
    PROVE  SubSeq(Run(0, L), 1, m) = Run(0, m)
<1> DEFINE s == Run(0, L)
           t == SubSeq(s, 1, m)
<1>1. s \in Seq(Nat) /\ Len(s) = L /\ \A i \in 1 .. L : s[i] = 0 + i
  <2>1. 0 \in Nat /\ 0 <= L /\ L - 0 = L
    OBVIOUS
  <2>2. s \in Seq(Nat) /\ Len(s) = L - 0 /\ \A i \in 1 .. L - 0 : s[i] = 0 + i
    BY <2>1, RunIs
  <2> QED
    BY <2>1, <2>2
<1> HIDE DEF s
<1>2. \A i \in 1 .. m : s[i] \in Nat /\ s[i] = i
  BY <1>1
<1>3. /\ t \in Seq(Nat) /\ Len(t) = (IF 1 <= m THEN m - 1 + 1 ELSE 0)
      /\ \A i \in 1 .. m - 1 + 1 : t[i] = s[1 + i - 1]
  BY <1>2, SubSeqProperties
<1> HIDE DEF t
<1>4. Len(t) = m - 0 /\ \A i \in 1 .. m - 0 : t[i] = 0 + i
  BY <1>2, <1>3
<1>5. t = Run(0, m)
  <2>1. 0 \in Nat /\ 0 <= m
    OBVIOUS
  <2> QED
    BY <1>3, <1>4, <2>1, CountsOn
<1> QED
  BY <1>5 DEF s, t

\* Taking the first n bytes of a run splits it in two.
LEMMA RunSplit ==
    ASSUME NEW a \in Nat, NEW b \in Nat, a <= b, NEW n \in Nat
    PROVE  \E m \in a .. b :
              /\ First(Run(a, b), n) = Run(a, m) /\ Rest(Run(a, b), n) = Run(m, b)
              /\ Rest(Run(a, b), Len(First(Run(a, b), n))) = Run(m, b)
              /\ n > 0 /\ a < b => a < m
<1> DEFINE s == Run(a, b)
<1>1. Len(s) = b - a /\ s \in Seq(Nat)
  BY RunIs
<1>2. ASSUME NEW k \in Nat, NEW c \in Nat, c = a + k, c <= b
      PROVE  /\ SubSeq(s, 1, k) = Run(a, c) /\ Len(Run(a, c)) = k
             /\ Rest(s, k) = Run(c, b)
  BY <1>2, RunCut, RunIs
<1> DEFINE k == IF n < b - a THEN n ELSE b - a
           c == a + k
<1>3. /\ k \in Nat /\ c \in Nat /\ c = a + k /\ c <= b /\ c \in a .. b
      /\ n > 0 /\ a < b => a < c
  OBVIOUS
<1>4. k = (IF n < Len(s) THEN n ELSE Len(s)) /\ (n <= b - a => n = k) /\ (n > b - a => c = b)
  BY <1>1
<1> HIDE DEF k, c, s
<1>5. First(s, n) = Run(a, c) /\ Len(First(s, n)) = k /\ Rest(s, k) = Run(c, b)
  BY <1>2, <1>3, <1>4 DEF First
<1>6. Rest(s, n) = Run(c, b)
  <2>1. CASE n <= b - a
    BY <1>4, <1>5, <2>1
  <2>2. CASE n > b - a
    <3>1. Run(b, b) = <<>>
      BY RunIs
    <3>2. n + 1 \in Int /\ Len(s) \in Int /\ Len(s) < n + 1
      BY <1>1, <2>2
    <3>3. Rest(s, n) = <<>>
      BY <3>2, SubSeqEmpty DEF Rest
    <3> QED
      BY <1>4, <2>2, <3>1, <3>3
  <2> QED
    BY <2>1, <2>2
<1> QED
  BY <1>3, <1>5, <1>6 DEF s

\* The elements of two sequences joined.
LEMMA Joined ==
    ASSUME NEW T, NEW s \in Seq(T), NEW t \in Seq(T)
    PROVE  /\ s \o t \in Seq(T) /\ Len(s \o t) = Len(s) + Len(t)
           /\ Len(s) \in Nat /\ Len(t) \in Nat
           /\ \A i \in 1 .. Len(s) : (s \o t)[i] = s[i]
           /\ \A i \in 1 .. Len(t) : (s \o t)[Len(s) + i] = t[i]
<1> DEFINE u == s \o t
<1>1. /\ u \in Seq(T) /\ Len(u) = Len(s) + Len(t)
      /\ \A i \in 1 .. Len(s) + Len(t) : u[i] = IF i <= Len(s) THEN s[i] ELSE t[i - Len(s)]
  BY ConcatProperties, Zenon
<1>2. Len(s) \in Nat /\ Len(t) \in Nat
  BY LenProperties
<1> HIDE DEF u
<1>3. \A i \in 1 .. Len(s) : u[i] = s[i]
  BY <1>1, <1>2
<1>4. ASSUME NEW i \in 1 .. Len(t) PROVE u[Len(s) + i] = t[i]
  <2>1. /\ Len(s) + i \in 1 .. Len(s) + Len(t)
        /\ ~(Len(s) + i <= Len(s)) /\ (Len(s) + i) - Len(s) = i
    BY <1>2
  <2> QED
    BY <1>1, <2>1
<1> QED
  BY <1>1, <1>2, <1>3, <1>4 DEF u

-----------------------------------------------------------------------------
(* The encrypted leg, writing.                                             *)

\* What a step of the connection looks like to its user.
StreamStep == S!StreamNext \/ UNCHANGED <<offered, accepted, closed, delivered, status>>

\* A record more changes nothing about the others.
LEMMA Recorded ==
    ASSUME NEW recs \in Seq(Seq(Nat)), NEW chunk \in Seq(Nat), NEW more, more = Append(recs, chunk)
    PROVE  /\ more \in Seq(Seq(Nat)) /\ Len(recs) \in Nat
           /\ Len(more) = Len(recs) + 1 /\ more[Len(recs) + 1] = chunk
           /\ \A r \in 1 .. Len(recs) : more[r] = recs[r]
           /\ \A c \in Cell : OfRecord(recs, c) => OfRecord(more, c) /\ After(more, c) = After(recs, c)
<1> DEFINE l == Len(recs)
<1>1. /\ l \in Nat /\ more \in Seq(Seq(Nat)) /\ Len(more) = l + 1
      /\ more[l + 1] = chunk /\ \A r \in 1 .. l : more[r] = recs[r]
  BY AppendProperties
<1>2. ASSUME NEW c \in Cell, OfRecord(recs, c)
      PROVE  OfRecord(more, c) /\ After(more, c) = After(recs, c)
  <2>1. c.rec \in 1 .. l /\ more[c.rec] = recs[c.rec]
    BY <1>1, <1>2 DEF OfRecord
  <2> QED
    BY <1>1, <1>2, <2>1 DEF OfRecord, After, Size
<1> QED
  BY <1>1, <1>2

\* The cells of a record, or the first of them.
CellsOf(cells, r, most) ==
    /\ cells \in Seq(Cell) /\ Len(cells) <= most
    /\ \A i \in 1 .. Len(cells) : cells[i].rec = r /\ cells[i].pos = i

LEMMA SealedCells ==
    ASSUME NEW r \in Nat, NEW chunk \in Seq(Nat)
    PROVE  LET full == Prefix + Sealing + Len(chunk)
               cells == Sealed(r, chunk) IN
           /\ full \in Nat \ {0} /\ Len(cells) = full /\ CellsOf(cells, r, full)
           /\ \A n \in 0 .. full - 1 :
                 CellsOf(First(cells, n), r, full) /\ Len(First(cells, n)) = n
<1> DEFINE full == Prefix + Sealing + Len(chunk)
           cells == Sealed(r, chunk)
<1>1. full \in Nat \ {0}
  BY WrapConnAssumption, LenProperties
<1>2. cells = [i \in 1 .. full |-> [rec |-> r, pos |-> i, intact |-> TRUE]]
  BY DEF Sealed
<1> HIDE DEF full, cells
<1>3. cells \in [1 .. full -> Cell]
  BY <1>1, <1>2 DEF Cell
<1>4. cells \in Seq(Cell) /\ Len(cells) = full
  BY <1>1, <1>3
<1>5. \A i \in 1 .. full : cells[i].rec = r /\ cells[i].pos = i
  BY <1>2
<1>6. CellsOf(cells, r, full)
  BY <1>1, <1>4, <1>5 DEF CellsOf
<1>7. ASSUME NEW n \in 0 .. full - 1
      PROVE  CellsOf(First(cells, n), r, full) /\ Len(First(cells, n)) = n
  <2> DEFINE t == SubSeq(cells, 1, n)
  <2>1. First(cells, n) = t
    BY <1>1, <1>4 DEF First
  <2>2. \A i \in 1 .. n : cells[i] \in Cell
    BY <1>1, <1>3
  <2>3. /\ t \in Seq(Cell) /\ Len(t) = (IF 1 <= n THEN n - 1 + 1 ELSE 0)
        /\ \A i \in 1 .. n - 1 + 1 : t[i] = cells[1 + i - 1]
    BY <2>2, SubSeqProperties
  <2> HIDE DEF t
  <2>4. Len(t) = n /\ Len(t) <= full /\ \A i \in 1 .. n : t[i] = cells[i]
    BY <1>1, <2>3
  <2>5. \A i \in 1 .. Len(t) : t[i].rec = r /\ t[i].pos = i
    BY <1>1, <1>5, <2>4
  <2>6. CellsOf(t, r, full)
    BY <2>3, <2>4, <2>5 DEF CellsOf
  <2> QED
    BY <2>1, <2>4, <2>6
<1> QED
  BY <1>1, <1>4, <1>6, <1>7 DEF full, cells

\* The cells of a new record continue the wire.
LEMMA WireGrows ==
    ASSUME records \in Seq(Seq(Nat)), wire \in Seq(Cell), NEW cur \in 0 .. Len(records),
           Gathered(cur), OnTheWire(cur), writer # "failed",
           NEW chunk \in Seq(Nat), NEW cells,
           CellsOf(cells, Len(records) + 1, Prefix + Sealing + Len(chunk)),
           writer' = "failed" => Len(cells) < Prefix + Sealing + Len(chunk),
           writer' # "failed" => Len(cells) = Prefix + Sealing + Len(chunk),
           records' = Append(records, chunk), wire' = wire \o cells,
           UNCHANGED <<hdr, frameLen, frame>>
    PROVE  wire' \in Seq(Cell) /\ Gathered(cur)' /\ OnTheWire(cur)'
<1> DEFINE l == Len(records)
           w == Len(wire)
           n == Len(cells)
           full == Prefix + Sealing + Len(chunk)
<1>1. /\ l \in Nat /\ w \in Nat /\ n \in Nat /\ cells \in Seq(Cell) /\ n <= full
      /\ full \in Nat \ {0} /\ Len(records') = l + 1 /\ cur \in 0 .. l
      /\ \A i \in 1 .. n : cells[i] \in Cell /\ cells[i].rec = l + 1 /\ cells[i].pos = i
      /\ \A i \in 1 .. w : wire[i] \in Cell
  BY WrapConnAssumption, Recorded, LenProperties, ElementOfSeq DEF CellsOf
<1>2. /\ wire' \in Seq(Cell) /\ Len(wire') = w + n
      /\ \A i \in 1 .. w : wire'[i] = wire[i]
      /\ \A i \in 1 .. n : wire'[w + i] = cells[i]
  <2>1. wire \in Seq(Cell) /\ cells \in Seq(Cell)
    BY <1>1
  <2>2. /\ wire \o cells \in Seq(Cell) /\ Len(wire \o cells) = Len(wire) + Len(cells)
        /\ \A i \in 1 .. Len(wire) : (wire \o cells)[i] = wire[i]
        /\ \A i \in 1 .. Len(cells) : (wire \o cells)[Len(wire) + i] = cells[i]
    BY <2>1, Joined
  <2> QED
    BY <2>2, Zenon
<1>3. /\ \A c \in Cell : OfRecord(records, c) =>
             OfRecord(records', c) /\ After(records', c) = After(records, c)
      /\ Size(records', l + 1) = full
  BY Recorded DEF Size
<1> HIDE DEF full, w, n, l
<1>4. ASSUME NEW j \in 1 .. n
      PROVE  /\ wire'[w + j] = cells[j] /\ cells[j].rec = l + 1 /\ cells[j].pos = j
             /\ OfRecord(records', cells[j])
             /\ After(records', cells[j]) = IF j < full THEN <<l + 1, j + 1>> ELSE <<l + 2, 1>>
  <2>1. cells[j].rec = l + 1 /\ cells[j].pos = j /\ wire'[w + j] = cells[j]
    BY <1>1, <1>2
  <2>2. j \in 1 .. full
    BY <1>1
  <2> QED
    BY <1>1, <1>3, <2>1, <2>2 DEF OfRecord, After
<1>5. ASSUME NEW i \in 1 .. w
      PROVE  /\ wire'[i] = wire[i] /\ OfRecord(records', wire[i])
             /\ After(records', wire[i]) = After(records, wire[i])
  BY <1>1, <1>2, <1>3 DEF OnTheWire, w
<1>6. frame # <<>> => frame[Len(frame)] \in Cell
  BY LenProperties, ElementOfSeq, EmptySeq DEF Gathered
<1>7. Gathered(cur)'
  <2>1. /\ hdr' = hdr /\ frameLen' = frameLen /\ frame' = frame
        /\ hdr # <<>> => cur < Len(records')
    BY <1>1 DEF Gathered, l
  <2>2. frame # <<>> => OfRecord(records', frame[Len(frame)])
    BY <1>3, <1>6 DEF Gathered
  <2> QED
    BY <2>1, <2>2 DEF Gathered
<1>8. Expected(cur)' = Expected(cur)
  BY <1>3, <1>6 DEF Expected, Gathered
<1>9. Unwritten(cur) = <<l + 1, 1>>
  BY DEF OnTheWire, l
<1>10. ASSUME NEW i \in 1 .. w + n, ~(i \in 1 .. w)
       PROVE  \E j \in 1 .. n : i = w + j
  <2>1. i - w \in 1 .. n /\ i = w + (i - w)
    BY <1>1, <1>10
  <2> QED
    BY <2>1
<1>11. (w = 0 <=> wire = <<>>) /\ (w + n = 0 <=> wire' = <<>>)
  BY <1>1, <1>2, EmptySeq DEF w
<1>12. ASSUME NEW i \in 1 .. Len(wire') PROVE OfRecord(records', wire'[i])
  <2>1. CASE i \in 1 .. w
    BY <1>5, <2>1
  <2>2. CASE ~(i \in 1 .. w)
    <3>1. PICK j \in 1 .. n : i = w + j
      BY <1>2, <1>10, <2>2
    <3> QED
      BY <1>4, <3>1
  <2> QED
    BY <2>1, <2>2
<1>13. ASSUME wire' # <<>> PROVE <<wire'[1].rec, wire'[1].pos>> = Expected(cur)'
  <2>1. CASE w > 0
    <3>1. 1 \in 1 .. w /\ wire # <<>>
      BY <1>1, <1>11, <2>1
    <3> QED
      BY <1>5, <1>8, <3>1 DEF OnTheWire
  <2>2. CASE w = 0
    <3>1. 1 \in 1 .. n /\ w + 1 = 1 /\ wire = <<>>
      BY <1>1, <1>11, <1>13, <2>2
    <3>2. wire'[1].rec = l + 1 /\ wire'[1].pos = 1
      BY <1>4, <3>1
    <3> QED
      BY <1>8, <1>9, <3>1, <3>2 DEF Unwritten
  <2>3. w > 0 \/ w = 0
    BY <1>1
  <2> QED
    BY <2>1, <2>2, <2>3
<1>14. ASSUME NEW i \in 1 .. Len(wire') - 1
       PROVE  <<wire'[i + 1].rec, wire'[i + 1].pos>> = After(records', wire'[i])
  <2>1. CASE i < w
    <3>1. i \in 1 .. w /\ i + 1 \in 1 .. w /\ i \in 1 .. Len(wire) - 1
      BY <1>1, <2>1 DEF w
    <3> QED
      BY <1>5, <3>1 DEF OnTheWire
  <2>2. CASE i = w
    <3>1. i \in 1 .. w /\ 1 \in 1 .. n /\ wire # <<>> /\ i = Len(wire)
      BY <1>1, <1>2, <1>11, <2>2 DEF w
    <3>2. wire'[i + 1].rec = l + 1 /\ wire'[i + 1].pos = 1
      <4>1. wire'[w + 1] = cells[1] /\ cells[1].rec = l + 1 /\ cells[1].pos = 1
        BY <1>4, <3>1
      <4> QED
        BY <2>2, <4>1
    <3> QED
      BY <1>5, <1>9, <3>1, <3>2 DEF Unwritten
  <2>3. CASE i > w
    <3>1. PICK j \in 1 .. n : i = w + j
      BY <1>1, <1>2, <1>10, <2>3
    <3>2. j + 1 \in 1 .. n /\ i + 1 = w + (j + 1) /\ j < full
      BY <1>1, <1>2, <3>1
    <3>3. wire'[i + 1].rec = l + 1 /\ wire'[i + 1].pos = j + 1
      BY <1>4, <3>2
    <3> QED
      BY <1>4, <3>1, <3>2, <3>3
  <2>4. i < w \/ i = w \/ i > w
    BY <1>1, <1>2
  <2> QED
    BY <2>1, <2>2, <2>3, <2>4
<1>15. IF writer' = "failed" THEN Unwritten(cur)'[1] = l + 1 ELSE Unwritten(cur)' = <<l + 2, 1>>
  <2>1. CASE n = 0
    <3>1. writer' = "failed"
      BY <1>1, <2>1 DEF n, full
    <3>2. Unwritten(cur)' = Unwritten(cur)
      <4>1. CASE w = 0
        BY <1>8, <1>11, <2>1, <4>1 DEF Unwritten
      <4>2. CASE w > 0
        <5>1. w \in 1 .. w /\ wire # <<>> /\ wire' # <<>> /\ Len(wire) = w /\ Len(wire') = w
          BY <1>1, <1>2, <1>11, <2>1, <4>2 DEF w
        <5> QED
          BY <1>5, <5>1 DEF Unwritten
      <4> QED
        BY <1>1, <4>1, <4>2
    <3> QED
      BY <1>9, <3>1, <3>2
  <2>2. CASE n > 0
    <3>1. n \in 1 .. n /\ wire' # <<>> /\ Len(wire') = w + n
      BY <1>1, <1>2, <1>11, <2>2
    <3>2. Unwritten(cur)' = After(records', cells[n])
      BY <1>4, <3>1 DEF Unwritten
    <3>3. (writer' = "failed" => n < full) /\ (writer' # "failed" => n = full)
      BY DEF n, full
    <3>4. After(records', cells[n]) = IF n < full THEN <<l + 1, n + 1>> ELSE <<l + 2, 1>>
      BY <1>4, <3>1
    <3>5. n = full => ~(n < full)
      BY <1>1
    <3> QED
      BY <3>2, <3>3, <3>4, <3>5
  <2> QED
    BY <1>1, <2>1, <2>2
<1>16. Len(records') = l + 1 /\ Len(records') + 1 = l + 2
  BY <1>1
<1> QED
  BY <1>2, <1>7, <1>12, <1>13, <1>14, <1>15, <1>16 DEF OnTheWire

\* Taking the first cell off the wire.
LEMMA WireShrinks ==
    ASSUME wire \in Seq(Cell), wire # <<>>, NEW cur, OnTheWire(cur), wire' = Tail(wire),
           UNCHANGED <<records, writer>>, Expected(cur)' = After(records, wire[1])
    PROVE  wire' \in Seq(Cell) /\ OnTheWire(cur)'
<1> DEFINE w == Len(wire)
<1>1. /\ wire' \in Seq(Cell) /\ Len(wire') = w - 1 /\ w \in Nat \ {0}
      /\ \A i \in 1 .. w - 1 : wire'[i] = wire[i + 1]
  BY HeadTailProperties, EmptySeq
<1>2. /\ \A i \in 1 .. w : OfRecord(records, wire[i])
      /\ \A i \in 1 .. w - 1 : <<wire[i + 1].rec, wire[i + 1].pos>> = After(records, wire[i])
  BY DEF OnTheWire
<1>3. wire' = <<>> <=> w = 1
  BY <1>1, EmptySeq
<1>4. Unwritten(cur) = After(records, wire[w])
  BY DEF Unwritten
<1>5. Unwritten(cur)' = Unwritten(cur)
  <2>1. CASE w = 1
    BY <1>3, <1>4, <2>1 DEF Unwritten
  <2>2. CASE w # 1
    <3>1. w - 1 \in 1 .. w - 1 /\ (w - 1) + 1 = w
      BY <1>1, <2>2
    <3>2. wire'[w - 1] = wire[w]
      BY <1>1, <3>1
    <3> QED
      BY <1>1, <1>3, <1>4, <2>2, <3>2 DEF Unwritten
  <2> QED
    BY <2>1, <2>2
<1> HIDE DEF w
<1>6. ASSUME NEW i \in 1 .. Len(wire') PROVE OfRecord(records', wire'[i])
  BY <1>1, <1>2
<1>7. ASSUME wire' # <<>> PROVE <<wire'[1].rec, wire'[1].pos>> = Expected(cur)'
  <2>1. 1 \in 1 .. w - 1 /\ wire'[1] = wire[1 + 1]
    BY <1>1, <1>3, <1>7
  <2> QED
    BY <1>2, <2>1
<1>8. ASSUME NEW i \in 1 .. Len(wire') - 1
      PROVE  <<wire'[i + 1].rec, wire'[i + 1].pos>> = After(records', wire'[i])
  <2>1. i \in 1 .. w - 1 /\ i + 1 \in 1 .. w - 1
    BY <1>1
  <2> QED
    BY <1>1, <1>2, <2>1
<1> QED
  BY <1>1, <1>5, <1>6, <1>7, <1>8 DEF OnTheWire

\* A damaged cell keeps its place.
LEMMA WireMarked ==
    ASSUME wire \in Seq(Cell), NEW cur, OnTheWire(cur), NEW k \in DOMAIN wire,
           wire' = [wire EXCEPT ![k].intact = FALSE], UNCHANGED <<records, writer, hdr, frame>>
    PROVE  wire' \in Seq(Cell) /\ OnTheWire(cur)'
<1> DEFINE w == Len(wire)
           c == [wire[k] EXCEPT !.intact = FALSE]
<1>1. w \in Nat /\ k \in 1 .. w /\ wire[k] \in Cell
  BY LenProperties, ElementOfSeq
<1>2. c \in Cell /\ c.rec = wire[k].rec /\ c.pos = wire[k].pos
  BY <1>1 DEF Cell
<1>3. wire' = [wire EXCEPT ![k] = c]
  OBVIOUS
<1> HIDE DEF c
<1>4. /\ wire' \in Seq(Cell) /\ Len(wire') = w
      /\ \A i \in 1 .. w : wire'[i] = IF i = k THEN c ELSE wire[i]
  <2>1. Len(wire) = w /\ k \in 1 .. Len(wire)
    BY <1>1
  <2> HIDE DEF w
  <2>2. /\ [wire EXCEPT ![k] = c] \in Seq(Cell)
        /\ Len([wire EXCEPT ![k] = c]) = Len(wire)
        /\ \A i \in 1 .. Len(wire) : [wire EXCEPT ![k] = c][i] = IF i = k THEN c ELSE wire[i]
    BY <1>2, <2>1, ExceptSeq
  <2> QED
    BY <1>3, <2>1, <2>2, Zenon
<1>5. ASSUME NEW i \in 1 .. w
      PROVE  /\ wire'[i].rec = wire[i].rec /\ wire'[i].pos = wire[i].pos
             /\ OfRecord(records, wire'[i]) <=> OfRecord(records, wire[i])
             /\ After(records, wire'[i]) = After(records, wire[i])
  <2>1. wire'[i].rec = wire[i].rec /\ wire'[i].pos = wire[i].pos
    BY <1>2, <1>4
  <2>2. OfRecord(records, wire'[i]) <=> OfRecord(records, wire[i])
    BY <2>1, Zenon DEF OfRecord
  <2>3. After(records, wire'[i]) = After(records, wire[i])
    <3>1. wire'[i].pos < Size(records, wire'[i].rec) <=> wire[i].pos < Size(records, wire[i].rec)
      BY <2>1, Zenon
    <3>2. /\ <<wire'[i].rec, wire'[i].pos + 1>> = <<wire[i].rec, wire[i].pos + 1>>
          /\ <<wire'[i].rec + 1, 1>> = <<wire[i].rec + 1, 1>>
      BY <2>1, Zenon
    <3> QED
      BY <3>1, <3>2, Zenon DEF After
  <2> QED
    BY <2>1, <2>2, <2>3
<1>6. Expected(cur)' = Expected(cur)
  BY DEF Expected
<1>7. wire # <<>> /\ wire' # <<>> /\ 1 \in 1 .. w /\ w \in 1 .. w
  BY <1>1, <1>4, EmptySeq
<1>8. Unwritten(cur)' = Unwritten(cur)
  BY <1>4, <1>5, <1>7 DEF Unwritten
<1>9. \A i \in 1 .. Len(wire') : OfRecord(records', wire'[i])
  BY <1>4, <1>5 DEF OnTheWire
<1>10. <<wire'[1].rec, wire'[1].pos>> = Expected(cur)'
  BY <1>5, <1>6, <1>7 DEF OnTheWire
<1>11. ASSUME NEW i \in 1 .. Len(wire') - 1
       PROVE  <<wire'[i + 1].rec, wire'[i + 1].pos>> = After(records', wire'[i])
  <2>1. i \in 1 .. w /\ i + 1 \in 1 .. w /\ i \in 1 .. Len(wire) - 1
    BY <1>1, <1>4
  <2> QED
    BY <1>5, <2>1 DEF OnTheWire
<1> QED
  BY <1>4, <1>8, <1>9, <1>10, <1>11 DEF OnTheWire

\* The reader does not see the writer's own state.
LEMMA SameReceived ==
    ASSUME NEW ends, NEW cur, Received(ends, cur), writer = "failed" <=> writer' = "failed",
           UNCHANGED <<delivered, readBuf, want, wire, hdr, frameLen, frame, records>>
    PROVE  Received(ends, cur)'
<1>1. Gathered(cur)'
  BY DEF Received, Gathered
<1>2. Expected(cur)' = Expected(cur) /\ Unwritten(cur)' = Unwritten(cur)
  BY DEF Expected, Unwritten
<1>3. OnTheWire(cur)'
  BY <1>2 DEF Received, OnTheWire
<1> QED
  BY <1>1, <1>3 DEF Received

\* A payload begins where the last one ended.
LEMMA BeginWriteKeeps ==
    ASSUME SealedTypeOK, NEW ends, NEW cur, SealedWith(ends, cur),
           NEW n \in WriteSizes, BeginWrite(n)
    PROVE  SealedInv' /\ StreamStep
<1> DEFINE L == Len(offered)
<1>1. n \in Nat /\ L \in Nat /\ L + n \in Nat /\ Len(records) \in Nat /\ accepted \in Nat
  BY WrapConnAssumption, LenProperties DEF SealedTypeOK
<1>2. writer = "idle" /\ ~closed /\ pending = <<>> /\ ends[Len(records)] = L /\ accepted <= L
  BY <1>1, EmptySeq DEF BeginWrite, SealedWith, Sent
<1> DEFINE M == L + n
<1>m. M \in Nat /\ M - L = n /\ L <= M /\ M = L + n
  BY <1>1
<1> HIDE DEF M, L
<1>3. pending' = Run(L, M)
  <2> DEFINE p == [i \in 1 .. n |-> L + i]
  <2>1. pending' = p
    BY DEF BeginWrite, L
  <2>2. p \in Seq(Nat) /\ Len(p) = n /\ \A i \in 1 .. n : p[i] = L + i
    <3>1. p \in [1 .. n -> Nat]
      BY <1>1
    <3> QED
      BY <1>1, <3>1
  <2> HIDE DEF p
  <2>3. p = Run(L, M)
    BY <1>1, <1>m, <2>2, CountsOn
  <2> QED
    BY <2>1, <2>3
<1>4. offered = Run(0, L) /\ offered' = Run(0, L) \o Run(L, M)
  BY <1>3 DEF BeginWrite, SealedWith, Sent, L
<1>5. offered' = Run(0, M)
  <2>1. 0 \in Nat /\ L \in Nat /\ M \in Nat /\ 0 <= L /\ L <= M
    BY <1>1, <1>m
  <2>2. Run(0, L) \o Run(L, M) = Run(0, M)
    BY <2>1, RunsMeet, Zenon
  <2> QED
    BY <1>4, <2>2
<1>6. /\ offered' \in Seq(Nat) /\ Len(offered') = M
      /\ pending' \in Seq(Nat) /\ Len(pending') = n
  BY <1>1, <1>m, <1>3, <1>5, RunIs
<1>7. SubSeq(offered', 1, L) = offered
  BY <1>1, <1>m, <1>4, <1>5, RunCut
<1>8. UNCHANGED <<accepted, closed, delivered, status, records, wire, hdr, frameLen, frame,
                  readBuf, want>> /\ writer' = "writing"
  BY DEF BeginWrite, framing
<1>9. SealedTypeOK'
  BY <1>6, <1>8 DEF SealedTypeOK
<1>10. Sent(ends)'
  <2>1. offered' = Run(0, Len(offered')) /\ pending' = Run(Len(offered') - Len(pending'), Len(offered'))
    <3>1. M - n = L
      BY <1>1, <1>m
    <3> QED
      BY <1>3, <1>5, <1>6, <3>1
  <2>2. /\ Len(pending') <= Len(offered') /\ ends[Len(records)] = Len(offered') - Len(pending')
        /\ \A r \in 0 .. Len(records) : ends[r] <= Len(offered')
    <3>1. ends \in [0 .. Len(records) -> Nat] /\ \A r \in 0 .. Len(records) : ends[r] <= L
      BY DEF SealedWith, Sent, L
    <3>2. \A r \in 0 .. Len(records) : ends[r] \in Nat /\ ends[r] <= L
      BY <3>1
    <3>3. Len(pending') <= Len(offered') /\ ends[Len(records)] = Len(offered') - Len(pending')
      BY <1>1, <1>m, <1>2, <1>6
    <3>4. \A r \in 0 .. Len(records) : ends[r] <= Len(offered')
      BY <1>1, <1>m, <1>6, <3>2
    <3> QED
      BY <3>3, <3>4
  <2>3. /\ ends \in [0 .. Len(records) -> Nat] /\ ends[0] = 0
        /\ \A r \in 1 .. Len(records) :
              ends[r - 1] <= ends[r] /\ records[r] = Run(ends[r - 1], ends[r])
    BY DEF SealedWith, Sent
  <2> QED
    BY <1>2, <1>8, <2>1, <2>2, <2>3 DEF Sent
<1>11. status' = "open" => Received(ends, cur)'
  <2>1. writer # "failed" /\ writer' # "failed"
    BY <1>2, <1>8
  <2> QED
    BY <1>8, <2>1, SameReceived DEF SealedWith
<1>12. SealedWith(ends, cur)'
  BY <1>8, <1>10, <1>11 DEF SealedWith
<1>13. S!Offer
  <2>1. /\ Len(offered') >= L /\ accepted' \in accepted .. Len(offered')
    BY <1>1, <1>m, <1>2, <1>6, <1>8
  <2> QED
    BY <1>2, <1>7, <1>8, <2>1 DEF S!Offer, L
<1> QED
  BY <1>9, <1>12, <1>13 DEF SealedInv, StreamStep, S!StreamNext

\* The records with one more, that ends with byte m.
LEMMA OneRecordMore ==
    ASSUME records \in Seq(Seq(Nat)), NEW ends, Sent(ends), Len(offered) \in Nat,
           NEW m \in Nat, ends[Len(records)] <= m, m <= Len(offered),
           records' = Append(records, Run(ends[Len(records)], m))
    PROVE  \E more :
              LET n == Len(records) IN
              /\ more \in [0 .. n + 1 -> Nat] /\ more[n + 1] = m
              /\ \A r \in 0 .. n : more[r] = ends[r]
              /\ \A r \in 1 .. n + 1 :
                    more[r - 1] <= more[r] /\ records'[r] = Run(more[r - 1], more[r])
              /\ \A r \in 0 .. n + 1 : more[r] <= Len(offered)
<1> DEFINE n == Len(records)
           more == [r \in 0 .. n + 1 |-> IF r = n + 1 THEN m ELSE ends[r]]
<1>1. n \in Nat /\ ends \in [0 .. n -> Nat]
  BY LenProperties DEF Sent
<1>2. /\ \A r \in 1 .. n : ends[r - 1] <= ends[r] /\ records[r] = Run(ends[r - 1], ends[r])
      /\ \A r \in 0 .. n : ends[r] <= Len(offered)
  BY DEF Sent
<1>3. ends[n] \in Nat /\ Run(ends[n], m) \in Seq(Nat)
  <2>1. ends[n] \in Nat
    BY <1>1
  <2> QED
    BY <2>1, RunIs
<1>4. records'[n + 1] = Run(ends[n], m) /\ \A r \in 1 .. n : records'[r] = records[r]
  BY <1>3, Recorded
<1> HIDE DEF n
<1>5. more \in [0 .. n + 1 -> Nat] /\ more[n + 1] = m /\ \A r \in 0 .. n : more[r] = ends[r]
  BY <1>1
<1> HIDE DEF more
<1>6. ASSUME NEW r \in 1 .. n + 1
      PROVE  more[r - 1] <= more[r] /\ records'[r] = Run(more[r - 1], more[r])
  <2>1. CASE r = n + 1
    <3>1. r - 1 = n /\ more[r - 1] = ends[n] /\ more[r] = m
      BY <1>1, <1>5, <2>1
    <3> QED
      BY <1>4, <2>1, <3>1 DEF n
  <2>2. CASE r # n + 1
    <3>1. r \in 1 .. n /\ r - 1 \in 0 .. n /\ r \in 0 .. n
      BY <1>1, <2>2
    <3> QED
      BY <1>2, <1>4, <1>5, <3>1
  <2> QED
    BY <2>1, <2>2
<1>7. ASSUME NEW r \in 0 .. n + 1 PROVE more[r] <= Len(offered)
  <2>1. CASE r = n + 1
    BY <1>5, <2>1
  <2>2. CASE r # n + 1
    <3>1. r \in 0 .. n
      BY <1>1, <2>2
    <3> QED
      BY <1>2, <1>5, <3>1
  <2> QED
    BY <2>1, <2>2
<1> QED
  BY <1>5, <1>6, <1>7 DEF n

\* What both ways a record can go onto the wire have in common.
LEMMA RecordGoesOut ==
    ASSUME SealedTypeOK, NEW ends, NEW cur, SealedWith(ends, cur), writer = "writing",
           records' = Append(records, Chunk(pending))
    PROVE  \E m \in Nat, more \in [0 .. Len(records) + 1 -> Nat] :
              LET n == Len(records) IN
              /\ n \in Nat /\ Len(records') = n + 1 /\ records' \in Seq(Seq(Nat))
              /\ Chunk(pending) \in Seq(Nat)
              /\ ends[n] <= m /\ m <= Len(offered) /\ ends[n] \in Nat
              /\ ends[n] = Len(offered) - Len(pending) /\ Len(offered) \in Nat /\ accepted <= ends[n]
              /\ Rest(pending, Len(Chunk(pending))) = Run(m, Len(offered))
              /\ more \in [0 .. n + 1 -> Nat] /\ more[n + 1] = m
              /\ \A r \in 0 .. n : more[r] = ends[r]
              /\ \A r \in 1 .. n + 1 :
                    more[r - 1] <= more[r] /\ records'[r] = Run(more[r - 1], more[r])
              /\ \A r \in 0 .. n + 1 : more[r] <= Len(offered)
<1> DEFINE n == Len(records)
           L == Len(offered)
           a == L - Len(pending)
<1>1. n \in Nat /\ L \in Nat /\ Len(pending) \in Nat /\ Len(pending) <= L
  BY LenProperties DEF SealedTypeOK, SealedWith, Sent
<1>2. a \in Nat /\ a <= L
  BY <1>1
<1>3. pending = Run(a, L) /\ ends[n] = a /\ accepted <= a
  BY DEF SealedWith, Sent
<1> HIDE DEF n, L, a
<1>4. PICK m \in a .. L : /\ First(Run(a, L), MaxFrame) = Run(a, m)
                          /\ Rest(Run(a, L), Len(First(Run(a, L), MaxFrame))) = Run(m, L)
  <2>1. MaxFrame \in Nat /\ a \in Nat /\ L \in Nat /\ a <= L
    BY <1>1, <1>2, WrapConnAssumption
  <2> QED
    <3>1. \E m \in a .. L :
              /\ First(Run(a, L), MaxFrame) = Run(a, m) /\ Rest(Run(a, L), MaxFrame) = Run(m, L)
              /\ Rest(Run(a, L), Len(First(Run(a, L), MaxFrame))) = Run(m, L)
              /\ MaxFrame > 0 /\ a < L => a < m
      BY <2>1, RunSplit
    <3> QED
      BY <3>1, Zenon
<1>5. m \in Nat /\ a <= m /\ m <= L
  BY <1>1, <1>2
<1>6. Chunk(pending) = Run(a, m) /\ Rest(pending, Len(Chunk(pending))) = Run(m, L)
  BY <1>3, <1>4 DEF Chunk
<1>7. Run(a, m) \in Seq(Nat)
  BY <1>2, <1>5, RunIs
<1>8. Len(records') = n + 1 /\ records' \in Seq(Seq(Nat))
  BY <1>6, <1>7, Recorded DEF SealedTypeOK, n
<1>9. /\ records' = Append(records, Run(ends[Len(records)], m)) /\ Len(offered) \in Nat
      /\ ends[Len(records)] <= m /\ m <= Len(offered) /\ Sent(ends) /\ records \in Seq(Seq(Nat))
  BY <1>1, <1>3, <1>5, <1>6 DEF n, L, SealedWith, SealedTypeOK
<1>10. PICK more :
              /\ more \in [0 .. n + 1 -> Nat] /\ more[n + 1] = m
              /\ \A r \in 0 .. n : more[r] = ends[r]
              /\ \A r \in 1 .. n + 1 :
                    more[r - 1] <= more[r] /\ records'[r] = Run(more[r - 1], more[r])
              /\ \A r \in 0 .. n + 1 : more[r] <= L
  <2>1. m \in Nat
    BY <1>5
  <2> QED
    BY <1>9, <2>1, OneRecordMore, SMTT(30) DEF n, L
<1>11. /\ n \in Nat /\ Len(records') = n + 1 /\ records' \in Seq(Seq(Nat))
       /\ Chunk(pending) \in Seq(Nat)
       /\ ends[n] <= m /\ m <= L /\ ends[n] \in Nat
       /\ ends[n] = L - Len(pending) /\ L \in Nat /\ accepted <= ends[n]
       /\ Rest(pending, Len(Chunk(pending))) = Run(m, L)
  BY <1>1, <1>2, <1>3, <1>5, <1>6, <1>7, <1>8 DEF a
<1> QED
  BY <1>5, <1>10, <1>11, Zenon DEF n, L

\* The reader's side after a record, or the first of its cells, is on the wire.
LEMMA RecordReceived ==
    ASSUME SealedTypeOK, NEW ends, NEW cur, SealedWith(ends, cur), writer = "writing",
           NEW chunk \in Seq(Nat), records' = Append(records, chunk), NEW cells,
           CellsOf(cells, Len(records) + 1, Prefix + Sealing + Len(chunk)),
           writer' = "failed" => Len(cells) < Prefix + Sealing + Len(chunk),
           writer' # "failed" => Len(cells) = Prefix + Sealing + Len(chunk),
           wire' = wire \o cells, UNCHANGED <<delivered, status, hdr, frameLen, frame, readBuf, want>>,
           NEW more, \A r \in 0 .. Len(records) : more[r] = ends[r]
    PROVE  wire' \in Seq(Cell) /\ (status' = "open" => Received(more, cur)')
<1>1. wire' \in Seq(Cell)
  <2>1. wire \in Seq(Cell) /\ cells \in Seq(Cell)
    BY DEF SealedTypeOK, CellsOf
  <2> QED
    BY <2>1, Joined
<1>2. ASSUME status = "open" PROVE Received(more, cur)'
  <2>1. Received(ends, cur) /\ cur \in 0 .. Len(records) /\ more[cur] = ends[cur]
    BY <1>2 DEF SealedWith
  <2>2. Gathered(cur)' /\ OnTheWire(cur)'
    BY <2>1, WireGrows DEF SealedTypeOK, Received
  <2> QED
    BY <2>1, <2>2 DEF Received
<1> QED
  BY <1>1, <1>2

\* A record written: its bytes are the next ones, and they are accepted once
\* the payload is through.
LEMMA WriteRecordKeeps ==
    ASSUME SealedTypeOK, NEW ends, NEW cur, SealedWith(ends, cur), WriteRecord
    PROVE  SealedInv' /\ StreamStep
<1> DEFINE n == Len(records)
           L == Len(offered)
           chunk == Chunk(pending)
           rest == Rest(pending, Len(chunk))
<1>1. /\ writer = "writing" /\ records' = Append(records, chunk)
      /\ wire' = wire \o Sealed(n + 1, chunk) /\ pending' = rest
      /\ writer' = (IF rest = <<>> THEN "idle" ELSE "writing")
      /\ accepted' = (IF rest = <<>> THEN L ELSE accepted)
      /\ UNCHANGED <<offered, closed, delivered, status, hdr, frameLen, frame, readBuf, want>>
  BY DEF WriteRecord, framing
<1>2. PICK m \in Nat, more \in [0 .. n + 1 -> Nat] :
              /\ n \in Nat /\ Len(records') = n + 1 /\ records' \in Seq(Seq(Nat))
              /\ chunk \in Seq(Nat)
              /\ ends[n] <= m /\ m <= L /\ ends[n] \in Nat
              /\ ends[n] = L - Len(pending) /\ L \in Nat /\ accepted <= ends[n]
              /\ rest = Run(m, L)
              /\ more \in [0 .. n + 1 -> Nat] /\ more[n + 1] = m
              /\ \A r \in 0 .. n : more[r] = ends[r]
              /\ \A r \in 1 .. n + 1 :
                    more[r - 1] <= more[r] /\ records'[r] = Run(more[r - 1], more[r])
              /\ \A r \in 0 .. n + 1 : more[r] <= L
  BY <1>1, RecordGoesOut
<1>3. /\ CellsOf(Sealed(n + 1, chunk), n + 1, Prefix + Sealing + Len(chunk))
      /\ Len(Sealed(n + 1, chunk)) = Prefix + Sealing + Len(chunk)
  <2>1. n + 1 \in Nat /\ chunk \in Seq(Nat)
    BY <1>2
  <2> QED
    BY <2>1, SealedCells
<1>4. writer' # "failed"
  BY <1>1
<1> HIDE DEF chunk, rest
<1>5. wire' \in Seq(Cell) /\ (status' = "open" => Received(more, cur)')
  BY <1>1, <1>2, <1>3, <1>4, RecordReceived DEF chunk
<1>6. rest \in Seq(Nat) /\ Len(rest) = L - m /\ (rest = <<>> <=> m = L)
  <2>1. m \in Nat /\ L \in Nat /\ m <= L /\ rest = Run(m, L)
    BY <1>2
  <2> QED
    BY <2>1, RunIs
<1>7. accepted' \in Nat /\ accepted' <= L /\ accepted <= accepted' /\ accepted' <= m
  <2>1. accepted \in Nat /\ ends[n] \in Nat /\ L \in Nat /\ accepted <= ends[n] /\ ends[n] <= m /\ m <= L
    BY <1>2 DEF SealedTypeOK
  <2>2. accepted' = (IF m = L THEN L ELSE accepted)
    BY <1>1, <1>6
  <2> QED
    BY <2>1, <2>2
<1>8. SealedTypeOK'
  BY <1>1, <1>2, <1>5, <1>6, <1>7 DEF SealedTypeOK
<1>9. Sent(more)'
  <2>1. Len(offered') = L /\ Len(pending') = L - m /\ Len(offered') - Len(pending') = m
    BY <1>1, <1>2, <1>6
  <2>2. pending' = Run(Len(offered') - Len(pending'), Len(offered'))
    BY <1>1, <1>2, <2>1
  <2>3. Len(pending') <= Len(offered') /\ more[0] = 0
    BY <1>2, <2>1 DEF SealedWith, Sent
  <2>4. offered' = Run(0, Len(offered')) /\ (writer' = "writing" => ~closed')
    BY <1>1 DEF SealedWith, Sent
  <2>5. writer' = "idle" => pending' = <<>>
    BY <1>1
  <2> HIDE DEF n, L
  <2>6. /\ more \in [0 .. Len(records') -> Nat]
        /\ \A r \in 1 .. Len(records') :
              more[r - 1] <= more[r] /\ records'[r] = Run(more[r - 1], more[r])
        /\ \A r \in 0 .. Len(records') : more[r] <= Len(offered')
        /\ more[Len(records')] = m
    BY <1>2, <2>1
  <2> QED
    BY <1>4, <1>7, <2>1, <2>2, <2>3, <2>4, <2>5, <2>6 DEF Sent
<1>10. cur \in 0 .. Len(records')
  BY <1>2 DEF SealedWith
<1>11. SealedWith(more, cur)'
  BY <1>5, <1>9, <1>10 DEF SealedWith
<1>12. S!Accept
  <2>1. accepted' \in accepted .. L
    BY <1>2, <1>7 DEF SealedTypeOK
  <2> QED
    BY <1>1, <2>1 DEF S!Accept
<1> QED
  BY <1>8, <1>11, <1>12 DEF SealedInv, StreamStep, S!StreamNext

\* A Write that fails reports what was in the records before the one that was
\* cut off.
LEMMA WriteFailsKeeps ==
    ASSUME SealedTypeOK, NEW ends, NEW cur, SealedWith(ends, cur), WriteFails
    PROVE  SealedInv' /\ StreamStep
<1> DEFINE n == Len(records)
           L == Len(offered)
           chunk == Chunk(pending)
           cells == Sealed(n + 1, chunk)
<1>1. /\ writer = "writing" /\ records' = Append(records, chunk)
      /\ pending' = <<>> /\ writer' = "failed" /\ accepted' = L - Len(pending)
      /\ UNCHANGED <<offered, closed, delivered, status, hdr, frameLen, frame, readBuf, want>>
  BY DEF WriteFails, framing
<1>2. PICK k \in 0 .. Len(cells) - 1 : wire' = wire \o First(cells, k)
  BY DEF WriteFails
<1>3. PICK m \in Nat, more \in [0 .. n + 1 -> Nat] :
              /\ n \in Nat /\ Len(records') = n + 1 /\ records' \in Seq(Seq(Nat))
              /\ chunk \in Seq(Nat)
              /\ ends[n] <= m /\ m <= L /\ ends[n] \in Nat
              /\ ends[n] = L - Len(pending) /\ L \in Nat /\ accepted <= ends[n]
              /\ Rest(pending, Len(chunk)) = Run(m, L)
              /\ more \in [0 .. n + 1 -> Nat] /\ more[n + 1] = m
              /\ \A r \in 0 .. n : more[r] = ends[r]
              /\ \A r \in 1 .. n + 1 :
                    more[r - 1] <= more[r] /\ records'[r] = Run(more[r - 1], more[r])
              /\ \A r \in 0 .. n + 1 : more[r] <= L
  BY <1>1, RecordGoesOut
<1> DEFINE full == Prefix + Sealing + Len(chunk)
           part == First(cells, k)
<1>4. full \in Nat \ {0} /\ CellsOf(part, n + 1, full) /\ Len(part) = k /\ k < full
  <2>1. n + 1 \in Nat /\ chunk \in Seq(Nat)
    BY <1>3
  <2>2. full \in Nat \ {0} /\ Len(cells) = full
    BY <2>1, SealedCells
  <2>3. k \in 0 .. full - 1 /\ k < full
    BY <2>2
  <2> QED
    BY <2>1, <2>2, <2>3, SealedCells
<1>5. wire' = wire \o part /\ (writer' = "failed" => Len(part) < full)
  BY <1>2, <1>4
<1> HIDE DEF chunk, cells, part
<1>6. wire' \in Seq(Cell) /\ (status' = "open" => Received(more, cur)')
  BY <1>1, <1>3, <1>4, <1>5, RecordReceived
<1>7. /\ accepted' \in Nat /\ accepted' <= L /\ accepted <= accepted' /\ accepted' = more[n]
      /\ accepted \in Nat
  <2>1. accepted' = ends[n] /\ ends[n] = more[n]
    BY <1>1, <1>3
  <2>2. ends[n] \in Nat /\ L \in Nat /\ m \in Nat /\ accepted <= ends[n] /\ ends[n] <= m /\ m <= L
    BY <1>3
  <2> QED
    BY <2>1, <2>2 DEF SealedTypeOK
<1>8. SealedTypeOK'
  BY <1>1, <1>3, <1>6, <1>7 DEF SealedTypeOK
<1>9. Sent(more)'
  <2>1. Len(offered') = L /\ Len(pending') = 0 /\ Len(offered') - Len(pending') = L
    BY <1>1, <1>3
  <2>2. pending' = Run(Len(offered') - Len(pending'), Len(offered'))
    <3>1. L \in Nat /\ L <= L /\ pending' = <<>>
      BY <1>1, <1>3
    <3>2. Run(L, L) = <<>>
      BY <3>1, RunIs
    <3> QED
      BY <2>1, <3>1, <3>2
  <2>3. Len(pending') <= Len(offered') /\ more[0] = 0
    BY <1>3, <2>1 DEF SealedWith, Sent
  <2>4. offered' = Run(0, Len(offered'))
    BY <1>1 DEF SealedWith, Sent
  <2>5. Len(records') > 0 /\ accepted' = more[Len(records') - 1]
    BY <1>3, <1>7
  <2> HIDE DEF n, L
  <2>6. /\ more \in [0 .. Len(records') -> Nat]
        /\ \A r \in 1 .. Len(records') :
              more[r - 1] <= more[r] /\ records'[r] = Run(more[r - 1], more[r])
        /\ \A r \in 0 .. Len(records') : more[r] <= Len(offered')
    BY <1>3, <2>1
  <2> QED
    BY <1>1, <2>2, <2>3, <2>4, <2>5, <2>6 DEF Sent
<1>10. cur \in 0 .. Len(records')
  BY <1>3 DEF SealedWith
<1>11. SealedWith(more, cur)'
  BY <1>6, <1>9, <1>10 DEF SealedWith
<1>12. S!Accept
  <2>1. accepted' \in accepted .. L
    BY <1>3, <1>7
  <2> QED
    BY <1>1, <2>1 DEF S!Accept
<1> QED
  BY <1>8, <1>11, <1>12 DEF SealedInv, StreamStep, S!StreamNext

\* The writer closes when no Write is in progress.
LEMMA WriterClosesKeeps ==
    ASSUME SealedTypeOK, NEW ends, NEW cur, SealedWith(ends, cur), WriterCloses
    PROVE  SealedInv' /\ StreamStep
<1>1. /\ writer # "writing" /\ closed' = TRUE
      /\ UNCHANGED <<offered, accepted, delivered, status, pending, writer, records, wire,
                     hdr, frameLen, frame, readBuf, want>>
  BY DEF WriterCloses, framing
<1>2. SealedTypeOK'
  BY <1>1 DEF SealedTypeOK
<1>3. Sent(ends)'
  BY <1>1 DEF SealedWith, Sent
<1>4. status' = "open" => Received(ends, cur)'
  BY <1>1, SameReceived DEF SealedWith
<1>5. SealedWith(ends, cur)'
  BY <1>1, <1>3, <1>4 DEF SealedWith
<1> QED
  BY <1>1, <1>2, <1>5 DEF SealedInv, StreamStep, S!StreamNext, S!CloseSide

-----------------------------------------------------------------------------
(* The encrypted leg, reading.                                             *)

LEMMA SameSent ==
    ASSUME NEW ends, Sent(ends), UNCHANGED <<offered, accepted, closed, pending, writer, records>>
    PROVE  Sent(ends)'
BY DEF Sent

LEMMA SameFraming ==
    ASSUME NEW cur, Gathered(cur), OnTheWire(cur),
           UNCHANGED <<writer, records, wire, hdr, frameLen, frame>>
    PROVE  Gathered(cur)' /\ OnTheWire(cur)'
<1>1. Gathered(cur)'
  BY DEF Gathered
<1>2. Expected(cur)' = Expected(cur) /\ Unwritten(cur)' = Unwritten(cur)
  BY DEF Expected, Unwritten
<1> QED
  BY <1>1, <1>2 DEF OnTheWire

\* Handing out the first bytes of what follows the bytes delivered.
LEMMA HandOut ==
    ASSUME NEW D \in Nat, NEW E \in Nat, NEW L \in Nat, D <= E, E <= L, NEW n \in Nat,
           offered = Run(0, L), delivered = Run(0, D)
    PROVE  \E m \in D .. E :
              /\ delivered \o First(Run(D, E), n) = Run(0, m) /\ Len(Run(0, m)) = m
              /\ Rest(Run(D, E), n) = Run(m, E)
              /\ SubSeq(offered, 1, m) = Run(0, m) /\ m \in Nat /\ m <= E
<1>1. PICK m \in D .. E : First(Run(D, E), n) = Run(D, m) /\ Rest(Run(D, E), n) = Run(m, E)
  <2>1. \E m \in D .. E :
              /\ First(Run(D, E), n) = Run(D, m) /\ Rest(Run(D, E), n) = Run(m, E)
              /\ Rest(Run(D, E), Len(First(Run(D, E), n))) = Run(m, E)
              /\ n > 0 /\ D < E => D < m
    BY RunSplit
  <2> QED
    BY <2>1, Zenon
<1>2. m \in Nat /\ 0 \in Nat /\ 0 <= D /\ D <= m /\ m <= E /\ 0 <= m /\ m <= L
  BY <1>1
<1>3. Run(0, D) \o Run(D, m) = Run(0, m)
  BY <1>2, RunsMeet, Zenon
<1>4. SubSeq(Run(0, L), 1, m) = Run(0, m)
  BY <1>2, RunStart
<1>5. Len(Run(0, m)) = m
  BY <1>2, RunIs
<1> QED
  BY <1>1, <1>2, <1>3, <1>4, <1>5

\* Where the reader stands.
LEMMA Standing ==
    ASSUME SealedTypeOK, NEW ends, NEW cur, SealedWith(ends, cur), status = "open"
    PROVE  /\ Len(records) \in Nat /\ cur \in 0 .. Len(records) /\ cur \in Nat
           /\ ends[cur] \in Nat /\ ends[cur] <= Len(offered) /\ Len(offered) \in Nat
           /\ offered = Run(0, Len(offered)) /\ delivered = Run(0, Len(delivered))
           /\ Len(delivered) \in Nat /\ Len(delivered) <= ends[cur]
           /\ readBuf = Run(Len(delivered), ends[cur])
           /\ want > 0 => Len(delivered) = ends[cur]
           /\ Gathered(cur) /\ OnTheWire(cur)
<1>1. Len(records) \in Nat /\ Len(offered) \in Nat /\ cur \in 0 .. Len(records)
  BY LenProperties DEF SealedTypeOK, SealedWith
<1>2. /\ ends \in [0 .. Len(records) -> Nat] /\ \A r \in 0 .. Len(records) : ends[r] <= Len(offered)
      /\ offered = Run(0, Len(offered))
  BY DEF SealedWith, Sent
<1>3. ends[cur] \in Nat /\ ends[cur] <= Len(offered)
  BY <1>1, <1>2
<1>4. /\ delivered = Run(0, Len(delivered)) /\ Len(delivered) <= ends[cur]
      /\ readBuf = Run(Len(delivered), ends[cur]) /\ (want > 0 => readBuf = <<>>)
      /\ Gathered(cur) /\ OnTheWire(cur)
  BY DEF SealedWith, Received
<1>5. Len(delivered) \in Nat
  BY <1>3, <1>4, RunIs
<1>6. want > 0 => Len(delivered) = ends[cur]
  BY <1>3, <1>4, <1>5, RunIs
<1> QED
  BY <1>1, <1>2, <1>3, <1>4, <1>5, <1>6

\* What was kept of the last record is handed out before the next is read.
LEMMA CallReadKeeps ==
    ASSUME SealedTypeOK, NEW ends, NEW cur, SealedWith(ends, cur),
           NEW n \in BufferSizes, CallRead(n)
    PROVE  SealedInv' /\ StreamStep
<1>1. /\ status = "open" /\ want = 0 /\ n \in Nat \ {0}
      /\ UNCHANGED <<offered, accepted, closed, pending, writer, records, status, wire,
                     hdr, frameLen, frame>>
  BY WrapConnAssumption DEF CallRead, sending, framing
<1> DEFINE D == Len(delivered)
           E == ends[cur]
           L == Len(offered)
<1>2. /\ cur \in 0 .. Len(records) /\ D \in Nat /\ E \in Nat /\ L \in Nat /\ D <= E /\ E <= L
      /\ offered = Run(0, L) /\ delivered = Run(0, D) /\ readBuf = Run(D, E)
      /\ Gathered(cur) /\ OnTheWire(cur)
  BY <1>1, Standing
<1>3. Sent(ends)' /\ Gathered(cur)' /\ OnTheWire(cur)' /\ cur \in 0 .. Len(records')
  BY <1>1, <1>2, SameSent, SameFraming DEF SealedWith
<1>4. CASE readBuf # <<>>
  <2>1. delivered' = delivered \o First(Run(D, E), n) /\ readBuf' = Rest(Run(D, E), n) /\ want' = want
    BY <1>2, <1>4 DEF CallRead
  <2> HIDE DEF D, E, L
  <2>2. PICK m \in D .. E :
              /\ delivered \o First(Run(D, E), n) = Run(0, m) /\ Len(Run(0, m)) = m
              /\ Rest(Run(D, E), n) = Run(m, E)
              /\ SubSeq(offered, 1, m) = Run(0, m) /\ m \in Nat /\ m <= E
    BY <1>1, <1>2, HandOut
  <2>3. delivered' = Run(0, m) /\ Len(delivered') = m /\ readBuf' = Run(m, E)
    BY <2>1, <2>2
  <2>4. Received(ends, cur)'
    BY <1>1, <1>3, <2>1, <2>2, <2>3 DEF Received, E
  <2>5. S!Deliver
    <3>1. m \in Len(delivered) .. Len(offered)
      BY <1>2, <2>2 DEF D, L
    <3> QED
      BY <1>1, <2>2, <2>3, <3>1 DEF S!Deliver
  <2>6. SealedTypeOK' /\ SealedWith(ends, cur)'
    BY <1>1, <1>3, <2>1, <2>4 DEF SealedTypeOK, SealedWith
  <2> QED
    BY <2>5, <2>6 DEF SealedInv, StreamStep, S!StreamNext
<1>5. CASE readBuf = <<>>
  <2>1. want' = n /\ UNCHANGED <<delivered, readBuf>>
    BY <1>5 DEF CallRead
  <2>2. Received(ends, cur)'
    BY <1>2, <1>3, <1>5, <2>1 DEF Received
  <2>3. SealedTypeOK' /\ SealedWith(ends, cur)'
    BY <1>1, <1>3, <2>1, <2>2 DEF SealedTypeOK, SealedWith
  <2> QED
    BY <1>1, <2>1, <2>3 DEF SealedInv, StreamStep
<1> QED
  BY <1>4, <1>5

\* A stream that is over keeps nothing of the reader's.
LEMMA OverKeeps ==
    ASSUME SealedTypeOK, NEW ends, NEW cur, SealedWith(ends, cur), status' # "open", want' = 0,
           wire' \in Seq(Cell), UNCHANGED <<offered, accepted, closed, pending, writer, records>>
    PROVE  SealedInv'
<1>1. Sent(ends)' /\ cur \in 0 .. Len(records')
  BY SameSent DEF SealedWith
<1> QED
  BY <1>1 DEF SealedInv, SealedTypeOK, SealedWith

\* A step of the reader the user does not see.
LEMMA HiddenStep ==
    ASSUME SealedTypeOK, NEW ends, NEW cur, SealedWith(ends, cur), status = "open",
           Gathered(cur)', OnTheWire(cur)', wire' \in Seq(Cell), want' \in {0, want},
           UNCHANGED <<offered, accepted, closed, pending, writer, records, delivered, status,
                       readBuf>>
    PROVE  SealedInv' /\ StreamStep
<1>1. Sent(ends)' /\ cur \in 0 .. Len(records')
  BY SameSent DEF SealedWith
<1>2. want' > 0 => want > 0
  BY DEF SealedTypeOK
<1>3. Received(ends, cur)'
  BY <1>2 DEF SealedWith, Received
<1>4. SealedTypeOK' /\ SealedWith(ends, cur)'
  BY <1>1, <1>3 DEF SealedTypeOK, SealedWith
<1> QED
  BY <1>4 DEF SealedInv, StreamStep

LEMMA DamageKeeps ==
    ASSUME SealedTypeOK, NEW ends, NEW cur, SealedWith(ends, cur), Damage
    PROVE  SealedInv' /\ StreamStep
<1>1. UNCHANGED <<offered, accepted, closed, pending, writer, records, delivered, status,
                  hdr, frameLen, frame, readBuf, want>>
  BY DEF Damage, sending, framing
<1>2. PICK k \in DOMAIN wire : wire' = [wire EXCEPT ![k].intact = FALSE]
  BY DEF Damage
<1>3. wire' \in Seq(Cell)
  <2>1. wire[k] \in Cell /\ k \in 1 .. Len(wire)
    BY ElementOfSeq, LenProperties DEF SealedTypeOK
  <2>2. [wire[k] EXCEPT !.intact = FALSE] \in Cell
    BY <2>1 DEF Cell
  <2>3. wire' = [wire EXCEPT ![k] = [wire[k] EXCEPT !.intact = FALSE]]
    BY <1>2
  <2> HIDE DEF Cell
  <2> QED
    BY <2>1, <2>2, <2>3, ExceptSeq DEF SealedTypeOK
<1>4. CASE status = "open"
  <2>1. OnTheWire(cur)'
    BY <1>1, <1>2, <1>4, Standing, WireMarked DEF SealedTypeOK
  <2>2. Gathered(cur)'
    BY <1>1, <1>4, Standing DEF Gathered
  <2> QED
    BY <1>1, <1>3, <1>4, <2>1, <2>2, HiddenStep
<1>5. CASE status # "open"
  <2>1. want' = 0 /\ status' # "open"
    BY <1>1, <1>5 DEF SealedTypeOK
  <2> QED
    BY <1>1, <1>3, <2>1, OverKeeps DEF StreamStep
<1> QED
  BY <1>4, <1>5

LEMMA ResetKeeps ==
    ASSUME SealedTypeOK, NEW ends, NEW cur, SealedWith(ends, cur), Reset
    PROVE  SealedInv' /\ StreamStep
<1>1. /\ want > 0 /\ want' = 0 /\ wire' = <<>> /\ status' = "broken"
      /\ UNCHANGED <<offered, accepted, closed, pending, writer, records, delivered, readBuf>>
  BY DEF Reset, ReadingPrefix, ReadingBody, sending
<1>2. status = "open"
  BY <1>1 DEF SealedTypeOK
<1>3. SealedInv'
  <2>1. wire' \in Seq(Cell)
    BY <1>1
  <2> QED
    BY <1>1, <2>1, OverKeeps
<1> QED
  BY <1>1, <1>2, <1>3 DEF StreamStep, S!StreamNext, S!Break

\* The first cell on the wire is the one the reader expects.
LEMMA NextCell ==
    ASSUME wire \in Seq(Cell), wire # <<>>, NEW cur \in Nat, OnTheWire(cur),
           records \in Seq(Seq(Nat))
    PROVE  /\ Head(wire) = wire[1] /\ wire[1] \in Cell /\ OfRecord(records, wire[1])
           /\ wire[1].rec = Expected(cur)[1] /\ wire[1].pos = Expected(cur)[2]
<1>1. 1 \in 1 .. Len(wire) /\ wire[1] \in Cell
  BY LenProperties, EmptySeq, ElementOfSeq
<1>2. <<wire[1].rec, wire[1].pos>> = Expected(cur) /\ OfRecord(records, wire[1])
  BY <1>1 DEF OnTheWire
<1>3. Head(wire) = wire[1]
  BY HeadTailProperties
<1> QED
  BY <1>1, <1>2, <1>3

\* A prefix is gathered cell by cell, over as many calls as it takes.
LEMMA ReadPrefixKeeps ==
    ASSUME SealedTypeOK, NEW ends, NEW cur, SealedWith(ends, cur), ReadPrefix
    PROVE  SealedInv' /\ StreamStep
<1>1. /\ want > 0 /\ Len(hdr) < Prefix /\ wire # <<>>
      /\ hdr' = Append(hdr, Head(wire)) /\ wire' = Tail(wire)
      /\ UNCHANGED <<offered, accepted, closed, pending, writer, records, delivered, status,
                     frameLen, frame, readBuf, want>>
  BY DEF ReadPrefix, ReadingPrefix, sending
<1>2. status = "open"
  BY <1>1 DEF SealedTypeOK
<1>3. /\ cur \in Nat /\ Gathered(cur) /\ OnTheWire(cur) /\ wire \in Seq(Cell)
      /\ records \in Seq(Seq(Nat))
  BY <1>2, Standing DEF SealedTypeOK
<1> DEFINE h == Len(hdr)
<1>4. h \in Nat /\ hdr \in Seq(Cell) /\ Prefix \in Nat /\ Sealing \in Nat \ {0} /\ h < Prefix
  BY <1>1, <1>3, LenProperties, WrapConnAssumption DEF Gathered
<1>5. frameLen = 0 /\ frame = <<>>
  BY <1>3, <1>4 DEF Gathered
<1>6. Expected(cur) = <<cur + 1, h + 1>>
  BY <1>5 DEF Expected
<1> HIDE DEF h
<1>7. /\ Head(wire) = wire[1] /\ wire[1] \in Cell /\ OfRecord(records, wire[1])
      /\ wire[1].rec = cur + 1 /\ wire[1].pos = h + 1
  BY <1>1, <1>3, <1>6, NextCell
<1>8. hdr' \in Seq(Cell) /\ Len(hdr') = h + 1 /\ hdr' # <<>>
  BY <1>1, <1>4, <1>7, AppendProperties DEF h
<1>9. cur < Len(records) /\ Len(records[cur + 1]) \in Nat
  <2>1. cur + 1 \in 1 .. Len(records) /\ Len(records) \in Nat
    BY <1>3, <1>7, LenProperties DEF OfRecord
  <2>2. records[cur + 1] \in Seq(Nat)
    BY <1>3, <2>1, ElementOfSeq
  <2> QED
    BY <1>3, <2>1, <2>2, LenProperties
<1>10. After(records, wire[1]) = <<cur + 1, h + 2>>
  <2> DEFINE q == Len(records[cur + 1])
  <2>1. h + 1 < Prefix + Sealing + q /\ h + 1 + 1 = h + 2
    <3>1. q \in Nat
      BY <1>9
    <3> HIDE DEF q
    <3> QED
      BY <1>4, <3>1
  <2> QED
    BY <1>7, <2>1 DEF After, Size
<1>11. Expected(cur)' = After(records, wire[1])
  <2>1. Len(hdr') + 1 = h + 2 /\ frame' = <<>>
    BY <1>1, <1>4, <1>5, <1>8
  <2> QED
    BY <1>10, <2>1 DEF Expected
<1>12. wire' \in Seq(Cell) /\ OnTheWire(cur)'
  BY <1>1, <1>3, <1>11, WireShrinks
<1>13. Gathered(cur)'
  <2>1. Len(hdr') <= Prefix /\ frameLen' = 0 /\ frame' = <<>> /\ cur < Len(records')
    BY <1>1, <1>4, <1>5, <1>8, <1>9
  <2> QED
    BY <1>8, <2>1 DEF Gathered
<1> QED
  BY <1>1, <1>2, <1>12, <1>13, HiddenStep

\* A stream given up is a broken one.
LEMMA BreakKeeps ==
    ASSUME SealedTypeOK, NEW ends, NEW cur, SealedWith(ends, cur), want > 0,
           NEW counted, Fail("broken", counted), UNCHANGED wire
    PROVE  SealedInv' /\ StreamStep
<1>1. /\ want' = 0 /\ status' = "broken"
      /\ UNCHANGED <<offered, accepted, closed, pending, writer, records, delivered, readBuf>>
  BY DEF Fail, sending
<1>2. status = "open" /\ wire' \in Seq(Cell)
  BY DEF SealedTypeOK
<1>3. SealedInv'
  BY <1>1, <1>2, OverKeeps
<1> QED
  BY <1>1, <1>2, <1>3 DEF StreamStep, S!StreamNext, S!Break

\* A deadline leaves the framing as it is, or the caller gives the stream up.
LEMMA TimeoutKeeps ==
    ASSUME SealedTypeOK, NEW ends, NEW cur, SealedWith(ends, cur), Timeout
    PROVE  SealedInv' /\ StreamStep
<1>1. /\ want > 0 /\ want' = 0 /\ (UNCHANGED status \/ status' = "broken")
      /\ UNCHANGED <<offered, accepted, closed, pending, writer, records, delivered, wire,
                     hdr, frameLen, frame, readBuf>>
  BY DEF Timeout, ReadingPrefix, ReadingBody, sending, framing
<1>2. status = "open" /\ wire' \in Seq(Cell)
  BY <1>1 DEF SealedTypeOK
<1>3. CASE UNCHANGED status
  <2>1. Gathered(cur)' /\ OnTheWire(cur)'
    BY <1>1, <1>2, <1>3, Standing, SameFraming
  <2> QED
    BY <1>1, <1>2, <1>3, <2>1, HiddenStep DEF SealedTypeOK
<1>4. CASE status' = "broken"
  <2>1. SealedInv'
    BY <1>1, <1>2, <1>4, OverKeeps
  <2> QED
    BY <1>1, <1>2, <1>4, <2>1 DEF StreamStep, S!StreamNext, S!Break
<1> QED
  BY <1>1, <1>3, <1>4

\* The body is gathered behind its prefix.
LEMMA ParseLengthKeeps ==
    ASSUME SealedTypeOK, NEW ends, NEW cur, SealedWith(ends, cur), ParseLength
    PROVE  SealedInv' /\ StreamStep
<1>1. want > 0 /\ Len(hdr) = Prefix /\ frameLen = 0 /\ wire' = wire
  BY DEF ParseLength
<1>2. PICK n \in Lengths(hdr) :
        \/ /\ LengthInBounds(n) /\ frameLen' = n /\ frame' = <<>>
           /\ UNCHANGED <<sending, delivered, status, hdr, readBuf, want, tamperCount, fault>>
        \/ ~LengthInBounds(n) /\ Fail("broken", 1)
  BY DEF ParseLength
<1>3. CASE Fail("broken", 1)
  BY <1>1, <1>3, BreakKeeps
<1>4. CASE /\ LengthInBounds(n) /\ frameLen' = n /\ frame' = <<>>
           /\ UNCHANGED <<sending, delivered, status, hdr, readBuf, want, tamperCount, fault>>
  <2>1. /\ status = "open"
        /\ UNCHANGED <<offered, accepted, closed, pending, writer, records, delivered, status, hdr,
                       readBuf, want>>
    BY <1>1, <1>4 DEF SealedTypeOK, sending
  <2>2. Gathered(cur) /\ OnTheWire(cur) /\ records \in Seq(Seq(Nat)) /\ wire \in Seq(Cell)
    BY <2>1, Standing DEF SealedTypeOK
  <2>3. frame = <<>> /\ frame' = frame
    BY <1>1, <1>4, <2>2 DEF Gathered
  <2>4. n \in Nat /\ n > 0
    <3>1. n \in Nat
      <4>1. CASE \E r \in DOMAIN records : n = Sealing + Len(records[r])
        BY <2>2, <4>1, WrapConnAssumption, ElementOfSeq, LenProperties
      <4>2. CASE n \in 0 .. MaxRecord + 1
        BY <4>2, WrapConnAssumption DEF MaxRecord
      <4> QED
        BY <1>2, <4>1, <4>2 DEF Lengths
    <3> QED
      BY <1>4, <3>1, WrapConnAssumption DEF LengthInBounds
  <2>5. Gathered(cur)'
    BY <1>1, <1>4, <2>1, <2>2, <2>3, <2>4 DEF Gathered
  <2>6. Expected(cur)' = Expected(cur) /\ Unwritten(cur)' = Unwritten(cur)
    BY <1>1, <2>1, <2>3 DEF Expected, Unwritten
  <2>7. OnTheWire(cur)'
    BY <1>1, <2>1, <2>2, <2>6 DEF OnTheWire
  <2> QED
    BY <1>1, <2>1, <2>2, <2>5, <2>7, HiddenStep
<1> QED
  BY <1>2, <1>3, <1>4

LEMMA ReadBodyKeeps ==
    ASSUME SealedTypeOK, NEW ends, NEW cur, SealedWith(ends, cur), ReadBody
    PROVE  SealedInv' /\ StreamStep
<1>1. /\ want > 0 /\ frameLen > 0 /\ wire # <<>>
      /\ frame' = Append(frame, Head(wire)) /\ wire' = Tail(wire)
      /\ UNCHANGED <<offered, accepted, closed, pending, writer, records, delivered, status, hdr,
                     frameLen, readBuf, want>>
  BY DEF ReadBody, ReadingBody, sending
<1>2. status = "open"
  BY <1>1 DEF SealedTypeOK
<1>3. /\ cur \in Nat /\ Gathered(cur) /\ OnTheWire(cur) /\ wire \in Seq(Cell)
      /\ records \in Seq(Seq(Nat))
  BY <1>2, Standing DEF SealedTypeOK
<1> DEFINE f == Len(frame)
<1>4. frame \in Seq(Cell) /\ f \in Nat /\ Len(hdr) = Prefix
  BY <1>1, <1>3, LenProperties DEF Gathered
<1>5. /\ Head(wire) = wire[1] /\ wire[1] \in Cell /\ OfRecord(records, wire[1])
      /\ wire[1].rec = Expected(cur)[1] /\ wire[1].pos = Expected(cur)[2]
  BY <1>1, <1>3, NextCell
<1>6. /\ frame' \in Seq(Cell) /\ Len(frame') = f + 1 /\ frame' # <<>>
      /\ frame'[f + 1] = wire[1] /\ \A i \in 1 .. f : frame'[i] = frame[i]
  BY <1>1, <1>4, <1>5, AppendProperties
<1>7. Expected(cur)' = After(records, wire[1])
  BY <1>1, <1>6 DEF Expected
<1>8. wire' \in Seq(Cell) /\ OnTheWire(cur)'
  BY <1>1, <1>3, <1>7, WireShrinks
<1>9. frame'[1].rec = cur + 1 /\ frame'[1].pos = Prefix + 1
  <2>1. CASE frame = <<>>
    <3>1. f + 1 = 1
      BY <2>1
    <3>2. Expected(cur) = <<cur + 1, Prefix + 1>>
      BY <1>4, <2>1 DEF Expected
    <3> QED
      BY <1>5, <1>6, <3>1, <3>2
  <2>2. CASE frame # <<>>
    <3>1. 1 \in 1 .. f
      BY <1>4, <2>2, EmptySeq
    <3> QED
      BY <1>3, <1>6, <2>2, <3>1 DEF Gathered
  <2> QED
    BY <2>1, <2>2
<1>10. Gathered(cur)'
  <2>1. OfRecord(records', frame'[Len(frame')])
    BY <1>1, <1>5, <1>6
  <2>2. /\ hdr' \in Seq(Cell) /\ Len(hdr') <= Prefix /\ frameLen' \in Nat /\ Len(hdr') = Prefix
        /\ frameLen' # 0 /\ (hdr' # <<>> => cur < Len(records'))
    BY <1>1, <1>3, <1>4 DEF Gathered
  <2> QED
    BY <1>6, <1>9, <2>1, <2>2 DEF Gathered
<1> QED
  BY <1>1, <1>2, <1>8, <1>10, HiddenStep

\* The record that opens is the one that follows those opened.
LEMMA OpenedIsNext ==
    ASSUME records \in Seq(Seq(Nat)), NEW cur \in Nat, Gathered(cur), OnTheWire(cur),
           frame # <<>>, NEW r \in Openable(frame)
    PROVE  r = cur + 1 /\ r \in 1 .. Len(records) /\ Expected(cur) = <<r + 1, 1>>
<1> DEFINE q == Sealing + Len(records[r])
<1>1. r \in 1 .. Len(records) /\ Len(records) \in Nat
  BY LenProperties DEF Openable
<1>2. q \in Nat \ {0} /\ Prefix \in Nat
  <2>1. records[r] \in Seq(Nat)
    BY <1>1, ElementOfSeq
  <2>2. Len(records[r]) \in Nat
    BY <2>1, LenProperties
  <2> DEFINE v == Len(records[r])
  <2> HIDE DEF v
  <2> QED
    BY <2>2, WrapConnAssumption DEF v
<1>3. frame = [i \in 1 .. q |-> [rec |-> r, pos |-> Prefix + i, intact |-> TRUE]]
  BY DEF Openable
<1>4. Size(records, r) = Prefix + q
  <2>1. Len(records[r]) \in Nat
    BY <1>1, ElementOfSeq, LenProperties
  <2> DEFINE v == Len(records[r])
  <2>2. v \in Nat /\ Size(records, r) = Prefix + Sealing + v /\ q = Sealing + v
    BY <2>1 DEF Size
  <2> HIDE DEF v, q
  <2> QED
    BY <2>2, WrapConnAssumption
<1> HIDE DEF q
<1>5. 1 \in 1 .. q /\ q \in 1 .. q
  BY <1>2
<1>6. frame[1].rec = r /\ frame[q].rec = r /\ frame[q].pos = Prefix + q
  BY <1>3, <1>5
<1>7. Len(frame) = q
  BY <1>2, <1>3
<1>8. r = cur + 1
  BY <1>6 DEF Gathered
<1>9. After(records, frame[q]) = <<r + 1, 1>>
  <2>1. ~(Prefix + q < Prefix + q)
    BY <1>2
  <2> QED
    BY <1>4, <1>6, <2>1 DEF After
<1> QED
  BY <1>1, <1>7, <1>8, <1>9 DEF Expected

\* A record that opens is delivered or kept whole, right behind the last one.
LEMMA OpenKeeps ==
    ASSUME SealedTypeOK, NEW ends, NEW cur, SealedWith(ends, cur), Open
    PROVE  SealedInv' /\ StreamStep
<1>1. want > 0 /\ frameLen > 0 /\ Len(frame) = frameLen /\ wire' = wire
  BY DEF Open
<1>2. status = "open" /\ want \in Nat
  BY <1>1 DEF SealedTypeOK
<1>3. CASE Openable(frame) = {}
  BY <1>1, <1>3, BreakKeeps DEF Open
<1>4. CASE Openable(frame) # {}
  <2>1. PICK r \in Openable(frame) :
                /\ delivered' = delivered \o First(records[r], want)
                /\ readBuf' = Rest(records[r], want)
                /\ resetFraming
                /\ want' = 0
                /\ UNCHANGED <<sending, status, tamperCount, fault>>
    BY <1>4 DEF Open
  <2>2. /\ hdr' = <<>> /\ frameLen' = 0 /\ frame' = <<>>
        /\ UNCHANGED <<offered, accepted, closed, pending, writer, records, status>>
    BY <2>1 DEF resetFraming, sending
  <2> DEFINE D == Len(delivered)
             E == ends[r]
             L == Len(offered)
  <2>3. /\ cur \in Nat /\ D \in Nat /\ D = ends[cur] /\ Len(records) \in Nat
        /\ L \in Nat /\ offered = Run(0, L) /\ delivered = Run(0, D)
        /\ Gathered(cur) /\ OnTheWire(cur) /\ records \in Seq(Seq(Nat))
    BY <1>1, <1>2, Standing DEF SealedTypeOK
  <2>4. r = cur + 1 /\ r \in 1 .. Len(records) /\ Expected(cur) = <<r + 1, 1>>
    <3>1. frame # <<>>
      BY <1>1
    <3> QED
      BY <2>3, <3>1, OpenedIsNext
  <2>5. E \in Nat /\ D <= E /\ E <= L /\ records[r] = Run(D, E)
    <3>1. /\ ends \in [0 .. Len(records) -> Nat]
          /\ \A s \in 1 .. Len(records) :
                ends[s - 1] <= ends[s] /\ records[s] = Run(ends[s - 1], ends[s])
          /\ \A s \in 0 .. Len(records) : ends[s] <= L
      BY DEF SealedWith, Sent
    <3>2. r - 1 = cur /\ r \in 0 .. Len(records)
      BY <2>3, <2>4
    <3>3. ends[r] \in Nat /\ ends[r] <= L
      BY <3>1, <3>2
    <3>4. ends[r - 1] <= ends[r] /\ records[r] = Run(ends[r - 1], ends[r])
      BY <2>4, <3>1
    <3> QED
      BY <2>3, <3>2, <3>3, <3>4
  <2> HIDE DEF D, E, L
  <2>6. PICK m \in D .. E :
              /\ delivered \o First(Run(D, E), want) = Run(0, m) /\ Len(Run(0, m)) = m
              /\ Rest(Run(D, E), want) = Run(m, E)
              /\ SubSeq(offered, 1, m) = Run(0, m) /\ m \in Nat /\ m <= E
    <3>1. D \in Nat /\ E \in Nat /\ L \in Nat /\ D <= E /\ E <= L /\ want \in Nat
      BY <1>2, <2>3, <2>5
    <3>2. offered = Run(0, L) /\ delivered = Run(0, D)
      BY <2>3
    <3> QED
      BY <3>1, <3>2, HandOut
  <2>7. delivered' = Run(0, m) /\ Len(delivered') = m /\ readBuf' = Run(m, E)
    BY <2>1, <2>5, <2>6
  <2>8. Expected(r)' = Expected(cur)
    <3>1. Len(hdr') + 1 = 1
      BY <2>2
    <3> QED
      BY <2>2, <2>4, <3>1 DEF Expected
  <2>9. Unwritten(r)' = Unwritten(cur)
    BY <1>1, <2>2, <2>8 DEF Unwritten
  <2>10. OnTheWire(r)'
    BY <1>1, <2>2, <2>3, <2>8, <2>9 DEF OnTheWire
  <2>11. Gathered(r)'
    <3>1. hdr' \in Seq(Cell) /\ Len(hdr') <= Prefix /\ frame' \in Seq(Cell)
      BY <2>2, WrapConnAssumption
    <3> QED
      BY <2>2, <3>1 DEF Gathered
  <2>12. Received(ends, r)'
    BY <2>1, <2>6, <2>7, <2>10, <2>11 DEF Received, E
  <2>13. Sent(ends)' /\ r \in 0 .. Len(records')
    BY <2>2, <2>3, <2>4, SameSent DEF SealedWith
  <2>14. SealedTypeOK' /\ SealedWith(ends, r)'
    BY <1>1, <2>1, <2>2, <2>12, <2>13 DEF SealedTypeOK, SealedWith
  <2>15. S!Deliver
    <3>1. m \in Len(delivered) .. Len(offered)
      BY <2>3, <2>5, <2>6 DEF D, L
    <3> QED
      BY <1>2, <2>2, <2>6, <2>7, <3>1 DEF S!Deliver
  <2> QED
    BY <2>14, <2>15 DEF SealedInv, StreamStep, S!StreamNext
<1> QED
  BY <1>3, <1>4

\* The end is seen only after everything that was reported as written: a
\* prefix that is not there is that of a record never written, or of the one
\* that was cut off.
LEMMA EndOfStreamKeeps ==
    ASSUME SealedTypeOK, NEW ends, NEW cur, SealedWith(ends, cur), EndOfStream
    PROVE  SealedInv' /\ StreamStep
<1>1. want > 0 /\ wire = <<>> /\ closed /\ wire' = wire
  BY DEF EndOfStream, ReadingPrefix, ReadingBody
<1>2. status = "open"
  BY <1>1 DEF SealedTypeOK
<1>3. ASSUME NEW counted, Fail("broken", counted) PROVE SealedInv' /\ StreamStep
  BY <1>1, <1>3, BreakKeeps
<1>4. CASE ReadingPrefix /\ Fail("ended", 0)
  <2>1. /\ want' = 0 /\ status' = "ended"
        /\ UNCHANGED <<offered, accepted, closed, pending, writer, records, delivered, readBuf>>
    BY <1>4 DEF Fail, sending
  <2>2. /\ cur \in Nat /\ Gathered(cur) /\ OnTheWire(cur) /\ Len(records) \in Nat
        /\ Len(delivered) = ends[cur] /\ Len(delivered) \in Nat
    BY <1>1, <1>2, Standing
  <2>3. frame = <<>>
    <3>1. Len(hdr) # Prefix /\ frameLen \in Nat
      BY <1>4, <2>2, WrapConnAssumption, LenProperties DEF ReadingPrefix, Gathered
    <3> QED
      BY <2>2, <3>1 DEF Gathered
  <2>4. Unwritten(cur) = <<cur + 1, Len(hdr) + 1>>
    BY <1>1, <2>3 DEF Unwritten, Expected
  <2>5. accepted <= Len(delivered) /\ accepted \in Nat
    <3>1. CASE writer = "failed"
      <4>1. cur + 1 = Len(records)
        BY <2>2, <2>4, <3>1 DEF OnTheWire
      <4>2. accepted = ends[Len(records) - 1] /\ Len(records) - 1 = cur
        BY <2>2, <3>1, <4>1 DEF SealedWith, Sent
      <4>3. accepted = Len(delivered) /\ Len(delivered) \in Nat
        BY <2>2, <4>2, Zenon
      <4> QED
        BY <4>3
    <3>2. CASE writer # "failed"
      <4>1. cur + 1 = Len(records) + 1
        BY <2>2, <2>4, <3>2 DEF OnTheWire
      <4>2. cur = Len(records)
        BY <2>2, <4>1
      <4>3. accepted <= ends[Len(records)] /\ accepted \in Nat
        BY <3>2 DEF SealedWith, Sent, SealedTypeOK
      <4> QED
        BY <2>2, <4>2, <4>3, Zenon
    <3> QED
      BY <3>1, <3>2
  <2>6. S!End
    BY <1>1, <1>2, <2>1, <2>2, <2>5 DEF S!End
  <2>7. SealedInv'
    <3>1. wire' \in Seq(Cell)
      BY <1>1
    <3> QED
      BY <2>1, <3>1, OverKeeps
  <2> QED
    BY <2>6, <2>7 DEF StreamStep, S!StreamNext
<1> QED
  BY <1>3, <1>4 DEF EndOfStream

\* Every step of the encrypted leg is a step of a stream.
LEMMA SealedKeeps == SealedInv /\ WrapNext => SealedInv' /\ StreamStep
<1> SUFFICES ASSUME SealedInv, WrapNext PROVE SealedInv' /\ StreamStep
  OBVIOUS
<1>1. SealedTypeOK
  BY DEF SealedInv
<1>2. PICK ends, cur : SealedWith(ends, cur)
  BY DEF SealedInv
<1>3. CASE \E n \in WriteSizes : BeginWrite(n)
  BY <1>1, <1>2, <1>3, BeginWriteKeeps
<1>4. CASE WriteRecord \/ WriteFails \/ WriterCloses
  BY <1>1, <1>2, <1>4, WriteRecordKeeps, WriteFailsKeeps, WriterClosesKeeps
<1>5. CASE \E n \in BufferSizes : CallRead(n)
  BY <1>1, <1>2, <1>5, CallReadKeeps
<1>6. CASE ReadPrefix \/ ParseLength \/ ReadBody
  BY <1>1, <1>2, <1>6, ReadPrefixKeeps, ParseLengthKeeps, ReadBodyKeeps
<1>7. CASE Open \/ EndOfStream
  BY <1>1, <1>2, <1>7, OpenKeeps, EndOfStreamKeeps
<1>8. CASE Timeout \/ Damage \/ Reset
  BY <1>1, <1>2, <1>8, TimeoutKeeps, DamageKeeps, ResetKeeps
<1> QED
  BY <1>3, <1>4, <1>5, <1>6, <1>7, <1>8 DEF WrapNext, Write, Read

-----------------------------------------------------------------------------
(* The other kinds.                                                        *)

LEMMA RepliesCounted ==
    ASSUME NEW k \in {"connect", "socks5", "sse", "aes"}
    PROVE  Len(Replies(k)) \in Nat
BY DEF Replies

\* A step that moves the handshake and no byte.
LEMMA HandshakeStep ==
    ASSUME PlainInv, UNCHANGED <<wvars, kind>>, PlainSteps', pc' # "done" => Unread' = Unread,
           pc = "done" => pc' = "done"
    PROVE  PlainInv' /\ StreamStep
<1>1. UNCHANGED <<offered, accepted, closed, delivered, status, wire, readBuf>>
  BY DEF wvars
<1>2. Kept' = Kept
  BY <1>1 DEF Kept
<1>3. PlainData'
  BY <1>1, <1>2 DEF PlainInv, PlainData
<1>4. pc' # "done" => PlainWire'
  BY <1>1, <1>2 DEF PlainInv, PlainWire
<1> QED
  BY <1>1, <1>3, <1>4 DEF PlainInv, StreamStep

LEMMA DialKeeps ==
    ASSUME PlainInv, kind # "aes", Dial \/ Handshake \/ SendRequest
    PROVE  PlainInv' /\ StreamStep
<1>1. /\ UNCHANGED <<wvars, kind, step, answered, got>> /\ pc \in {"dial", "tls", "request"}
      /\ pc' \in {"tls", "request", "reply", "done"}
  BY DEF Dial, Handshake, SendRequest, Goto
<1>2. /\ step <= Len(Replies(kind)) /\ answered = step - 1 /\ got = 0 /\ step \in Nat
      /\ answered \in Nat /\ (answered < Len(Replies(kind)) => Len(offered) = 0)
  BY <1>1 DEF PlainInv, PlainSteps
<1>3. offered' = offered /\ Kept' = Kept
  BY <1>1 DEF wvars, Kept
<1>4. pc' = "reply" => Kept = 0
  <2>1. ASSUME pc' = "reply" PROVE answered < Len(Replies(kind))
    BY <1>2
  <2>2. pc' = "reply" => Len(offered) = 0
    BY <1>2, <2>1
  <2> QED
    BY <2>2 DEF PlainInv, PlainData, Kept
<1>5. PlainSteps'
  BY <1>1, <1>2, <1>3, <1>4 DEF PlainSteps, PlainInv
<1>6. Unread' = Unread
  <2>1. answered # step
    BY <1>2
  <2> QED
    BY <1>1, <2>1 DEF Unread
<1> QED
  BY <1>1, <1>5, <1>6, HandshakeStep

LEMMA ReplyReadKeeps ==
    ASSUME PlainInv, kind \in {"connect", "socks5", "sse"}, ReplyRead
    PROVE  PlainInv' /\ StreamStep
<1> DEFINE n == Len(Replies(kind))
<1>1. /\ pc = "reply" /\ got = ReplyLen /\ got' = 0 /\ UNCHANGED <<wvars, kind, answered>>
      /\ \/ pc' = "done" /\ step' = step
         \/ step' = step + 1 /\ pc' = IF step < n THEN "request"
                                      ELSE IF kind = "connect" THEN "hijack" ELSE "use"
  BY DEF ReplyRead, Goto
<1>2. n \in Nat /\ ReplyLen \in Nat \ {0}
  BY RepliesCounted, TransportAssumption
<1>3. /\ step <= n /\ answered = step /\ step \in Nat /\ answered \in Nat
      /\ answered < n => Len(offered) = 0
  BY <1>1, <1>2 DEF PlainInv, PlainSteps
<1>4. offered' = offered /\ n' = n
  BY <1>1 DEF wvars
<1>5. Unread = 0 /\ Unread' = 0
  BY <1>1, <1>2, <1>3 DEF Unread
<1> HIDE DEF n
<1>6. PlainSteps'
  <2>1. got' \in 0 .. ReplyLen /\ step' \in Nat /\ answered' \in Nat
    BY <1>1, <1>2, <1>3
  <2>2. answered' < n' => Len(offered') = 0
    BY <1>1, <1>3, <1>4
  <2>3. pc' = "request" => step' <= n' /\ answered' = step' - 1 /\ got' = 0
    BY <1>1, <1>2, <1>3, <1>4
  <2>4. pc' \in {"hijack", "use"} => answered' = n'
    BY <1>1, <1>2, <1>3, <1>4
  <2>5. pc' \in {"done", "request", "hijack", "use"}
    BY <1>1
  <2> QED
    BY <2>1, <2>2, <2>3, <2>4, <2>5 DEF PlainSteps, n
<1> QED
  BY <1>1, <1>5, <1>6, HandshakeStep

LEMMA OtherStepsKeep ==
    ASSUME PlainInv, ReplyFails \/ Hijack \/ UpEOF \/ UpFails \/ RelayEnds \/ AgentLeaves
    PROVE  PlainInv' /\ StreamStep
<1>1. /\ UNCHANGED <<wvars, kind, step, answered, got>>
      /\ pc' \in {pc, "done"} \/ (pc = "hijack" /\ pc' = "relay")
      /\ pc = "done" => pc' = "done"
  BY DEF ReplyFails, Hijack, UpEOF, UpFails, RelayEnds, AgentLeaves, Goto
<1>2. offered' = offered /\ Kept' = Kept
  BY <1>1 DEF wvars, Kept
<1>3. PlainSteps'
  BY <1>1, <1>2 DEF PlainSteps, PlainInv
<1>4. pc' # "done" => Unread' = Unread
  BY <1>1 DEF Unread
<1> QED
  BY <1>1, <1>3, <1>4, HandshakeStep

\* The far end answers only when all it sent before has been read.
LEMMA FarAnswersKeeps ==
    ASSUME PlainInv, kind \in {"connect", "socks5", "sse"}, FarAnswers
    PROVE  PlainInv' /\ StreamStep
<1>1. /\ pc = "reply" /\ answered < step /\ wire' = wire \o Answer /\ answered' = answered + 1
      /\ UNCHANGED <<offered, accepted, closed, delivered, status, readBuf, kind, pc, step, got>>
  BY DEF FarAnswers, sending
<1> DEFINE n == Len(Replies(kind))
<1>2. n \in Nat /\ ReplyLen \in Nat \ {0}
  BY RepliesCounted, TransportAssumption
<1>3. /\ answered = step - 1 /\ got = 0 /\ step <= n /\ step \in Nat
      /\ answered \in Nat /\ (answered < n => Len(offered) = 0)
  BY <1>1 DEF PlainInv, PlainSteps
<1>4. Len(offered) = 0 /\ Kept = 0 /\ Unread = 0 /\ wire = <<>>
  <2>1. Len(offered) = 0
    BY <1>2, <1>3
  <2>2. Kept = 0
    BY <2>1 DEF PlainInv, PlainData, Kept
  <2>3. Unread = 0
    BY <1>3 DEF Unread
  <2>4. Len(wire) = 0
    BY <1>1, <2>1, <2>2, <2>3 DEF PlainInv, PlainWire
  <2> QED
    BY <2>1, <2>2, <2>3, <2>4, EmptySeq DEF PlainInv, PlainData
<1>5. /\ Answer \in Seq(Cell) /\ Len(Answer) = ReplyLen /\ \A i \in 1 .. ReplyLen : Answer[i].pos = 0
  <2>1. Answer \in [1 .. ReplyLen -> Cell] /\ \A i \in 1 .. ReplyLen : Answer[i].pos = 0
    BY DEF Answer, Byte, Cell
  <2> QED
    BY <1>2, <2>1 DEF Answer
<1>6. wire' = Answer
  <2>1. <<>> \o Answer = Answer
    BY <1>5, ConcatEmptySeq
  <2> QED
    BY <1>1, <1>4, <2>1
<1>7. Kept' = 0 /\ Unread' = ReplyLen /\ answered' = step
  <2>1. answered' = step
    BY <1>1, <1>3
  <2> QED
    BY <1>1, <1>2, <1>3, <1>4, <2>1 DEF Kept, Unread
<1>8. PlainData'
  BY <1>1, <1>4, <1>5, <1>6, <1>7 DEF PlainInv, PlainData
<1>9. PlainSteps'
  BY <1>1, <1>2, <1>3, <1>4, <1>7 DEF PlainSteps
<1>10. PlainWire'
  BY <1>1, <1>2, <1>4, <1>5, <1>6, <1>7 DEF PlainWire
<1> QED
  BY <1>1, <1>8, <1>9, <1>10 DEF PlainInv, StreamStep

\* A byte of the far end goes behind everything that is on the wire.
LEMMA FarSendsKeeps ==
    ASSUME PlainInv, pc # "done", FarSends
    PROVE  PlainInv' /\ StreamStep
<1> DEFINE L == Len(offered)
           w == Len(wire)
           b == L + 1
           k == Kept
           u == Unread
<1>1. /\ answered = Len(Replies(kind)) /\ ~closed
      /\ offered' = Append(offered, b) /\ wire' = Append(wire, Byte(b)) /\ accepted' = accepted + 1
      /\ UNCHANGED <<closed, delivered, status, readBuf, kind, pc, step, answered, got>>
  BY DEF FarSends, HasAnswered, dvars
<1>2. /\ L \in Nat /\ offered = Run(0, L) /\ accepted = L /\ k \in Nat /\ k <= L
      /\ wire \in Seq(Cell) /\ w \in Nat
  BY LenProperties DEF PlainInv, PlainData, Kept
<1>3. u \in Nat
  BY TransportAssumption DEF PlainInv, PlainSteps, Unread
<1>4. k' = k /\ u' = u
  BY <1>1 DEF Kept, Unread
<1>5. w = u + L - k /\ \A i \in 1 .. w : wire[i].pos = IF i <= u THEN 0 ELSE k + i - u
  BY DEF PlainInv, PlainWire
<1>6. offered' = Run(0, b) /\ Len(offered') = b /\ SubSeq(offered', 1, L) = offered
  <2>1. offered \in Seq(Nat) /\ Len(offered) = L /\ \A i \in 1 .. L : offered[i] = i
    <3>1. 0 \in Nat /\ 0 <= L /\ L - 0 = L
      BY <1>2
    <3>2. Run(0, L) \in Seq(Nat) /\ \A i \in 1 .. L - 0 : Run(0, L)[i] = 0 + i
      BY <1>2, <3>1, RunIs
    <3> QED
      BY <1>2, <3>1, <3>2
  <2>2. /\ offered' \in Seq(Nat) /\ Len(offered') = L + 1 /\ offered'[L + 1] = b
        /\ \A i \in 1 .. L : offered'[i] = offered[i]
    <3>1. b \in Nat
      BY <1>2
    <3> QED
      BY <1>1, <2>1, <3>1, AppendProperties
  <2> HIDE DEF L
  <2>3. \A i \in 1 .. b - 0 : offered'[i] = 0 + i
    BY <1>2, <2>1, <2>2
  <2>4. b \in Nat /\ 0 \in Nat /\ 0 <= b /\ Len(offered') = b - 0
    BY <1>2, <2>2
  <2>5. offered' = Run(0, b)
    BY <2>2, <2>3, <2>4, CountsOn
  <2>6. SubSeq(offered', 1, L) = offered
    <3> DEFINE t == SubSeq(offered', 1, L)
    <3>1. \A i \in 1 .. L : offered'[i] \in Nat
      BY <2>1, <2>2, ElementOfSeq
    <3>2. /\ t \in Seq(Nat) /\ Len(t) = (IF 1 <= L THEN L - 1 + 1 ELSE 0)
          /\ \A i \in 1 .. L - 1 + 1 : t[i] = offered'[1 + i - 1]
      BY <1>2, <3>1, SubSeqProperties
    <3> HIDE DEF t
    <3>3. Len(t) = Len(offered) /\ \A i \in 1 .. Len(t) : t[i] = offered[i]
      BY <1>2, <2>1, <2>2, <3>2
    <3>4. t = offered
      BY <2>1, <3>2, <3>3, SeqEqual
    <3> QED
      BY <3>4 DEF t
  <2> QED
    BY <2>2, <2>5, <2>6
<1>7. /\ wire' \in Seq(Cell) /\ Len(wire') = w + 1 /\ wire'[w + 1] = Byte(b)
      /\ \A i \in 1 .. w : wire'[i] = wire[i]
  <2>1. Byte(b) \in Cell
    BY <1>2 DEF Byte, Cell
  <2> QED
    BY <1>1, <1>2, <2>1, AppendProperties
<1>8. Byte(b).pos = b
  BY DEF Byte
<1> HIDE DEF L, w, k, u
<1>9. PlainData'
  <2>1. accepted' = Len(offered') /\ offered' = Run(0, Len(offered')) /\ Len(offered') \in Nat
    BY <1>1, <1>2, <1>6
  <2>2. k' <= Len(offered')
    BY <1>2, <1>4, <1>6
  <2> QED
    BY <1>1, <1>4, <1>7, <2>1, <2>2 DEF PlainInv, PlainData, k
<1>10. PlainSteps'
  <2>1. ~(answered' < Len(Replies(kind')))
    BY <1>1 DEF PlainInv, PlainSteps
  <2>2. pc' = "reply" /\ got' < ReplyLen => k' = 0
    BY <1>1, <1>4 DEF PlainInv, PlainSteps, k
  <2> QED
    BY <1>1, <2>1, <2>2 DEF PlainInv, PlainSteps, k
<1>11. PlainWire'
  <2>1. Len(wire') = u' + Len(offered') - k'
    <3>1. L \in Nat /\ w \in Nat /\ k \in Nat /\ u \in Nat /\ w = u + L - k
      BY <1>2, <1>3, <1>5
    <3>2. w + 1 = u + (L + 1) - k
      BY <3>1
    <3> QED
      BY <1>4, <1>6, <1>7, <3>2
  <2>2. ASSUME NEW i \in 1 .. Len(wire')
        PROVE  wire'[i].pos = IF i <= u' THEN 0 ELSE k' + i - u'
    <3>1. CASE i \in 1 .. w
      BY <1>4, <1>5, <1>7, <3>1
    <3>2. CASE ~(i \in 1 .. w)
      <4>1. i = w + 1 /\ ~(i <= u) /\ k + i - u = b
        BY <1>2, <1>3, <1>5, <1>7, <3>2
      <4> QED
        BY <1>4, <1>7, <1>8, <4>1
    <3> QED
      BY <3>1, <3>2
  <2> QED
    BY <2>1, <2>2 DEF PlainWire, k, u
<1>12. S!Offer
  <2>1. Len(offered') >= L /\ accepted' \in accepted .. Len(offered')
    BY <1>1, <1>2, <1>6
  <2> QED
    BY <1>1, <1>6, <2>1 DEF S!Offer, L
<1> QED
  BY <1>9, <1>10, <1>11, <1>12 DEF PlainInv, StreamStep, S!StreamNext

LEMMA FarClosesKeeps ==
    ASSUME PlainInv, FarCloses
    PROVE  PlainInv' /\ StreamStep
<1>1. /\ closed' = TRUE
      /\ UNCHANGED <<offered, accepted, delivered, status, wire, readBuf, kind, pc, step, answered,
                     got>>
  BY DEF FarCloses, dvars
<1>2. Kept' = Kept /\ Unread' = Unread
  BY <1>1 DEF Kept, Unread
<1>3. PlainData' /\ PlainSteps' /\ (pc' # "done" => PlainWire')
  BY <1>1, <1>2 DEF PlainInv, PlainData, PlainSteps, PlainWire
<1> QED
  BY <1>1, <1>3 DEF PlainInv, StreamStep, S!StreamNext, S!CloseSide

LEMMA ReadingOverKeeps ==
    ASSUME PlainInv, NEW how \in {"ended", "broken"}, ReadingOver(how), pc # "done",
           how = "ended" => readBuf = <<>> /\ wire = <<>> /\ closed, halves # {} => pc = "relay"
    PROVE  PlainInv' /\ StreamStep
<1>1. /\ pc \in {"use", "relay"} /\ status = "open" /\ status' = how /\ pc' \in {pc, "done"}
      /\ UNCHANGED <<offered, accepted, closed, delivered, wire, readBuf, kind, step, answered, got>>
  BY DEF ReadingOver, Reading, sending
<1>2. Kept' = Kept /\ Unread' = Unread /\ Unread = 0
  BY <1>1 DEF Kept, Unread
<1>3. PlainData' /\ PlainSteps' /\ (pc' # "done" => PlainWire')
  BY <1>1, <1>2 DEF PlainInv, PlainData, PlainSteps, PlainWire
<1>4. CASE how = "broken"
  BY <1>1, <1>3, <1>4 DEF PlainInv, StreamStep, S!StreamNext, S!Break
<1>5. CASE how = "ended"
  <2>1. Len(wire) = 0 /\ Len(readBuf) = 0
    BY <1>5
  <2>2. Len(delivered) = Len(offered)
    BY <1>2, <2>1 DEF PlainInv, PlainData, PlainWire, Kept
  <2>3. Len(delivered) >= accepted
    BY <2>2 DEF PlainInv, PlainData
  <2> QED
    BY <1>1, <1>3, <1>5, <2>3 DEF PlainInv, StreamStep, S!StreamNext, S!End
<1> QED
  BY <1>4, <1>5

\* What is left of the wire after its first n cells.
LEMMA WireRest ==
    ASSUME wire \in Seq(Cell), NEW n \in Nat, n <= Len(wire)
    PROVE  /\ Len(wire) \in Nat
           /\ Rest(wire, n) \in Seq(Cell) /\ Len(Rest(wire, n)) = Len(wire) - n
           /\ \A i \in 1 .. Len(wire) - n : Rest(wire, n)[i] = wire[n + i]
<1> DEFINE w == Len(wire)
           t == SubSeq(wire, n + 1, w)
<1>1. w \in Nat /\ \A i \in n + 1 .. w : wire[i] \in Cell
  BY LenProperties, ElementOfSeq
<1>2. /\ t \in Seq(Cell) /\ Len(t) = (IF n + 1 <= w THEN w - (n + 1) + 1 ELSE 0)
      /\ \A i \in 1 .. w - (n + 1) + 1 : t[i] = wire[n + 1 + i - 1]
  <2>1. n + 1 \in Int /\ w \in Int
    BY <1>1
  <2> QED
    BY <1>1, <2>1, SubSeqProperties
<1> HIDE DEF t, w
<1>3. Len(t) = w - n
  BY <1>1, <1>2 DEF w
<1>4. ASSUME NEW i \in 1 .. w - n PROVE t[i] = wire[n + i]
  <2>1. i \in 1 .. w - (n + 1) + 1 /\ n + 1 + i - 1 = n + i
    BY <1>1
  <2> QED
    BY <1>2, <2>1
<1> QED
  BY <1>1, <1>2, <1>3, <1>4 DEF t, w, Rest

\* The bytes in a part of the wire that holds nothing else.
LEMMA PayloadIs ==
    ASSUME wire \in Seq(Cell), NEW a \in Nat, NEW b \in Nat, a <= b, b <= Len(wire),
           NEW k \in Nat, NEW c \in Nat, c = k + b - a,
           \A i \in 1 .. Len(wire) : i > a => wire[i].pos = k + i - a
    PROVE  Payload(SubSeq(wire, a + 1, b)) = Run(k, c)
<1> DEFINE w == Len(wire)
           t == SubSeq(wire, a + 1, b)
           p == [i \in 1 .. Len(t) |-> t[i].pos]
<1>1. w \in Nat /\ \A i \in a + 1 .. b : wire[i] \in Cell
  BY LenProperties, ElementOfSeq
<1>2. /\ t \in Seq(Cell) /\ Len(t) = (IF a + 1 <= b THEN b - (a + 1) + 1 ELSE 0)
      /\ \A i \in 1 .. b - (a + 1) + 1 : t[i] = wire[a + 1 + i - 1]
  <2>1. a + 1 \in Int /\ b \in Int
    BY <1>1
  <2> QED
    BY <1>1, <2>1, SubSeqProperties
<1> HIDE DEF t
<1>3. Len(t) = c - k /\ c - k \in Nat /\ k <= c
  BY <1>2
<1>4. ASSUME NEW i \in 1 .. c - k PROVE t[i].pos = k + i
  <2>1. i \in 1 .. b - (a + 1) + 1 /\ a + 1 + i - 1 = a + i /\ a + i \in 1 .. w /\ a + i > a
    BY <1>1
  <2>2. t[i] = wire[a + i] /\ wire[a + i].pos = k + (a + i) - a
    BY <1>2, <2>1
  <2> QED
    BY <2>2
<1>5. p \in Seq(Nat) /\ Len(p) = c - k /\ \A i \in 1 .. c - k : p[i] = k + i
  <2>1. p \in [1 .. c - k -> Nat] /\ \A i \in 1 .. c - k : p[i] = k + i
    BY <1>3, <1>4
  <2>2. p \in Seq(Nat) /\ Len(p) = Len(t)
    <3> DEFINE q == Len(t)
    <3>1. q \in Nat /\ p \in [1 .. q -> Nat]
      BY <1>3, <2>1
    <3> HIDE DEF q
    <3>2. DOMAIN p = 1 .. q
      BY <3>1, Zenon
    <3> HIDE DEF p
    <3>3. p \in Seq(Nat) /\ Len(p) = q
      BY <3>1, <3>2
    <3> QED
      BY <3>3 DEF q
  <2> QED
    BY <1>3, <2>1, <2>2
<1> HIDE DEF p
<1>6. p = Run(k, c)
  BY <1>3, <1>5, CountsOn
<1> QED
  BY <1>6 DEF p, t, Payload

\* What a reader takes beyond an answer are the first bytes behind it.
LEMMA ReadReplyKeeps ==
    ASSUME PlainInv, kind \in {"connect", "socks5", "sse"}, ReadReply
    PROVE  PlainInv' /\ StreamStep
<1> DEFINE u == ReplyLen - got
           w == Len(wire)
           L == Len(offered)
<1>1. /\ pc = "reply" /\ got < ReplyLen /\ wire # <<>>
      /\ UNCHANGED <<offered, accepted, closed, delivered, status, kind, pc, step, answered>>
  BY DEF ReadReply, sending
<1>2. PICK n \in 1 .. w :
        /\ got' = IF n < u THEN got + n ELSE ReplyLen
        /\ readBuf' = IF n > u THEN Overread(SubSeq(wire, u + 1, n)) ELSE readBuf
        /\ wire' = Rest(wire, n)
  BY DEF ReadReply
<1>3. /\ wire \in Seq(Cell) /\ w \in Nat /\ L \in Nat /\ ReplyLen \in Nat /\ got \in 0 .. ReplyLen
      /\ u \in Nat /\ u > 0 /\ n \in Nat /\ n <= w
  BY <1>1, TransportAssumption, LenProperties DEF PlainInv, PlainData, PlainSteps
<1>4. Kept = 0 /\ Len(delivered) = 0 /\ Len(readBuf) = 0
  <2>1. Kept = 0
    BY <1>1 DEF PlainInv, PlainSteps
  <2> QED
    BY <2>1 DEF Kept, PlainInv, PlainData
<1>5. answered = step
  <2>1. w > 0
    BY <1>2, <1>3
  <2>2. ASSUME answered = step - 1 PROVE FALSE
    <3>1. answered < Len(Replies(kind))
      BY <1>1, <2>2 DEF PlainInv, PlainSteps
    <3>2. L = 0
      BY <3>1 DEF PlainInv, PlainSteps
    <3>3. Unread = 0
      BY <2>2 DEF Unread, PlainInv, PlainSteps
    <3>4. w = 0
      BY <1>1, <1>4, <3>2, <3>3 DEF PlainInv, PlainWire
    <3> QED
      BY <2>1, <3>4
  <2> QED
    BY <1>1, <2>2 DEF PlainInv, PlainSteps
<1>6. w = u + L /\ \A i \in 1 .. w : wire[i].pos = IF i <= u THEN 0 ELSE i - u
  <2>1. Unread = u
    BY <1>1, <1>5 DEF Unread
  <2>2. w = u + L - 0 /\ \A i \in 1 .. w : wire[i].pos = IF i <= u THEN 0 ELSE 0 + i - u
    BY <1>1, <1>4, <2>1 DEF PlainInv, PlainWire
  <2> QED
    BY <1>3, <2>2
<1>7. /\ wire' \in Seq(Cell) /\ Len(wire') = w - n
      /\ \A i \in 1 .. w - n : wire'[i] = wire[n + i]
  BY <1>2, <1>3, WireRest
<1>8. /\ accepted = L /\ offered = Run(0, L) /\ delivered = Run(0, 0)
      /\ readBuf = Run(0, 0)
  BY <1>4 DEF PlainInv, PlainData
<1>9. /\ step \in Nat /\ answered \in Nat /\ (answered < Len(Replies(kind)) => L = 0)
      /\ step <= Len(Replies(kind))
  BY <1>1 DEF PlainInv, PlainSteps
<1>10. Unread' = ReplyLen - got' /\ Len(offered') = L /\ Len(delivered') = 0
  BY <1>1, <1>4, <1>5 DEF Unread
<1> HIDE DEF u, w, L
<1>11. CASE n <= u
  <2>1. got' = got + n /\ ReplyLen - got' = u - n /\ got' \in 0 .. ReplyLen
    BY <1>2, <1>3, <1>11 DEF u
  <2>2. readBuf' = readBuf /\ Kept' = 0
    BY <1>1, <1>2, <1>3, <1>4, <1>11 DEF Kept
  <2>3. PlainData'
    BY <1>1, <1>3, <1>4, <1>7, <2>2 DEF PlainInv, PlainData
  <2>4. PlainSteps'
    <3>1. answered' # step' - 1
      BY <1>1, <1>5, <1>9
    <3> QED
      BY <1>1, <1>5, <1>9, <1>10, <2>1, <2>2, <3>1 DEF PlainSteps, L
  <2>5. PlainWire'
    <3>1. Unread' = u - n
      BY <1>10, <2>1
    <3>2. Len(wire') = Unread' + Len(offered') - Kept'
      <4>1. w - n = (u - n) + L - 0
        BY <1>3, <1>6
      <4> QED
        BY <1>7, <1>10, <2>2, <3>1, <4>1
    <3>3. ASSUME NEW i \in 1 .. Len(wire')
          PROVE  wire'[i].pos = IF i <= Unread' THEN 0 ELSE Kept' + i - Unread'
      <4> DEFINE j == n + i
      <4>1. j \in 1 .. w /\ wire'[i] = wire[j]
        BY <1>3, <1>7
      <4>2. (j <= u <=> i <= u - n) /\ j - u = 0 + i - (u - n)
        BY <1>3
      <4> HIDE DEF j
      <4>3. wire'[i].pos = IF j <= u THEN 0 ELSE j - u
        BY <1>6, <4>1
      <4> QED
        BY <2>2, <3>1, <4>2, <4>3
    <3> QED
      BY <3>2, <3>3 DEF PlainWire
  <2> QED
    BY <1>1, <2>2, <2>3, <2>4, <2>5 DEF PlainInv, StreamStep
<1>12. CASE n > u
  <2> DEFINE k == n - u
  <2>1. k \in Nat /\ k <= L /\ n = u + k /\ k = 0 + n - u /\ u <= n
    BY <1>3, <1>6, <1>12
  <2>2. got' = ReplyLen /\ Unread' = 0 /\ got' \in 0 .. ReplyLen
    BY <1>2, <1>3, <1>10, <1>12
  <2> HIDE DEF k
  <2>3. readBuf' = Run(0, k)
    <3>1. readBuf' = Payload(SubSeq(wire, u + 1, n))
      BY <1>2, <1>12 DEF Overread
    <3>2. ASSUME NEW i \in 1 .. Len(wire), i > u PROVE wire[i].pos = 0 + i - u
      BY <1>3, <1>6, <3>2 DEF w
    <3>3. n <= Len(wire) /\ 0 \in Nat
      BY <1>3 DEF w
    <3>4. Payload(SubSeq(wire, u + 1, n)) = Run(0, k)
      BY <1>3, <2>1, <3>2, <3>3, PayloadIs
    <3> QED
      BY <3>1, <3>4
  <2>4. Len(readBuf') = k /\ Kept' = k
    <3>1. Len(readBuf') = k
      BY <2>1, <2>3, RunIs
    <3> QED
      BY <1>10, <2>1, <3>1 DEF Kept
  <2>5. PlainData'
    BY <1>1, <1>3, <1>7, <1>8, <1>10, <2>1, <2>3, <2>4 DEF PlainData, L
  <2>6. PlainSteps'
    <3>1. answered' # step' - 1 /\ ~(got' < ReplyLen)
      BY <1>1, <1>3, <1>5, <1>9, <2>2
    <3> QED
      BY <1>1, <1>5, <1>9, <1>10, <2>2, <3>1 DEF PlainSteps, L
  <2>7. PlainWire'
    <3>1. Len(wire') = Unread' + Len(offered') - Kept'
      BY <1>3, <1>6, <1>7, <1>10, <2>1, <2>2, <2>4
    <3>2. ASSUME NEW i \in 1 .. Len(wire')
          PROVE  wire'[i].pos = IF i <= Unread' THEN 0 ELSE Kept' + i - Unread'
      <4> DEFINE j == n + i
      <4>1. j \in 1 .. w /\ wire'[i] = wire[j] /\ ~(j <= u)
        BY <1>3, <1>7, <1>12
      <4>2. j - u = k + i - 0 /\ ~(i <= 0)
        BY <1>3, <2>1
      <4> HIDE DEF j
      <4>3. wire'[i].pos = j - u
        BY <1>6, <4>1
      <4> QED
        BY <2>2, <2>4, <4>2, <4>3
    <3> QED
      BY <3>1, <3>2 DEF PlainWire
  <2>8. UNCHANGED <<offered, accepted, closed, delivered, status>>
    BY <1>1
  <2> QED
    BY <2>5, <2>6, <2>7, <2>8 DEF PlainInv, StreamStep
<1> QED
  BY <1>3, <1>11, <1>12

\* A Read gives the kept bytes first, then those on the wire.
LEMMA ReadPlainKeeps ==
    ASSUME PlainInv, halves # {} => pc = "relay", NEW n \in BufferSizes, ReadPlain(n)
    PROVE  PlainInv' /\ StreamStep
<1> DEFINE D == Len(delivered)
           E == Kept
           L == Len(offered)
           w == Len(wire)
<1>1. /\ pc \in {"use", "relay"} /\ status = "open" /\ n \in Nat
      /\ UNCHANGED <<offered, accepted, closed, status, kind, pc, step, answered, got>>
  BY WrapConnAssumption DEF ReadPlain, Reading, sending, dvars
<1>2. /\ D \in Nat /\ E \in Nat /\ L \in Nat /\ w \in Nat /\ E = D + Len(readBuf) /\ D <= E /\ E <= L
      /\ offered = Run(0, L) /\ delivered = Run(0, D) /\ readBuf = Run(D, E) /\ wire \in Seq(Cell)
  BY LenProperties DEF PlainInv, PlainData, Kept
<1>n. D \in Nat /\ E \in Nat /\ L \in Nat /\ w \in Nat /\ D <= E /\ E <= L
  BY <1>2
<1>3. Unread = 0 /\ Unread' = 0
  BY <1>1 DEF Unread
<1>4. w = L - E /\ \A i \in 1 .. w : wire[i].pos = E + i
  <2>1. w = 0 + L - E /\ \A i \in 1 .. w : wire[i].pos = IF i <= 0 THEN 0 ELSE E + i - 0
    BY <1>1, <1>3 DEF PlainInv, PlainWire
  <2> HIDE DEF D, E, L, w
  <2>2. w = L - E
    BY <1>n, <2>1
  <2>3. ASSUME NEW i \in 1 .. w PROVE wire[i].pos = E + i
    <3>1. ~(i <= 0) /\ E + i - 0 = E + i
      BY <1>n
    <3> QED
      BY <2>1, <3>1
  <2> QED
    BY <2>2, <2>3
<1>5. PlainSteps'
  BY <1>1 DEF PlainInv, PlainSteps
<1>6. CASE readBuf # <<>>
  <2>1. /\ delivered' = delivered \o First(Run(D, E), n) /\ readBuf' = Rest(Run(D, E), n)
        /\ wire' = wire
    BY <1>2, <1>6 DEF ReadPlain
  <2> HIDE DEF D, E, L
  <2>2. PICK m \in D .. E :
              /\ delivered \o First(Run(D, E), n) = Run(0, m) /\ Len(Run(0, m)) = m
              /\ Rest(Run(D, E), n) = Run(m, E)
              /\ SubSeq(offered, 1, m) = Run(0, m) /\ m \in Nat /\ m <= E
    <3>1. D \in Nat /\ E \in Nat /\ L \in Nat /\ D <= E /\ E <= L /\ n \in Nat
      BY <1>1, <1>2
    <3>2. offered = Run(0, L) /\ delivered = Run(0, D)
      BY <1>2
    <3> QED
      BY <3>1, <3>2, HandOut
  <2>3. delivered' = Run(0, m) /\ Len(delivered') = m /\ readBuf' = Run(m, E)
    BY <2>1, <2>2
  <2>4. Len(readBuf') = E - m
    BY <1>2, <2>2, <2>3, RunIs
  <2>5. Kept' = E
    <3>1. m + (E - m) = E
      BY <1>2, <2>2
    <3> QED
      BY <2>3, <2>4, <3>1 DEF Kept
  <2>6. PlainData'
    <3>1. Len(readBuf') \in Nat
      <4>1. E - m \in Nat
        BY <1>n, <2>2
      <4> QED
        BY <2>4, <4>1
    <3> QED
      BY <1>1, <2>1, <2>2, <2>3, <2>5, <3>1 DEF PlainInv, PlainData, E
  <2>7. PlainWire'
    BY <1>1, <1>3, <2>1, <2>5 DEF PlainInv, PlainWire, E
  <2>8. S!Deliver
    <3>1. m \in Len(delivered) .. Len(offered)
      BY <1>2, <2>2 DEF D, L
    <3> QED
      BY <1>1, <2>2, <2>3, <3>1 DEF S!Deliver
  <2> QED
    BY <1>5, <2>6, <2>7, <2>8 DEF PlainInv, StreamStep, S!StreamNext
<1>7. CASE readBuf = <<>>
  <2>1. /\ delivered' = delivered \o Payload(First(wire, n)) /\ wire' = Rest(wire, n)
        /\ readBuf' = <<>>
    BY <1>7 DEF ReadPlain
  <2>2. D = E
    <3>1. Len(readBuf) = 0 /\ E = D + Len(readBuf)
      BY <1>7 DEF Kept
    <3> HIDE DEF D, E
    <3> QED
      BY <1>n, <3>1
  <2> HIDE DEF D, E, L, w
  <2> DEFINE k == IF n < w THEN n ELSE w
             m == D + k
  <2>3. k \in Nat /\ k <= w /\ m \in Nat /\ m = D + k - 0 /\ D <= m /\ m <= L /\ (n <= w => n = k)
    <3>1. w = L - E /\ n \in Nat
      BY <1>1, <1>4
    <3> QED
      BY <1>n, <2>2, <3>1
  <2>4. First(wire, n) = SubSeq(wire, 0 + 1, k)
    BY DEF First, w
  <2> HIDE DEF D, E, L, k
  <2>5. Payload(SubSeq(wire, 0 + 1, k)) = Run(D, m)
    <3>1. ASSUME NEW i \in 1 .. Len(wire), i > 0 PROVE wire[i].pos = D + i - 0
      <4>1. wire[i].pos = E + i
        BY <1>4 DEF w
      <4>2. E + i = D + i - 0
        BY <1>n, <2>2
      <4> QED
        BY <4>1, <4>2
    <3>2. 0 \in Nat /\ 0 <= k /\ k <= Len(wire)
      BY <2>3 DEF w
    <3>3. D \in Nat /\ m \in Nat /\ k \in Nat /\ m = D + k - 0 /\ wire \in Seq(Cell)
      BY <1>n, <1>2, <2>3
    <3> DEFINE z == 0
    <3>4. /\ z \in Nat /\ z <= k /\ m = D + k - z
          /\ \A i \in 1 .. Len(wire) : i > z => wire[i].pos = D + i - z
      BY <3>1, <3>2, <3>3
    <3> HIDE DEF m, z
    <3>5. Payload(SubSeq(wire, z + 1, k)) = Run(D, m)
      <4>1. z \in Nat /\ k \in Nat /\ z <= k /\ k <= Len(wire) /\ D \in Nat /\ m \in Nat
        BY <3>2, <3>3, <3>4
      <4>2. m = D + k - z /\ wire \in Seq(Cell)
        BY <3>3, <3>4
      <4>3. ASSUME NEW i \in 1 .. Len(wire), i > z PROVE wire[i].pos = D + i - z
        BY <3>4, <4>3
      <4> QED
        BY <4>1, <4>2, <4>3, PayloadIs
    <3> QED
      BY <3>5 DEF z
  <2> HIDE DEF m
  <2>6. delivered' = Run(0, m) /\ Len(delivered') = m
    <3>1. Run(0, D) \o Run(D, m) = Run(0, m)
      <4>1. 0 \in Nat /\ D \in Nat /\ m \in Nat /\ 0 <= D /\ D <= m
        BY <1>2, <2>3
      <4> QED
        BY <4>1, RunsMeet, Zenon
    <3>2. Len(Run(0, m)) = m
      BY <2>3, RunIs
    <3> QED
      BY <1>2, <2>1, <2>4, <2>5, <3>1, <3>2
  <2>7. Kept' = m /\ readBuf' = Run(m, m)
    BY <2>1, <2>3, <2>6, RunIs DEF Kept
  <2>8. /\ wire' \in Seq(Cell) /\ Len(wire') = w - k
        /\ \A i \in 1 .. w - k : wire'[i] = wire[k + i]
    <3>1. Rest(wire, n) = Rest(wire, k)
      <4>1. CASE n <= w
        BY <2>3, <4>1
      <4>2. CASE ~(n <= w)
        <5>1. k = w
          BY <1>1, <1>2, <4>2 DEF k
        <5>2. Rest(wire, n) = <<>> /\ Rest(wire, k) = <<>>
          <6>1. n + 1 \in Int /\ k + 1 \in Int /\ w \in Int /\ w < n + 1 /\ w < k + 1
            BY <1>1, <1>n, <4>2, <5>1
          <6> QED
            BY <6>1, SubSeqEmpty DEF Rest, w
        <5> QED
          BY <5>2
      <4> QED
        BY <4>1, <4>2
    <3> QED
      BY <1>2, <2>1, <2>3, <3>1, WireRest DEF w
  <2>9. PlainData'
    <3>1. Len(readBuf') \in Nat
      BY <2>1
    <3>2. accepted = L
      BY DEF PlainInv, PlainData, L
    <3> QED
      BY <1>1, <1>2, <2>3, <2>6, <2>7, <2>8, <3>1, <3>2 DEF PlainData, L
  <2>10. PlainWire'
    <3>1. Len(wire') = Unread' + Len(offered') - Kept'
      <4>1. w - k = 0 + L - m
        <5>1. w = L - E /\ m = D + k - 0 /\ k \in Nat /\ m \in Nat
          BY <1>4, <2>3
        <5> QED
          BY <1>n, <2>2, <5>1
      <4> QED
        BY <1>1, <1>3, <2>7, <2>8, <4>1 DEF L
    <3>2. ASSUME NEW i \in 1 .. Len(wire')
          PROVE  wire'[i].pos = IF i <= Unread' THEN 0 ELSE Kept' + i - Unread'
      <4> DEFINE j == k + i
      <4>1. j \in 1 .. w /\ wire'[i] = wire[j]
        BY <1>2, <2>3, <2>8
      <4>2. E + j = m + i - 0 /\ ~(i <= 0)
        BY <1>2, <2>2, <2>3
      <4> HIDE DEF j
      <4>3. wire'[i].pos = E + j
        BY <1>4, <4>1
      <4> QED
        BY <1>3, <2>7, <4>2, <4>3
    <3> QED
      BY <3>1, <3>2 DEF PlainWire
  <2>11. S!Deliver
    <3>1. m \in Len(delivered) .. Len(offered)
      BY <1>2, <2>3 DEF D, L
    <3>2. SubSeq(offered, 1, m) = Run(0, m)
      BY <1>2, <2>3, RunStart
    <3> QED
      BY <1>1, <2>6, <3>1, <3>2 DEF S!Deliver
  <2> QED
    BY <1>5, <2>9, <2>10, <2>11 DEF PlainInv, StreamStep, S!StreamNext
<1> QED
  BY <1>6, <1>7

-----------------------------------------------------------------------------
(* Every connection.                                                       *)

LEMMA PlainKeeps ==
    ASSUME PlainInv, kind \in {"connect", "socks5", "sse"}, halves # {} => pc = "relay",
           pc = "done" => conn # "open", Far \/ User
    PROVE  PlainInv' /\ StreamStep
<1>1. CASE FarAnswers
  BY <1>1, FarAnswersKeeps
<1>2. CASE FarSends \/ FarCloses
  <2>1. FarSends => pc # "done"
    BY DEF FarSends
  <2> QED
    BY <1>2, <2>1, FarSendsKeeps, FarClosesKeeps
<1>3. CASE Dial \/ Handshake \/ SendRequest
  <2>1. kind # "aes"
    OBVIOUS
  <2> QED
    BY <1>3, <2>1, DialKeeps
<1>4. CASE ReadReply \/ ReplyRead
  BY <1>4, ReadReplyKeeps, ReplyReadKeeps
<1>5. CASE ReplyFails \/ Hijack \/ UpEOF \/ UpFails \/ RelayEnds \/ AgentLeaves
  BY <1>5, OtherStepsKeep
<1>6. CASE \E n \in BufferSizes : ReadPlain(n)
  BY <1>6, ReadPlainKeeps
<1>7. CASE ReadPlainEOF \/ ReadPlainStops
  <2>1. pc # "done"
    BY <1>7 DEF ReadPlainEOF, ReadPlainStops, ReadingOver, Reading
  <2>2. CASE ReadPlainEOF
    BY <2>1, <2>2, ReadingOverKeeps DEF ReadPlainEOF
  <2>3. CASE ReadPlainStops
    BY <2>1, <2>3, ReadingOverKeeps DEF ReadPlainStops
  <2> QED
    BY <1>7, <2>2, <2>3
<1>8. ~WrapEnds
  BY DEF WrapEnds, OnAESLeg
<1> QED
  BY <1>1, <1>2, <1>3, <1>4, <1>5, <1>6, <1>7, <1>8 DEF Far, User

\* The copies run only while the handler relays.
LEMMA HalvesKept ==
    ASSUME halves # {} => pc = "relay", TransportNext
    PROVE  kind' = kind /\ (halves' # {} => pc' = "relay")
<1>1. CASE Far
  BY <1>1 DEF Far, FarAnswers, FarSends, FarCloses, AgentLeaves, dvars
<1>2. CASE Dial \/ Handshake \/ SendRequest
  BY <1>2 DEF Dial, Handshake, SendRequest, Goto
<1>3. CASE ReadReply \/ ReplyRead \/ ReplyFails \/ Hijack
  BY <1>3 DEF ReadReply, ReplyRead, ReplyFails, Hijack, Goto
<1>4. CASE (\E n \in BufferSizes : ReadPlain(n)) \/ ReadPlainEOF \/ ReadPlainStops
  BY <1>4 DEF ReadPlain, ReadPlainEOF, ReadPlainStops, ReadingOver, dvars
<1>5. CASE UpEOF \/ UpFails \/ RelayEnds \/ WrapEnds
  BY <1>5 DEF UpEOF, UpFails, RelayEnds, WrapEnds, OnAESLeg
<1>6. CASE WrapStep
  BY <1>6 DEF WrapStep, OnLeg, dvars
<1> QED
  BY <1>1, <1>2, <1>3, <1>4, <1>5, <1>6 DEF TransportNext, User

\* The encrypted leg while none of its state changes.
LEMMA LegIdle ==
    ASSUME SealedInv, UNCHANGED wvars
    PROVE  SealedInv' /\ StreamStep
<1>1. UNCHANGED <<offered, accepted, closed, delivered, status, pending, writer, records, wire,
                  hdr, frameLen, frame, readBuf, want>>
  BY DEF wvars
<1>2. SealedTypeOK'
  BY <1>1 DEF SealedInv, SealedTypeOK
<1>3. PICK ends, cur : SealedWith(ends, cur)
  BY DEF SealedInv
<1>4. SealedWith(ends, cur)'
  BY <1>1, <1>3, SameSent, SameReceived DEF SealedWith
<1> QED
  BY <1>1, <1>2, <1>4 DEF SealedInv, StreamStep

\* The encrypted leg before and after it carries anything.
LEMMA LegKept ==
    ASSUME kind = "aes", SealedInv, pc \in {"absent", "dial", "tls", "use", "done"},
           halves # {} => pc = "relay", TransportNext
    PROVE  /\ SealedInv' /\ StreamStep
           /\ pc' \in {"absent", "dial", "tls", "use", "done"}
<1>1. CASE WrapStep
  BY <1>1, SealedKeeps DEF WrapStep, OnLeg, dvars
<1>2. CASE Dial \/ Handshake \/ WrapEnds
  <2>1. UNCHANGED wvars /\ pc' \in {"absent", "dial", "tls", "use", "done"}
    BY <1>2 DEF Dial, Handshake, WrapEnds, Goto
  <2> QED
    BY <2>1, LegIdle
<1>3. ~Far
  BY DEF Far, FarAnswers, FarSends, FarCloses, AgentLeaves, HasAnswered
<1>4. ~(SendRequest \/ ReadReply \/ ReplyRead \/ ReplyFails \/ Hijack)
  BY DEF SendRequest, ReadReply, ReplyRead, ReplyFails, Hijack
<1>5. ~((\E n \in BufferSizes : ReadPlain(n)) \/ ReadPlainEOF \/ ReadPlainStops)
  BY DEF ReadPlain, ReadPlainEOF, ReadPlainStops, ReadingOver, Reading
<1>6. ~(UpEOF \/ UpFails \/ RelayEnds)
  BY DEF UpEOF, UpFails, RelayEnds
<1> QED
  BY <1>1, <1>2, <1>3, <1>4, <1>5, <1>6 DEF TransportNext, User

\* A connection that is not there yet, or is about to be dialled.
LEMMA TransportWaits ==
    ASSUME TransportInv, UNCHANGED <<wvars, kind, step, answered, got, halves>>,
           pc' = pc \/ (pc = "absent" /\ pc' = "dial")
    PROVE  TransportInv' /\ StreamStep
<1>1. CASE kind = "aes"
  BY <1>1, LegIdle DEF TransportInv
<1>2. CASE kind # "aes"
  <2>1. PlainInv
    BY <1>2 DEF TransportInv
  <2>2. offered' = offered /\ Kept' = Kept
    BY DEF wvars, Kept
  <2>3. PlainSteps'
    BY <2>1, <2>2 DEF PlainInv, PlainSteps
  <2>4. Unread' = Unread
    BY DEF Unread
  <2>5. PlainInv' /\ StreamStep
    BY <2>1, <2>3, <2>4, HandshakeStep
  <2> QED
    BY <1>2, <2>5 DEF TransportInv
<1> QED
  BY <1>1, <1>2

\* Every step of the connection keeps its invariant and is a step of a stream.
LEMMA TransportKeeps ==
    ASSUME TransportInv, pc = "done" => conn # "open", TransportNext
    PROVE  TransportInv' /\ StreamStep
<1>1. kind' = kind /\ (halves' # {} => pc' = "relay")
  BY HalvesKept DEF TransportInv
<1>2. CASE kind = "aes"
  <2>1. SealedInv' /\ StreamStep /\ pc' \in {"absent", "dial", "tls", "use", "done"}
    BY <1>2, LegKept DEF TransportInv
  <2> QED
    BY <1>1, <1>2, <2>1 DEF TransportInv
<1>3. CASE kind # "aes"
  <2>1. /\ PlainInv /\ kind \in {"connect", "socks5", "sse"} /\ (halves # {} => pc = "relay")
        /\ Far \/ User
    BY <1>3 DEF TransportInv, TransportNext, WrapStep, OnLeg, OnAESLeg
  <2>2. PlainInv' /\ StreamStep
    BY <2>1, PlainKeeps
  <2> QED
    BY <1>1, <1>3, <2>1, <2>2 DEF TransportInv
<1> QED
  BY <1>2, <1>3

LEMMA TransportBegins ==
    ASSUME NEW k \in {"connect", "socks5", "sse", "aes"}, NEW label, TransportInit(k, label),
           label \in {"absent", "dial"}
    PROVE  TransportInv /\ S!StreamInit
<1>1. WrapInit /\ kind = k /\ pc = label /\ step = 1 /\ answered = 0 /\ got = 0 /\ halves = {}
  BY DEF TransportInit
<1>2. S!StreamInit
  BY <1>1 DEF WrapInit, S!StreamInit
<1>3. Run(0, 0) = <<>>
  BY RunIs
<1>4. /\ offered = <<>> /\ accepted = 0 /\ closed = FALSE /\ delivered = <<>> /\ status = "open"
      /\ pending = <<>> /\ writer = "idle" /\ records = <<>> /\ wire = <<>> /\ hdr = <<>>
      /\ frameLen = 0 /\ frame = <<>> /\ readBuf = <<>> /\ want = 0
  BY <1>1 DEF WrapInit
<1>5. SealedInv
  <2> DEFINE ends == [r \in 0 .. 0 |-> 0]
  <2>1. ends \in [0 .. 0 -> Nat] /\ ends[0] = 0 /\ \A r \in 0 .. 0 : ends[r] = 0
    OBVIOUS
  <2> HIDE DEF ends
  <2>2. Len(records) = 0 /\ Len(offered) = 0 /\ Len(pending) = 0 /\ Len(delivered) = 0
        /\ Len(hdr) = 0 /\ Len(wire) = 0
    BY <1>4
  <2>3. Sent(ends)
    BY <1>3, <1>4, <2>1, <2>2 DEF Sent
  <2>4. Gathered(0)
    BY <1>4, <2>2, WrapConnAssumption DEF Gathered
  <2>5. OnTheWire(0)
    BY <1>4, <2>2 DEF OnTheWire, Unwritten, Expected
  <2>6. Received(ends, 0)
    BY <1>3, <1>4, <2>1, <2>2, <2>4, <2>5 DEF Received
  <2>7. SealedWith(ends, 0)
    BY <2>2, <2>3, <2>6 DEF SealedWith
  <2>8. SealedTypeOK
    <3>1. <<>> \in Seq(Seq(Nat)) /\ <<>> \in Seq(Nat) /\ <<>> \in Seq(Cell)
      BY EmptySeq
    <3> QED
      BY <1>4, <3>1 DEF SealedTypeOK
  <2> QED
    BY <2>7, <2>8 DEF SealedInv
<1>6. ASSUME k # "aes" PROVE PlainInv
  <2>1. Kept = 0 /\ Unread = 0 /\ Len(offered) = 0 /\ Len(delivered) = 0 /\ Len(readBuf) = 0
        /\ Len(wire) = 0
    BY <1>1, <1>4 DEF Kept, Unread
  <2>2. PlainData
    BY <1>3, <1>4, <2>1 DEF PlainData
  <2>3. Len(Replies(kind)) >= 1
    BY <1>1, <1>6 DEF Replies
  <2>4. PlainSteps
    BY <1>1, <2>1, <2>3, TransportAssumption DEF PlainSteps
  <2>5. PlainWire
    BY <2>1 DEF PlainWire
  <2> QED
    BY <2>2, <2>4, <2>5 DEF PlainInv
<1> QED
  BY <1>1, <1>2, <1>5, <1>6 DEF TransportInv

\* The program's other steps leave the connection alone, but that the bridge
\* starts one.
LEMMA ConnectionIsStream ==
    ASSUME ClientInv, TransportInv, [Next]_vars
    PROVE  TransportInv' /\ StreamStep
<1>1. CASE TransportNext
  BY <1>1, TransportKeeps DEF ClientInv
<1>2. CASE UNCHANGED tvars
  BY <1>2, TransportWaits DEF tvars, dvars
<1>3. CASE BridgeServes
  <2>1. /\ pc' = pc \/ (pc = "absent" /\ pc' = "dial")
        /\ UNCHANGED <<wvars, kind, step, answered, got, halves>>
    BY <1>3 DEF BridgeServes, ClientInv
  <2> QED
    BY <2>1, TransportWaits
<1> QED
  BY <1>1, <1>2, <1>3 DEF Next, BridgeListens, vars

\* ClientProxy, dialSOCKS5, StreamSSE and WrapConn: whichever kind the
\* connection is, its user reads the far end's bytes in order, without a gap
\* or a repeat, and sees the end only after everything that was written.
THEOREM TransportsAreStreams == Spec => ImplementsStream
<1>1. Init => TransportInv /\ S!StreamInit
  <2> SUFFICES ASSUME Init PROVE TransportInv /\ S!StreamInit
    OBVIOUS
  <2>1. PICK k \in {"connect", "socks5", "sse", "aes"}, label \in {"absent", "dial"} :
            TransportInit(k, label)
    BY DEF Init, RunGateway, RunProxy, UseLibrary, RunAESBridge
  <2> QED
    BY <2>1, TransportBegins
<1>2. ClientInv /\ TransportInv /\ [Next]_vars => TransportInv' /\ [S!StreamNext]_(S!svars)
  <2>1. StreamStep => [S!StreamNext]_(S!svars)
    BY DEF StreamStep, S!svars
  <2> QED
    BY <2>1, ConnectionIsStream
<1>3. ProgramInv => ClientInv
  BY DEF ProgramInv
<1> QED
  BY <1>1, <1>2, <1>3, ProgramInvariant, PTL DEF Spec, ImplementsStream, S!StreamSpec
=============================================================================
