---------------------------- MODULE ConnectTarget ---------------------------
(***************************************************************************)
(* The rules about addresses of the gateway (connect_target.go): what a    *)
(* host of the configuration says of itself before anything is resolved,   *)
(* what a bound socket or a dialled peer turned out to be, and the two     *)
(* layers that keep a tunnel from ending on the gateway's own machine.     *)
(*                                                                         *)
(* A host is one spelling of a class: empty, an address literal, one of    *)
(* inet_aton's numeric spellings, a reserved loopback name, or any other   *)
(* name. An address is loopback, unspecified, own or alias (two routable   *)
(* addresses of this machine) or peer (another machine). Numeric spellings *)
(* keep their parts, over bytes of Base values in place of 256; the        *)
(* addresses whose first byte is Base - 1 stand for 127.0.0.0/8 and 0 for  *)
(* 0.0.0.0.                                                                *)
(***************************************************************************)
EXTENDS Integers, Sequences

CONSTANT Base   \* values of a byte of a numeric spelling

ASSUME BaseAssumption == Base \in Nat \ {0, 1}

Addresses == {"loopback", "unspecified", "own", "alias", "peer"}

Literal(a) == [form |-> "literal", addr |-> a, parts |-> <<>>]
Numeric(parts) == [form |-> "numeric", addr |-> "none", parts |-> parts]
Name(n) == [form |-> "name", addr |-> n, parts |-> <<>>]
ReservedName == [form |-> "reserved", addr |-> "none", parts |-> <<>>]
EmptyHost == [form |-> "empty", addr |-> "none", parts |-> <<>>]

\* A literal is some address, and the parts of a numeric spelling are numbers.
WellFormed(h) ==
    /\ h.form = "literal" => h.addr \in Addresses
    /\ h.form = "numeric" => h.parts \in Seq(Nat)

-----------------------------------------------------------------------------
\* What each of the four bytes of an address counts for.
Weight == <<Base * Base * Base, Base * Base, Base, 1>>

\* Faulty variant: every part is one byte.
LastPartIsByte(n, v) == v < Base

\* The last part fills the bytes the parts before it left.
LastPartFits(n, v) == v < Base * Weight[n]

\* parseIPv4Numeric: the 32-bit address the parts make, or -1.
ParseIPv4Numeric(parts) ==
    LET n == Len(parts)
        Shifted(i) == IF i < n THEN parts[i] * Weight[i] ELSE 0 IN
    IF \/ n \notin 1..4
       \/ \E i \in 1 .. n - 1 : parts[i] >= Base
       \/ ~LastPartFits(n, parts[n])
    THEN -1
    ELSE Shifted(1) + Shifted(2) + Shifted(3) + parts[n]

NumericClass(address) ==
    IF address = -1 THEN "none"
    ELSE IF address \div Weight[1] = Base - 1 THEN "loopback"
    ELSE IF address = 0 THEN "unspecified"
    ELSE "peer"

\* hostIP: the address a spelling means if it is any literal at all.
HostIP(h) ==
    IF h.form = "literal" THEN h.addr
    ELSE IF h.form = "numeric" THEN NumericClass(ParseIPv4Numeric(h.parts))
    ELSE "none"

\* localTargetKind # "": the spelling names this machine.
LocalTarget(h) ==
    \/ h.form \in {"empty", "reserved"}
    \/ HostIP(h) \in {"loopback", "unspecified"}

\* sameHost: the same literal address (two peers are two machines), or the
\* same name.
SameHost(a, b) ==
    IF HostIP(a) # "none" \/ HostIP(b) # "none"
    THEN HostIP(a) = HostIP(b) /\ HostIP(a) # "peer"
    ELSE a = b

\* isLoopbackListen: the advisory reading of a bind address.
IsLoopbackListen(h) == h.form = "literal" /\ h.addr = "loopback"

\* boundListenScope: what the socket that was opened reaches.
BoundListenScope(addr) == IF addr = "loopback" THEN "loopbackOnly" ELSE "reachable"

\* connectSelfReference # "": an allowed host that names the gateway itself,
\* given the bind address and whether it reaches loopback only.
ConnectSelfReference(target, listen, loopbackOnly) ==
    IF LocalTarget(target.host)
    THEN ~loopbackOnly \/ target.port = "own"
    ELSE /\ listen # EmptyHost /\ ~LocalTarget(listen)
         /\ SameHost(target.host, listen)

\* connectDialRefusal # "": the peer the dial reached is this machine.
ConnectDialRefusal(scope, local, remote) ==
    /\ scope # "loopbackOnly"
    /\ remote \in {"loopback", "unspecified"} \/ local = remote

\* requireLoopbackAddr = nil, for the bridge's bind address.
RequireLoopbackAddr(h) == h.form = "reserved" \/ IsLoopbackListen(h)

-----------------------------------------------------------------------------
\* External: the kernel and the resolver. What a bind may open ("fails" if the
\* port is taken or the name does not resolve), what a dial may reach, and the
\* source address of a dial. A name resolves to anything; a numeric spelling
\* to its inet_aton reading or, by another resolver, to anything.
AnyMachine == {"loopback", "own", "alias", "peer"}

\* The inet_aton reading, from the bytes themselves: the parts but the last are
\* bytes, and the last is the number the remaining bytes spell.
Bytes == [1..4 -> 0 .. Base - 1]
Number(b, from) ==
    LET Counts(i) == IF from <= i THEN b[i] * Weight[i] ELSE 0 IN
    Counts(1) + Counts(2) + Counts(3) + Counts(4)
Spells(b, parts) ==
    LET n == Len(parts) IN
    n \in 1..4 /\ (\A i \in 1 .. n - 1 : b[i] = parts[i]) /\ Number(b, n) = parts[n]
AtonReading(parts) ==
    IF \E b \in Bytes : Spells(b, parts)
    THEN LET b == CHOOSE c \in Bytes : Spells(c, parts) IN
         IF b[1] = Base - 1 THEN "loopback"
         ELSE IF \A i \in 1..4 : b[i] = 0 THEN "unspecified" ELSE "peer"
    ELSE "none"

DialReaches(h) ==
    CASE h.form = "empty" -> {"loopback"}
      [] h.form = "literal" -> {IF h.addr = "unspecified" THEN "loopback" ELSE h.addr}
      [] OTHER -> AnyMachine

BindOpens(h) ==
    {"fails"} \cup
    CASE h.form = "empty" -> {"unspecified"}
      [] h.form = "literal" -> {h.addr} \ {"peer"}
      [] OTHER -> {"loopback", "own", "alias"}

\* A dial to an address of this machine starts from that same address.
SourceOf(remote) == IF remote = "peer" THEN "own" ELSE remote
=============================================================================
