--------------------------- MODULE MCHelixchannel ---------------------------
(***************************************************************************)
(* Helixchannel for TLC: the configurations to start a gateway with, in    *)
(* four families that each vary one part, and the bridge's addresses.      *)
(***************************************************************************)
EXTENDS Helixchannel

MCNoLeg == [form |-> "off", addr |-> "none", parts |-> <<>>]

Spellings == {EmptyHost, ReservedName, Name("a"), Numeric(<<9>>), Numeric(<<1, 1>>),
              Numeric(<<0>>), Numeric(<<0, 1>>), Numeric(<<16>>)}
             \cup {Literal(a) : a \in Addresses}

ListenHosts == {EmptyHost, ReservedName, Name("a"), Numeric(<<9>>),
                Literal("loopback"), Literal("unspecified"), Literal("own")}

NoBudget == [softPercent |-> 0, window |-> 0, requests |-> 0, tokens |-> 0, estimate |-> 0]
Passthrough == [auth |-> "passthrough", single |-> <<>>, keyEnvs |-> <<>>, keyFiles |-> <<>>,
                keyRefs |-> <<>>, keyHeader |-> "none", rotation |-> "none",
                policy |-> "round_robin", budget |-> NoBudget]

Plain == [listen |-> Literal("loopback"), hasToken |-> TRUE, exemptLoopback |-> TRUE,
          allowUnauthenticated |-> FALSE, allowed |-> {}, aes |-> MCNoLeg, aesPort |-> "other",
          gatewayToken |-> "g", connectToken |-> "c", route |-> Passthrough]

Target(h, p) == [host |-> h, port |-> p]

\* What a tunnel may reach, on every kind of socket.
AllowedConfigs ==
    {[Plain EXCEPT !.listen = l, !.allowed = {Target(h, p)}] :
        l \in ListenHosts, h \in Spellings, p \in {"own", "other"}}

\* Who is let in, on every kind of socket of both legs.
AuthConfigs ==
    {[Plain EXCEPT !.listen = l, !.hasToken = t, !.exemptLoopback = e,
                   !.allowUnauthenticated = u, !.aes = a] :
        l \in {Literal("loopback"), Literal("unspecified")},
        t \in BOOLEAN, e \in BOOLEAN, u \in BOOLEAN,
        a \in {MCNoLeg, Literal("own"), Name("b")}}
    \cup {[Plain EXCEPT !.aes = Literal("loopback"), !.aesPort = p] : p \in {"own", "other"}}

TokenConfigs ==
    {[Plain EXCEPT !.allowed = {Target(Literal("peer"), "other")},
                   !.gatewayToken = g, !.connectToken = c] :
        g \in {"g", "blank"}, c \in {"c", "g", "missing"}}

\* A route's key_envs, key_files and key_refs.
Source(n, v) == [name |-> n, value |-> v]
Pools ==
    {<<e, f, <<>>>> : e \in {<<>>, <<Source("n", "k3")>>},
                      f \in {<<>>, <<Source("o", "k2")>>}}
    \cup {<<<<Source("n", v), Source(n, "k3")>>, f, r>> :
             v \in {"k1", "blank"}, n \in {"n", "p"},
             f \in {<<>>, <<Source("o", "k1")>>, <<Source("o", "missing")>>},
             r \in {<<>>, <<Source("n", "k2")>>, <<Source("n", "k3"), Source("o", "k4")>>}}

Budgets == {NoBudget, [NoBudget EXCEPT !.requests = 5], [NoBudget EXCEPT !.softPercent = 120],
            [NoBudget EXCEPT !.tokens = 5, !.window = 2], [NoBudget EXCEPT !.window = -1],
            [NoBudget EXCEPT !.requests = -1, !.tokens = -1, !.estimate = -1],
            [softPercent |-> 90, window |-> 2, requests |-> 5, tokens |-> 5, estimate |-> 1]}

RouteConfigs ==
    {[Plain EXCEPT !.route = [Passthrough EXCEPT !.auth = a, !.keyEnvs = s[1], !.keyFiles = s[2],
                                                 !.keyRefs = s[3], !.single = k]] :
        a \in {"inject", "passthrough"}, s \in Pools, k \in {<<>>, <<"blank", "k1">>, <<"missing">>}}
    \cup {[Plain EXCEPT !.route = [Passthrough EXCEPT
                                      !.auth = a, !.keyEnvs = <<Source("n", "k1")>>,
                                      !.keyRefs = <<Source("n", "k2")>>, !.keyHeader = h,
                                      !.rotation = "set", !.policy = p, !.budget = b]] :
            a \in {"inject", "header"}, h \in {"none", "usable"},
            p \in {"least_used", "least_tokens", "random"}, b \in Budgets}

MCConfigs == AllowedConfigs \cup AuthConfigs \cup TokenConfigs \cup RouteConfigs

MCBridgeHosts == {EmptyHost, ReservedName, Name("a"), Literal("loopback"), Literal("own")}
=============================================================================
