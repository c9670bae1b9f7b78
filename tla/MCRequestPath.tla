--------------------------- MODULE MCRequestPath ----------------------------
(***************************************************************************)
(* RequestPath for TLC: one client sends requests of several kinds, the    *)
(* others plain ones. The reload widens the queue, marks a node pii-local  *)
(* (which arms the rule) or unmarks it, and brings a policy.               *)
(***************************************************************************)
EXTENDS RequestPath

CONSTANT Varied   \* the client whose requests vary

Growing == [g \in Generations |-> g + 1]
Ones == [g \in Generations |-> 1]

Class(n, on, m, t, least, marks) ==
    [name |-> n, enabled |-> on, model |-> m, tier |-> t, least |-> least, markers |-> marks]
Entry(on, force) == [enabled |-> on, force |-> force]

Policy(default, on1, on2, agents) ==
    [enabled |-> TRUE, default |-> default, agents |-> agents,
     classes |-> <<Class("code", on1, "m1", "local", 0, {"fence"}),
                   Class("long", on2, "m2", "cloud", 2, {}),
                   Class("huge", TRUE, "m2", "", 4, {})>>]

AgentEntries == {<<>>, [a \in {"cursor"} |-> Entry("unset", "code")],
                 [a \in {"codex", "cursor"} |-> Entry("false", "")]}

MCPolicies == {Policy(d, a, b, e) : d \in {"code", "other"}, a \in BOOLEAN, b \in BOOLEAN,
                                    e \in AgentEntries}
              \cup {[Policy("code", TRUE, TRUE, <<>>) EXCEPT !.enabled = FALSE]}

MCInputs == [agent: {"", "cursor"}, userAgent: {{}, {"openai", "cursor"}, {"codex"}},
             task: {"", "code", "long", "typo"}, model: {"", "auto", "m9"},
             length: {0, 1, 2, 5}, markers: {{}, {"fence"}}, parses: BOOLEAN]

Plain == [agent |-> "", userAgent |-> {}, task |-> "", model |-> "m2", length |-> 1, markers |-> {},
          parses |-> TRUE, personal |-> FALSE, class |-> "internal", tenant |-> FALSE, tier |-> "cloud"]

Kinds ==
    {[Plain EXCEPT !.personal = TRUE, !.model = "auto", !.length = 5, !.tier = ""],
     [Plain EXCEPT !.agent = "codex", !.class = "customer", !.tenant = TRUE, !.tier = ""]}

MCIncoming == [r \in Clients |-> IF r = Varied THEN Kinds ELSE {Plain}]

Cloud == [tier |-> "cloud", models |-> {"m1", "m2"}, piiLocal |-> FALSE, workloads |-> {"internal"}]
Local(marked) == [tier |-> "local", models |-> {"m1", "m2"}, piiLocal |-> marked, workloads |-> {}]

MCNodes == [g \in Generations |-> {Cloud, Local(g = 1)}]
MCRule == [g \in Generations |-> "auto"]
MCNoPolicy == [enabled |-> FALSE]
MCSmart == [g \in Generations |->
               IF g = 1 THEN Policy("code", TRUE, FALSE, [a \in {"codex"} |-> Entry("false", "")])
               ELSE MCNoPolicy]
=============================================================================
