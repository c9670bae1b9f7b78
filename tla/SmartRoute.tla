----------------------------- MODULE SmartRoute -----------------------------
(***************************************************************************)
(* Smart routing (internal/smartroute): which agent a request comes from,  *)
(* whether the policy lets it in, and which class, hence which model and   *)
(* tier, it is routed to.                                                  *)
(*                                                                         *)
(* A policy has a flag, a default class, a sequence of classes (name,      *)
(* flag, model, tier, least prompt length or 0, markers) and agents, a     *)
(* function from identities to [enabled: unset/true/false, force].  A      *)
(* request has the identity its header gives, the hints its User-Agent     *)
(* contains, the task class it asks for, its model, the length of its      *)
(* prompt, the markers in it, and whether its body parses as JSON.         *)
(***************************************************************************)
EXTENDS Integers, Sequences, FiniteSetsExt

CONSTANTS
    Policies,   \* policies to check Decide with
    Inputs      \* requests to check it with

ClassType == [name: STRING, enabled: BOOLEAN, model: STRING, tier: STRING, least: Nat,
              markers: SUBSET STRING]

ASSUME DecisionAssumption ==
    /\ \A p \in Policies : p.enabled \in BOOLEAN /\ p.classes \in Seq(ClassType)
    /\ \A q \in Inputs : q.length \in Nat

NoneSet == ""
AutoModel == "auto"

\* uaHints, in the order they are tried.
UAHints == <<[needle |-> "kilo", agent |-> "kilo-code"],
             [needle |-> "cursor", agent |-> "cursor"],
             [needle |-> "claude", agent |-> "claude-code"],
             [needle |-> "codex", agent |-> "codex"],
             [needle |-> "openai", agent |-> "codex"]>>

\* The first of the places a loop stops at, 0 if there is none.
First(places) == IF places = {} THEN 0 ELSE Min(places)

DetectAgent(q) ==
    IF q.agent # NoneSet THEN q.agent
    ELSE LET i == First({j \in DOMAIN UAHints : UAHints[j].needle \in q.userAgent}) IN
         IF i = 0 THEN NoneSet ELSE UAHints[i].agent

ClassNames(p) == {p.classes[i].name : i \in DOMAIN p.classes}

ValidatePolicy(p) ==
    /\ p.classes # <<>>
    /\ \A i \in DOMAIN p.classes : p.classes[i].name # NoneSet /\ p.classes[i].model # NoneSet
    /\ \A i, j \in DOMAIN p.classes : p.classes[i].name = p.classes[j].name => i = j
    /\ p.default \in ClassNames(p)
    /\ \A a \in DOMAIN p.agents : p.agents[a].force \in ClassNames(p) \cup {NoneSet}

\* Only an explicit false blocks, and only while the policy is on.
AgentAllowed(p, agent) ==
    p.enabled /\ agent \in DOMAIN p.agents => p.agents[agent].enabled # "false"

ForceClass(p, agent) == IF agent \in DOMAIN p.agents THEN p.agents[agent].force ELSE NoneSet

\* lookup, for a name that is defined.
Lookup(p, name) == p.classes[First({i \in DOMAIN p.classes : p.classes[i].name = name})]

\* EnabledClasses, as their places in the policy.
EnabledClasses(p) == {i \in DOMAIN p.classes : p.classes[i].enabled}

-----------------------------------------------------------------------------
ExtractModel(q) == IF q.parses THEN q.model ELSE NoneSet
PromptLength(q) == IF q.parses THEN q.length ELSE 0

\* headerClassifier: a task class that exists, switched on or not.
HeaderClass(p, q) == IF q.task \in ClassNames(p) THEN q.task ELSE NoneSet

\* heuristicClassifier: the first of the enabled classes with the largest
\* threshold the prompt reaches, otherwise the first with one of its markers.
Reached(p, q) ==
    {i \in EnabledClasses(p) : p.classes[i].least > 0 /\ PromptLength(q) >= p.classes[i].least}
Largest(p, q) ==
    {i \in Reached(p, q) : \A j \in Reached(p, q) : p.classes[j].least <= p.classes[i].least}
Marked(p, q) == {i \in EnabledClasses(p) : p.classes[i].markers \cap q.markers # {}}

HeuristicClass(p, q) ==
    IF PromptLength(q) = 0 THEN NoneSet
    ELSE IF Reached(p, q) # {} THEN p.classes[First(Largest(p, q))].name
    ELSE IF Marked(p, q) # {} THEN p.classes[First(Marked(p, q))].name
    ELSE NoneSet

DecisionFor(c, source) == [class |-> c.name, model |-> c.model, tier |-> c.tier, source |-> source]
Unrouted(q, source) ==
    [class |-> NoneSet, model |-> ExtractModel(q), tier |-> NoneSet, source |-> source]

Usable(p, name) == name # NoneSet /\ Lookup(p, name).enabled

\* Faulty variant: the class a header names is taken without a look at its flag.
DecideHeaderWins(p, q) ==
    LET forced == ForceClass(p, DetectAgent(q)) IN
    CASE ~p.enabled -> Unrouted(q, "disabled")
      [] p.enabled /\ Usable(p, forced) -> DecisionFor(Lookup(p, forced), "agent_force")
      [] OTHER ->
           IF ExtractModel(q) \notin {NoneSet, AutoModel} THEN Unrouted(q, "explicit_model")
           ELSE IF HeaderClass(p, q) # NoneSet THEN DecisionFor(Lookup(p, HeaderClass(p, q)), "header")
           ELSE IF HeuristicClass(p, q) # NoneSet
                THEN DecisionFor(Lookup(p, HeuristicClass(p, q)), "heuristic")
           ELSE DecisionFor(Lookup(p, p.default), "default")

\* Decide: force_class, then the caller's own model, then the classifiers, a
\* class that is off passing to the next one, then the default, on or off.
Decide(p, q) ==
    LET forced == ForceClass(p, DetectAgent(q)) IN
    CASE ~p.enabled -> Unrouted(q, "disabled")
      [] p.enabled /\ Usable(p, forced) -> DecisionFor(Lookup(p, forced), "agent_force")
      [] OTHER ->
           IF ExtractModel(q) \notin {NoneSet, AutoModel} THEN Unrouted(q, "explicit_model")
           ELSE IF Usable(p, HeaderClass(p, q)) THEN DecisionFor(Lookup(p, HeaderClass(p, q)), "header")
           ELSE IF Usable(p, HeuristicClass(p, q))
                THEN DecisionFor(Lookup(p, HeuristicClass(p, q)), "heuristic")
           ELSE DecisionFor(Lookup(p, p.default), "default")

\* Rewrite, as far as the model goes: a body that is not JSON stays as it is.
RewrittenModel(q, d) ==
    IF d.source \in {"disabled", "explicit_model"} \/ ~q.parses THEN ExtractModel(q) ELSE d.model

-----------------------------------------------------------------------------
\* What Decide owes a policy that is on: a class that is switched off is used
\* only as the default; a caller's own model is changed only for an agent that
\* is forced; an enabled class the header names is used unless the caller or
\* the agent's entry says otherwise; and among the enabled classes whose
\* threshold the prompt reaches, none is larger than the one inferred.
SoundFor(p, q) ==
    LET d == Decide(p, q)
        on == {p.classes[i] : i \in EnabledClasses(p)} IN
    /\ d.source # "default" /\ d.class # NoneSet => \E c \in on : c.name = d.class
    /\ q.parses /\ q.model \notin {NoneSet, AutoModel} =>
           RewrittenModel(q, d) = q.model \/ d.class = ForceClass(p, DetectAgent(q))
    /\ (\E c \in on : c.name = q.task) => d.source \notin {"heuristic", "default"}
    /\ d.source \in {"heuristic", "default"} =>
           \A c \in on : c.least > 0 /\ PromptLength(q) >= c.least =>
               d.source = "heuristic" /\ Lookup(p, d.class).least >= c.least

\* The valid policies that decide every input soundly.
LoadablePolicies == {p \in Policies : ValidatePolicy(p)}
SoundPolicies ==
    {p \in LoadablePolicies : p.enabled => \A q \in Inputs : SoundFor(p, q)}
=============================================================================
