----------------------------- MODULE Credentials ----------------------------
(***************************************************************************)
(* From a route's key sources to its pool of credentials (config.go        *)
(* validateRouteAuth, secret.go, server.go newRotationStore). The store of *)
(* RotationStore only knows how many keys a route declares and how much    *)
(* each may spend; the injector only knows the resolved credentials. Both  *)
(* are built from the same route and have to agree index by index.         *)
(*                                                                         *)
(* A route has three lists of sources: key_envs, key_files and key_refs. A *)
(* source is its name and what reading it gives: a credential, "blank"     *)
(* (white space) or "missing" (unset, unreadable, timed out, malformed). A *)
(* single-key route has the readings of key_ref, key_env and key_file,     *)
(* those that are set.                                                     *)
(***************************************************************************)
EXTENDS Naturals, Sequences, SequencesExt

KeySource == [name: STRING, value: STRING]
Unusable == {"blank", "missing"}

\* keySlots: the order in which the sources fill the pool.
KeySlots(r) == r.keyEnvs \o r.keyFiles \o r.keyRefs

DeclaredKeyCount(r) == Len(r.keyEnvs) + Len(r.keyFiles) + Len(r.keyRefs)
HasPluralKeys(r) == r.keyEnvs # <<>> \/ r.keyFiles # <<>> \/ r.keyRefs # <<>>
HasSingularKeys(r) == r.single # <<>>

\* rejectDuplicateSources: within one list no name occurs twice.
NamesDistinct(sources) ==
    \A i, j \in DOMAIN sources : i # j => sources[i].name # sources[j].name

ValidateKeySources(r) ==
    /\ ~(HasSingularKeys(r) /\ HasPluralKeys(r))
    /\ NamesDistinct(r.keyEnvs) /\ NamesDistinct(r.keyFiles) /\ NamesDistinct(r.keyRefs)

ValidateAuthMode(r) ==
    /\ r.auth # "header" => r.keyHeader = "none"
    /\ CASE r.auth = "inject" -> HasSingularKeys(r) \/ HasPluralKeys(r)
         [] r.auth = "header" -> (HasSingularKeys(r) \/ HasPluralKeys(r)) /\ r.keyHeader = "usable"
         [] r.auth = "passthrough" -> ~HasSingularKeys(r) /\ ~HasPluralKeys(r)
         [] OTHER -> FALSE

\* validateBudget; a soft ratio of 0 selects the default. A negative cap or
\* estimate is not refused: it means none.
ValidateBudget(b) ==
    /\ b.softPercent \in 0..100 /\ b.window >= 0
    /\ b.tokens > 0 \/ b.requests > 0 => b.window > 0
    /\ b.tokens > 0 => b.estimate > 0

ValidateRotation(r) ==
    r.rotation = "none"
    \/ /\ r.auth # "passthrough"
       /\ HasPluralKeys(r)
       /\ r.policy \in {"round_robin", "least_used", "least_tokens"}
       /\ ~(r.auth = "header" /\ r.policy = "least_tokens")
       /\ ValidateBudget(r.budget)

ValidateRoute(r) == ValidateKeySources(r) /\ ValidateAuthMode(r) /\ ValidateRotation(r)

-----------------------------------------------------------------------------
\* secretRefs and resolveFirst: the first usable reading, or "missing".
ResolveFirst(readings) ==
    LET usable == SelectSeq(readings, LAMBDA v : v \notin Unusable) IN
    IF usable = <<>> THEN "missing" ELSE Head(usable)

\* Faulty variant: a blank source is skipped instead of refused.
ResolveKeyPoolSkips(r) ==
    LET values == SelectSeq([i \in 1 .. Len(KeySlots(r)) |-> KeySlots(r)[i].value],
                            LAMBDA v : v # "blank") IN
    IF \/ values = <<>> \/ \E i \in DOMAIN values : values[i] = "missing"
       \/ \E i, j \in DOMAIN values : i # j /\ values[i] = values[j]
    THEN <<>> ELSE values

\* resolveKeyPool: every source's credential in slot order, or <<>> if one of
\* them is unusable or two are the same.
ResolveKeyPool(r) ==
    LET values == [i \in 1 .. Len(KeySlots(r)) |-> KeySlots(r)[i].value] IN
    IF \/ values = <<>> \/ \E i \in DOMAIN values : values[i] \in Unusable
       \/ \E i, j \in DOMAIN values : i # j /\ values[i] = values[j]
    THEN <<>> ELSE values

\* The authenticator of a route can be built.
CredentialsUsable(r) ==
    CASE r.auth = "passthrough" -> TRUE
      [] HasPluralKeys(r) -> ResolveKeyPool(r) # <<>>
      [] OTHER -> ResolveFirst(r.single) # "missing"
=============================================================================
