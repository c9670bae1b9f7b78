# Verification of llm-cluster-router

TLA+ models of the concurrent core of `llm-cluster-router`, model-checked with
TLC on small instances and, where it matters most, proved with TLAPS for every
instance. The repository holds two servers:

* the **router** (`main.go`): accepts OpenAI-style requests, queues them, picks
  an upstream node and fails over between nodes;
* the **gateway** `helixchannel` (`internal/channel`): a reverse proxy that
  rotates the API keys of a route under a budget, plus CONNECT tunnels and an
  encrypted transport.

`PROJECT.json` lists components, runs, mutants, hazards, theorems and, for every
definition, the source lines it stands for. Source paths below are relative to
`src/`.

## 1. Inventory

### 1.1 Gateway (`internal/channel`)

| component | state | operations | what is hard | what makes it correct |
|---|---|---|---|---|
| key rotation store (`rotation_store.go`) | per route: window start; per key: charged requests and tokens, outstanding reservations with their start, orphaned and reclaimed counts, drained / soft-retired flags, `retiredUntil` | `Next`/`Acquire` (reserve), `RecordSample`, `KeyLease.Settle`, `Retire*`, `Snapshot`, `RetryAfter`, all under one mutex and all preceded by `advanceLocked` | a settlement names a key and not a reservation; reservations expire while their request still runs; windows roll between reserve and settle; two independent ways out of rotation | slots are conserved, caps count what is in flight, cooldowns are never shortened, Retry-After is true |
| policies (`rotation.go`) | a cursor | `Select` over the admissible keys | the candidate list changes length between two calls; nothing is settled during a burst | fairness, no stampede, bounded skew |
| pooled requests (`server.go` `handleProxy`, `settleLease`; `auth.go`; `vendor_error.go`; `usage.go`) | one lease per request goroutine | lease, forward, relay, park, settle, audit, deferred settle | errors and panics on every path, an explicit and a deferred settlement, a deadline computed outside the lock, clients that stop reading | each lease settled exactly once, audit = accounting, a spent key stays out |
| CONNECT tunnels (`server.go`, `connect_target.go`) | tunnel semaphore, two copying goroutines, the deadlines they share | `handleConnect`, `copyTunnelHalf`, `tunnelDeadlines` | half-close, deadlines rearmed by one direction while the other arms the linger bound, peers that stop reading, names that resolve to this machine | nothing sent before a half-close is lost, the tunnel ends, the slot returns, no remote caller is tunnelled home |
| who may use the gateway (`config.go`, `proxy_auth.go`, `connect_target.go`, `server.go` `Serve`) | the mode, the two tokens, the scope of the bound socket | `Validate`, `NewServer`, `bindRefusal`, `authorizeProxy`, `authorizeConnect` | the configured address, the bound socket and the dialled peer may each say something else | a remote caller is served only with the token |
| secrets and key pools (`secret.go`, `config.go`) | the resolved credentials | `resolveFirst`, `resolveKeyPool`, `newAuthenticatorFor` | the store is sized from the configuration, the injector from what could be read | index by index the same pool |
| encrypted transport (`internal/crypto`, `aes_bridge.go`) | length prefix, frame and leftover plaintext being assembled, tamper counter | `WrapConn.Read`/`Write`, the bridge's transport | deadlines in the middle of a record, partial reads, small buffers, altered records | a byte stream: what was written arrives, a deadline damages nothing |
| client connections (`client.go`, `internal/proxy/socks5`) | the connection and what was read beyond an answer | dial, handshake, CONNECT or SOCKS5 exchange, SSE headers, two copies | bytes that arrive together with an answer; an error on every line | the bytes of the far end in order, every connection closed |
| gateway process (`cmd/helixchannel/gateway.go`, `shutdown.go`) | two legs | start, join, drain, force | a leg that fails while the other serves; requests that never end | the process ends |
| forwarder, usage and vendor parsing, audit | none shared | sequential | - | - |

### 1.2 Router (`main.go` and its packages)

| component | state | operations | what is hard | what makes it correct |
|---|---|---|---|---|
| admission (`handleProxy` around the loop, `Reload`, `snap`) | `queueDepth`, `queueDepthByTier`, `buffering`, `inflight`, one semaphore per configuration | count, read the body, choose a node, wait, serve, relay, and the deferred releases | six exit paths share one idempotent dequeue; a reload swaps the semaphore under waiting requests; deferred calls give things back in reverse order | every counter equals what it counts; tokens return where they came from; everyone leaves unless a client stops reading |
| failover (`handleProxy`'s loop, `selectNodeFromSnapExcluding`, `doUpstream`) | per request: candidate, exclude set, attempt, held response | try, score, hold, retry with another key, reselect, relay | nodes looked at one by one without a lock, two levels of retry, response bodies handed from attempt to attempt | bounded, bodies closed, no node that stays usable is passed over |
| health probes (`runHealthPass`, `internal/health/liveprobe.go`) | `healthy`, pass and fail counters per node; the limiter of forced sweeps | probe, store the result; `handleHealth?live=1` | requests eject nodes between a probe and its result | nodes come back; sweeps bounded |
| circuit breaker (`internal/circuit`) | state, failures, `openedAt` | `Allow`, `RecordSuccess`, `RecordFailure` | results of calls admitted under an earlier state | counts the streak, is always left again |
| key pool (`internal/keypool`) | index, cooldown per key | `Next`, `MarkExhausted`, `AllCooling` | shared by all requests of a node | a fresh key is found when there is one |
| fair share (`internal/fairshare`) | token bucket per user, garbage collection | `Acquire`, `gc` | a bucket deleted while a request holds it; tokens in fractions | a user's rate is bounded, and nobody is refused early |
| smart routing, agents (`internal/smartroute`) | a policy, replaced by reloads | `Decide`, `AgentAllowed`, `Rewrite` | six sources of a decision that override each other | a class that is off is used only as the default |
| PII routing (`internal/piiroute`) | `piiRuleArmed` | `RuleArmed`, `PersonalBlocks` | the rule is read live, the nodes come from a snapshot | personal bodies stay local while the rule is on |
| attribution (`internal/proxy/attribution.go`) | bounded event channel | emit, drop on full, drain | shutdown with events queued | never blocks a request |
| quota detection, metrics, CLI, demos, probes of GPUs | none that a decision reads | - | - | - |

### 1.3 How the parts interact

A router request takes a queue slot, then memory for its body, then a token of
the semaphore of the configuration it started under (*Admission*), and runs the
failover loop (*Failover*) over nodes whose health flag, breaker (*Breaker*) and
key pool (*KeyPool*) it shares with all other requests and with the health loop.
The nodes it may use are what the class, tier, model
and PII filters and the smart-route policy leave (*RequestPath*, *SmartRoute*).
A gateway process (*Helixchannel*) starts its legs from a configuration
(*Access*, with the address rules of *ConnectTarget* and the credentials of
*Credentials*). A proxied request takes a lease from the route's store
(*RotationStore*, key chosen by *RotationPolicy*), and its handler (*Gateway*)
settles it; a CONNECT request takes a slot and becomes a *Tunnel*. On the other
side an agent reaches the gateway by one of the connections of *Transport*, the
encrypted one through *WrapConn*; each of them is to its user a *Stream*. Everything
shared is behind a mutex, an atomic or a channel, so the steps below are one
critical section or atomic operation each; between two of them anything may
happen. (The one exception, in `Failover`: a probe's two counters move together,
which only the node's own probe reads or writes.)

## 2. Modules

| module | models | notes |
|---|---|---|
| `RotationStore` | `rotation_store.go` | one action per method; the policy is any choice among admissible keys |
| `RotationPolicy` | `rotation.go` over `RotationStore` | the three policies; the policy of a route is fixed in the initial state |
| `Gateway` | pooled leg of `handleProxy` over `RotationStore` | one action per store call; a request and its lease have one name |
| `Breaker` / `BreakerCalls` | `internal/circuit/breaker.go` / one breaker under concurrent calls | operators on a record / the state machine |
| `KeyPool` | `internal/keypool/keypool.go` | operators on a record, used by `Failover` |
| `Admission` | `handleProxy` before and after the loop, `Reload` | one action per counter or channel operation |
| `SmartRoute` | `internal/smartroute` | operators on policies and requests, and what a decision owes them |
| `RequestPath` | `handleProxy` with the content of its requests, `Reload` of nodes and rules, attribution | composes `Admission` and `SmartRoute` |
| `Failover` | the loop, selection, `doUpstream`, `runHealthPass` | one load, store, breaker or pool call a step; uses `Breaker` and `KeyPool` |
| `FairShare` | `internal/fairshare`, the limiter of `liveprobe.go` | the second half of `Acquire` is a step of its own, as it is outside the scheduler's lock |
| `Limits` | breaker, fair share, forced sweeps side by side | one of the three per behaviour, chosen in the initial state |
| `Tunnel` | `handleConnect` after the 200, `copyTunnelHalf`, `tunnelDeadlines` | a half is named by the connection it reads; deadlines are times left |
| `ConnectTarget` | `connect_target.go` | operators on classes of spellings and addresses |
| `Credentials` | key sources, `secret.go` from references to a pool | operators on a route record |
| `Access` | `Validate`, `NewServer`, `runGateway`'s legs, `Serve*`, `handleConnect` up to the tunnel, `authorizeProxy`, `shutdown.go` | composes `ConnectTarget` and `Credentials` |
| `Stream` | nothing: the abstract specification | a byte stream in one direction, with end and break |
| `WrapConn` | `internal/crypto/wrap.go` | one step per call of the connection below |
| `Transport` | `client.go`, `aes_bridge.go`'s transport, `socks5/client.go` | one connection of one of four kinds, over `WrapConn`; implements `Stream` |
| `Helixchannel` | the commands of `cmd/helixchannel` that serve | composes `Access` and `Transport`; one command per behaviour |
| `*Proofs` | theorems | extend the component's module; `GatewayProofs` and `RotationPolicyProofs` also the store's proofs, `RequestPathProofs` covers `Admission` and `SmartRoute`, `LimitsProofs` covers `BreakerCalls` and `FairShare`, `HelixchannelProofs` covers `Access`, `Transport` and `WrapConn` |
| `MC*` | instances | definitions that give constants their values, symmetry |

Correspondence of state is noted beside each VARIABLE. The abstractions:

* **Time.** The store and the gateway have an integer clock that stops at
  `MaxTime`. The breaker and the key pool only compare elapsed time with a
  cooldown, so the model keeps the elapsed (breaker) or remaining (key) time and
  needs no clock bound. In `Gateway` time stands still while a handler that has
  outrun the route's timeout executes its own last steps; only waiting for the
  upstream (bounded by the timeout) and for a client (unbounded) take time then.
* **Requests.** Clients, leases and callers are small sets whose members are
  reused: a handler that returns goes back to `idle` and is the next request.
* **Responses.** An answer is its status class, the tokens it reports (or none)
  and the vendor class `vendor_error.go` derives from its body.
* **Selection.** `selectNodeFromSnapExcluding` is walked node by node in the
  order of the snapshot: `Look` loads the health flag, `Ask` calls `Allow`, and
  the handler gets what was found once no node is left. The weighted choice
  among the nodes of the best priority is any of them. In `Failover` the class,
  PII and tier filters, and the model filter, are constant sets per request,
  kept apart because `Allow` is called between them; `RequestPath` has the
  filters themselves, and any node they leave may be the healthy one.
* **Bytes.** On a wire a cell is one byte or one piece of a record; a record is a
  length prefix, an overhead (nonce and tag) and its plaintext. A record with an
  altered cell does not open: the cipher is trusted. A chunk of a tunnel is what
  one Read returns.
* **Addresses.** A host is one spelling of its class (empty, literal, numeric,
  reserved name, other name), an address is loopback, unspecified, one of two
  of this machine or another machine's. A name may resolve to anything at every use.
  Numeric spellings keep their parts, over bytes of `Base` values.
* **Credentials.** A source is read to a credential, to white space, or not at
  all; why it could not be read (unset, unreadable, timed out) makes no
  difference to the pool.
* **PII.** The detector's verdict belongs to the request; the rule and its filter
  are modelled.
* **Not read by any decision** and therefore left out: reason labels, error
  counters, metrics, `bufferingPeak`, log lines.

Variables that the code does not have, for stating properties only: `takenAt`,
`lost`, `emitted` (store), `charged`, `stalled` (gateway), `recent` (policy),
`streak` (breaker), `open` (failover; a body's open state is the connection's),
`steady` (failover; the nodes a request could have used in every state since it
arrived),
`admitted`, `strays`, `sweeps`, `refusal` (limits), `clean` (tunnel), `offered`,
`accepted`, `fault` (transport). The histories of the limits are running totals:
at each age, what was admitted since then.

## 3. Runs

| run | instance | shows |
|---|---|---|
| `store_accounting` | 1 key, 3 leases, caps of 3 requests and 4 tokens, window 3, lease timeout 2, clock to 5 | slots conserved; both caps bounded; running requests never forgotten |
| `store_retire` | 2 keys, 2 leases, cap 2 with a soft cap at half, clock to 4 | Retry-After true; cooldowns only extended; every departure reported |
| `policies` | 3 keys, 2 leases, all three policies, a window roll, a cooldown of 1 | round-robin fairness, no stampede, bounded token skew |
| `gateway` | 1 key, 2 requests, 6 answers, clock to 3, window 2 | implements the store's contract; exact cap; audit; parking; leases settle |
| `limits` | 4 callers of a breaker with threshold 3, cooldown 3; 3 requests of a user with 2 per window of 3, burst 1; sweeps with interval 2, burst 2 | streak counted exactly, open is always left; share bounded and refusals earned; sweeps bounded |
| `request` | 3 requests, one of them with a choice of contents, 2 tiers, queue 1 growing to 2, 1 permit, 2 reloads that mark and unmark a local node and bring a policy; 25 policies and 2304 requests for decisions | counters exact; tokens return home; bodies bounded; personal bodies local; decisions sound; everyone leaves but for clients that stop reading |
| `failover_shared` | 2 requests, nodes a (probed) and b (unprobed) without keys, 2 attempts, cancellations | a request that gives up early has tried every node that stayed usable |
| `failover_live` | 1 request, a before b, 2 keys on a, 2 attempts, an outage, cancellations | bodies released; requests get their answer or refusal; nodes recover |
| `tunnel` | idle 2, linger 1, 2 chunks each way, sockets of 1 chunk | half-close complete; deadlines only tightened; the tunnel ends |
| `helixchannel` | 4 families of configurations (allowed hosts, tokens and addresses of both legs, token readings, key sources and budgets), 2 callers, 1 tunnel slot; one connection of each kind with records of up to 2 cells, 4 bytes, 3 records | stream refinement; what was written arrives; connections and slots returned; access only by right; pool fits store; the process ends |
| `store_double_event` | as `store_retire` | finding 1 |
| `failover_held` | 1 request, equal priorities | finding 2 |

**Why the bounds are enough.** Slots: the confusion a settlement can cause needs
an expired reservation, a live one and a third to be admitted, hence 3 leases
and a clock that passes the lease timeout and a window roll. Caps: each is small
enough to be hit exactly and from both sides (charged and in flight), and
reports above the estimate make the token cap overshoot. Retirement: the
cooldown lengths 0, 2 and 4 lie below, inside and beyond a window of 3.
Policies: 3 keys, since with 2 a shortened candidate list has one member and
every choice is right. Gateway: the answers cover each branch of
`chargeableSample` and of `settleLease`'s parking; `RouteTimeout <
LeaseTimeout`, and stalled clients pass both. Admission: a reload gives two
semaphores with waiting and holding requests on each; three requests overfill a
queue of one beside one permit; the second reload turns the PII rule off again
between a snapshot and the body that follows it. Limits: a bucket has to be
deleted between two requests' lookups and asked again within a window, which 3
requests and a limit of two windows do. Tunnel: sockets that fill after one
chunk make every Write block, and an idle deadline that is longer than the
linger bound passes before or after it, by when it was set. Transport: a payload
of 3 over records of 2 needs two records, buffers of 1 and 2 split and keep
plaintext, and a prefix of two cells is interrupted in its middle. Addresses:
with bytes of two values every number of parts, and every last part on both
sides of its limit, is enumerated. Failover: two requests are enough for every
pair of steps on a node's flag or breaker to interleave within a selection (the
theorem covers more, and shared keys); two keys on one node make "some key
fresh" and "all keys cooling" different, and a second, unprobed node is the
failover target. `MaxRequests` and `MaxOutages` only bound counters.

**Fairness.** `Gateway`: weak fairness of a handler's steps, since its exchange
ends with the route's timeout and its copy loop when the client reads or goes
away. `Admission`: weak fairness of each handler's own steps up to its answer
(body reads are bounded by `body_read_timeout`, attempts by `request_timeout`),
strong fairness of the semaphore, because a Go channel queues its waiting senders
in order. Nothing is assumed of the copy of a response to its client: the server
sets `ReadHeaderTimeout` only (`main.go:572`), so `io.Copy` (`main.go:1574`) lasts
as long as a client that stays does not read. `RequestsLeave` says what remains
true: a request leaves again and again, or relays for ever, or waits for a
semaphore all of whose tokens are held by requests that relay. Clients need not
cancel, reloads need not come. `BreakerCalls`: time passes and
calls keep arriving; no call need ever end. `Failover`: time passes, the health
loop probes, handlers run up to the relay (attempts end by their timeout); the
end of a relay, recovery from an outage and the arrival of requests are not
assumed. `RequestsFinish` therefore ends at the relay. `RequestPath`: as
`Admission`;
nothing is assumed of the drainer, nor that another attempt is made. `Tunnel`:
goroutines run and time passes; the peers need do nothing at all. `Transport`:
goroutines run; strong fairness of reads on the encrypted leg says that a
deadline does not beat bytes that are there every single time. A caller whose
deadline passed reads on or gives the connection up (net/http does after
`ReadHeaderTimeout`, `server.go:1382`); giving up is one of the faults
`AcceptedArrives` excepts. `Access`: the
process goes on; no caller need ever finish and no leg need ever fail.

**Recovery of nodes.** `NodesRecover` says of a node whose upstream stays reachable
that it is marked healthy again and again, that its breaker admits again and
again, and that both happen at once if from some time on no attempt on it breaks
off. The last condition is there because, with two requests cancelled for
ever, the flag can be down whenever the breaker admits and the other way round.
The run has one request at a time and so does not meet that case.

**Refinement.** `Transport` declares `S == INSTANCE Stream WITH ...`: the bytes
the far end offers and has accepted, whether it closed, and what the user has
read and how its reading ended. `ImplementsStream` is `S!StreamSpec`: reading
delivers a prefix of what was offered, ends only after a close and when all that
was accepted is delivered, and otherwise breaks for good. It holds for the encrypted leg
because a reader stops after its first error; the framing alone would not give
it (section 5). `UsesStoreLegally` states that the handlers of `Gateway` take
only steps of the store's contract.

**Mutants.** Every property is paired with a plausible fault of the code (the
definitions commented "Faulty variant"), under which TLC finds it violated.

## 4. Proofs

Proved with TLAPS for all values of the constants, from the named assumptions of
the modules: finite sets of keys, leases, callers, clients and nodes; natural
numbers; positive thresholds and timeouts, which the constructors and `Validate`
enforce; a largest token report (totals are machine integers, `InputAssumption`);
keys numbered as the candidate slices are and a cursor period every number of
keys divides (`PolicyAssumption`; the cursor is a 64-bit counter, so the fairness
theorem says nothing of the selection at which it wraps); configured hosts,
sources and classes of the types the parsers produce (`ConfigAssumption`,
`BridgeAssumption`, `DecisionAssumption`). Each theorem without a property of its
own name is the inductive invariant behind the ones after it.

* **`RotationStoreProofs`** (the store).
  `TypeCorrect`, `SlotsConserved`, `RequestCapHolds` from the invariant `IInv`:
  `TypeOK`, `SlotConservation` and a per-key bound `KeySafe`. The cap alone is not
  inductive: reclaiming takes an entry out of `leases` and so admits another, and
  its late settlement charges again. What is preserved is the sum of charged,
  in-flight and orphaned reservations against the cap plus `reclaimed`, together
  with `orphaned <= reclaimed`. Conservation is proved once for the critical
  section `AdvanceAnd` and then per action from what it does to one key.
  `RunningRequestsCounted` needs `Counted`: for every instant, a key has at least
  as many entries younger than it as live reservations. A settlement pays the
  oldest entry and not its own, so no entry can be matched with one reservation;
  counting for all instants at once is what survives that.
  `TokensBounded` needs `KeysTokensSafe`, a disjunction over whether the key was
  below its token cap when it last admitted, with every outstanding lease at the
  larger of estimate and report. `WaitIsTruthful` needs that without a window no
  cap flag is ever set (`Uncapped`), and is then about arithmetic on the instants
  at which windows and cooldowns end. `RetirementsOnlyExtend` and
  `DeparturesReported` are about single steps; both rest on `KeyMoves`, what a step
  may do to one key.
* **`RotationPolicyProofs`** (the policies). `PoliciesImplementStore`: a policy
  only narrows the choice, so all of the above holds with each. `BurstsAreSpread`
  follows from `pickMin` returning a least candidate wherever the cursor starts.
  `RoundRobinIsFair`: the picks since the candidates last changed are the keys at
  the positions before the cursor, going round (`RoundInv`), which needs that
  `KeyAt` numbers a finite set without gaps and that advancing a cursor modulo a
  multiple of `n` advances it modulo `n`. `TokensStayClose`: the invariant `SkewInv`
  counts for each key its charges and the most that all its unsettled leases,
  *reclaimed ones included*, may report. Without those it is not inductive:
  reclaiming lowers the count of entries, and the late report raises the total.
* **`GatewayProofs`** (the handlers of a pooled route). `HandlerInv` ties a
  handler's position to its lease: it holds one from the grant to the settlement
  that counts. From it `GatewayUsesStore`, the refinement of the store: a second
  settlement is none, no lease is settled by another request. The store's
  invariants then hold of the gateway. `AuditAlwaysReconciles`,
  `SpentKeysStayParked` (`KeyParked`: the key stays retired at least to the instant
  its answer named, whoever else retires it) and `PooledCapIsExact` (`OnTime`: until
  a client stalls no lease is older than the route's timeout, so with a longer
  lease timeout nothing is ever reclaimed; this uses `Counted`, since a settlement
  may have taken the wrong entry).
* **`LimitsProofs`** (breaker, share, forced sweeps). `BreakerTypes`,
  `BreakerCounts`, `LimitsCountFailures`: `BInv` is the two properties together;
  late results are the case analysis of `RecordFailure`.
  `BucketsStayBounded` and `RefusalsAreEarned`, from `LimitsInv`. A bound on one
  window is not inductive, since a tick moves every admission; what is preserved is
  a bound for every age up to the window at once. From above: what was
  admitted since an age and what the bucket would hold if asked now are together at
  most a full bucket and the refill since (`EntryPaid`, `SweepsPaid`). From below:
  they are at least the first tokens or the refill since (`HeldEarned`, for every
  bucket somebody can still ask, deleted or not). The deletion of idle buckets adds
  `EntryIdle`: as long as the bucket in the map was not asked it admitted nobody,
  and the strays since are paid by callers no longer caught (`Caught`). Two idle
  windows exceed the window, so a deletion finds it free of the bucket's
  admissions and with at most one stray per caller; the callers it catches
  add one each, which is `CaughtBounded`. That an address is free for a
  new bucket is a counting argument (`AddressFree`).
* **`RequestPathProofs`** (admission and the request path). `AdmissionTypes`,
  `QueueNeverLeaks`, `TiersNeverLeak`, `PermitsNeverLeak`: `AInv` adds to the counts
  what a handler's position says about it (`Progress`: which positions still hold
  a slot, a body, a token, and that a tier is known before the slot is given up).
  `BodiesBounded` adds `QueueGate`, the bound on the waiting requests of each
  configuration. `RequestRefinesAdmission`: the composed path takes only
  admission's steps on admission's variables, so the same invariant gives
  `RequestQueueNeverLeaks`, `RequestTiersNeverLeak`, `RequestPermitsNeverLeak` and
  `RequestBodiesBounded`. `PersonalBodiesStayLocal`: `PathInv` keeps, for a request
  with a target, that a personal body decided not to be personal met a
  configuration with the rule off between its snapshot and now; every reload has
  to preserve it for all requests in flight. `DecisionsAreSound` has no state to
  speak of: it is the lemmas that `lookup` finds the class of a name it is given,
  that the heuristic answers with an enabled class of the largest threshold
  reached, and the cases of `Decide`, for policies of any length.
* **`FailoverProofs`**: `LoopInv` says at each position of the loop which response
  bodies may be open and that there is a candidate; it gives `BodiesAreReleased`.
  `SteadyNodesAreTried` needs `SteadyInv`: while a request selects, every node
  that was usable all along is tried, still to be looked at, seen and not yet
  asked, or found (`SteadyHolds`). No single step loses one, because a node that
  some step of anyone makes unusable leaves `steady` in that very step
  (`SteadyShrinks`); a selection that returns nothing then leaves only tried ones.
* **`TunnelProofs`**: `TunnelInv` says what each goroutine has copied (everything it
  read, or all but the chunk in hand) and where deadlines are relative to the
  linger bound. From it `HalfCloseLosesNothing` and `TunnelDeadlinesTighten`.
* **`HelixchannelProofs`** (the gateway process). `ProgramInv`: a socket serves only
  after the judgement of its bound address, and a caller is where it is by right
  (`AccessInv`); the allowlist was judged before the leg serves; the semaphore
  counts the callers in a tunnel; the pool was resolved from a validated route;
  a connection is open only between its dial and the end of its user. From it
  `RemoteStaysOut`, `AllowlistStaysForeign` (with the lemma that the value of a
  numeric spelling and the address its bytes form agree, for every base and number
  of parts), `PoolAgreesWithStore` and `ResourcesComeBack`.
  The same module proves the refinement `TransportsAreStreams`
  (`Spec => ImplementsStream`), for every frame, prefix, write and buffer size. A
  byte is its number, so that a stretch without a gap or a repeat is a `Run`, and
  the invariant says where each run is. On the encrypted leg (`SealedInv`) the
  records cut what was offered at some list of ends, the first of them are
  delivered or kept, and the cells gathered and on the wire follow each other from
  the next record's first cell to the last one written, damaged or not. Three
  steps need all of it: `Open` (the record that opens is the next one, since the
  first gathered cell says so), a `Timeout` inside a record (nothing gathered is
  lost) and `EndOfStream` (an empty wire between records means all that was
  accepted was read, and after a Write that failed, all but the record cut off,
  which was not accepted). For the other kinds (`PlainInv`) an answer is on the
  wire only when everything before it has been read, so what a reader takes beyond
  it are the first tunnelled bytes.

Only model-checked:

* liveness (`LeaseSettles`, `OpenIsLeft`, `RequestsLeave`, `RequestsFinish`,
  `NodesRecover`, `SilentTunnelEnds`, `AcceptedArrives`, `FailureStopsGateway`), which
  is out of the prover's reach.

Every invariant and every action property that a passing run checks is the
statement of a theorem.

The type invariants are proved (`TypeOK`, `BreakerTypeOK`, `AdmissionTypeOK`) and no
run repeats them.

## 5. Findings

1. **A departure is counted twice** (`store_double_event`). `retireLocked` looks
   at `retiredUntil` only and `applyCapsLocked` at the cap flags only, so a key
   that leaves by one and is then hit by the other raises `KeyRetiredTotal` again,
   against "counts keys LEAVING rotation" (`rotation_store.go:736`).
2. **A held response is relayed closed** (`failover_held`). After a quota answer
   with a fresh key left, a selection that returns another node falls through to
   code that closes `heldResp`, by then the response of the same attempt, and
   keeps it; if the chain ends there the relay reads a closed body
   (`main.go:1520`, against `:1550`).

Disagreements between comments and code met on the way, for which no run is kept:

* the fall-through of finding 2 also scores the node's breaker while another key
  is fresh (`main.go:1494` says only when every key is cooling), and a key retry
  spends an attempt on a node already tried (`main.go:1052`);
* an admission refusal does not clear when a lease completes, only when it fails
  or the window rolls (`rotation_store.go:505`), and other keys of the route may
  be retired meanwhile (`:504`);
* after a lost lease the next live settlement pays the orphan and leaves its own
  entry for up to another lease timeout (`rotation_store.go:357`);
* a plan-cap answer without a reset time parks for `VendorQuotaFallbackWindow`
  and not for the accounting window (`vendor_error.go:219`);
* a success of a call admitted before the breaker opened closes it within the
  cooldown (`breaker.go:44`);
* bodies in memory may exceed `MaxQueueDepth + MaxConcurrency`, since the permit
  is given back before the body (`main.go:148`); `WorkingBodiesBounded` states
  what is bounded;
* both halves of a tunnel may block in Write before either is over: no write
  deadline exists until `arm`, so the slot is kept, against "BOTH are bounded three
  ways" (`server.go:1158`); `SilentTunnelEnds` names the exception;
* `arm` gives the write deadline of a connection its recorded read deadline, so
  the surviving direction may be cut before the linger bound (`server.go:993`);
* the PII rule is read live (`main.go:1289`) and the nodes from the snapshot, so a
  personal body whose snapshot has the rule on goes to a cloud node when a reload
  turns it off in between, against "a cloud endpoint never receives one"
  (`main.go:1287`); `PIILocalOnly` states what holds;
* bytes a client sends right behind its CONNECT are dropped by both hijackers,
  which ignore the buffered reader (`server.go:1141`, `client.go:124`);
* the end of a stream, between records or cut within a length prefix, is an error
  that wraps `io.EOF` (`wrap.go:268`): an ordinary end to `errors.Is`, a failure to
  code that compares, and `EndOfStream` allows both; records carry no sequence
  numbers: order and completeness are TCP's (`wrap.go:263`);
* the client proxy binds whatever it is given, though `client.go:31` calls its
  address loopback; it passes on no half-close, and reading the CONNECT answer has
  no deadline (`client.go:178`);
* the AES leg has its own server and so its own store: the same credentials have
  two independent budgets (`gateway.go:130`);
* `listener.go:189` promises an outcome `decrypt_error` that is never recorded;
* `Ready` is false while any breaker is open, and an open breaker is left only by
  a request (`main.go:2409`), so a router its balancer has left stays unready;
* the copy of a response to the client has no write deadline, so a client that
  stays and does not read keeps its semaphore token (`main.go:1574`);
* a default class is used even if it is disabled (`smartroute.go:304`).

## 6. Not modelled

Left out for good:

* parsing and validation of the router's YAML (`internal/config`) and the shape
  rules of the channel's (URLs, prefixes, header names, timeouts): sequential
  checks on text before anything is shared;
* the providers behind a secret reference, `check-keys`, `doctor`, `kilo-verify`
  and the other diagnostic commands, benchmarks, GPU probes, CDP, the
  dual-listener demo, the ssh tunnel and the release check: input, output and
  other programs;
* the PII detector, usage and vendor parsing: text classifiers whose verdicts are
  inputs; header rewriting of the forwarder; metrics and audit lines, which no
  decision reads;
* the router's listener (`internal/proxy/listener.go`): its own accept loop is
  bypassed by `server.Serve` in `main.go`; the SOCKS5 server serves the demo.
