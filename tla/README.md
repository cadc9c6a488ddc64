# tor-pool in TLA+

tor-pool runs several tor processes, pins the sessions of its clients to them
and, when an exit starts failing, takes the instance out of service, rotates or
restarts it, and brings it back. This directory holds a model of that: what each
part keeps, what each operation does to it, what can come between two of its
steps, and what holds whatever does.

Paths are relative to the repository (`src/` is its root).

## 1. The system

| Part | Code | State | Operations |
|---|---|---|---|
| Instance health | `internal/pool/health.go` | state, failure window, streak, rung, backoff | recordFailure, recordSuccess, nextRung, remediated, clearProbation, markReady, markStarting, quarantine, release |
| Remediation, supervision, rotations | `internal/pool/remediate.go`, `pool.go` | `remediating` flags, `rotating` counts, `quietUntil`, `sweeping`, `startAttempts` | the ladder, the process watchdog, RestartInstance, RotateInstance, RotateAll, QuarantineInstance, ReleaseInstance |
| Routing | `pool.go`, `picker.go` | none of its own | Route, assign, RotateSession, divertSessions, DrainInstance |
| Session table | `internal/pool/sessions.go` | `byKey`: instance, LastSeen, Active | lookup, pin, evict, begin, finish, recordFailure, drop, unpinInstance, sweep |
| Tor supervision | `internal/tor/supervisor.go`, `process.go`, `connect.go` | the current process, `startMu`, `starting`, `ready`, the control connection | Start, Stop, Restart |
| Fleet | `internal/tor/fleet.go`, `Resize` | the instances by index | Start, Add, Remove, Instances, Get, Resize, forgetInstance |
| Exit relays, control connection | `internal/tor/control.go`, `supervisor.go` | exit node, confirmed, pin, NEWNYM time, `ctrlMu` | Newnym, refreshExit, AwaitExitNode, PinExit, UnpinExit, pinExits, the redial |
| Token store | `internal/auth/auth.go`, `store.go` | tokens in memory, on disk, in the lock-free index; last-use stamps | Open, Mint, Revoke, Flush, lookup, atomicWrite |
| Proxy | `internal/proxy` | one goroutine per connection | handleSocks, handlePinnedSocks, handleHTTP, relay |
| Event log, live stream | `internal/stats/events.go`, `internal/server/sse.go` | ring, subscribers | Add, Recent, Subscribe |
| Statistics | `internal/stats/ring.go` | buckets per second | RecordRequest, RecordRoutable, Forget |
| Login limiter, JWTs | `internal/auth/limiter.go`, `jwt.go` | failures per address | blocked, fail, succeed |
| HTTP API, metrics, dashboard | `internal/server`, `web` | none | translate requests into the calls above |
| Configuration, torrc, main | `internal/config`, `torrc.go`, `cmd/torpool` | none | validation, formatting, start-up and shutdown |

**How they interact.** A connection asks `Route` for an instance, dials through
its tor, and reports back: a failure to `RecordFailure`, the end of the request
to `Finish`. `RecordFailure` scores the report in the instance's health; a
quarantine unpins the instance's sessions and starts the ladder. The ladder,
the watchdog, rotations and operators each run in goroutines of their own and
meet in six places: the health of an instance (its own mutex), the flags and
marks (`healthMu`), the session table (`sessions.mu`), the tor process
(`startMu`, `mu`), its control connection (`ctrlMu`, and again `mu` for what is
published of the answers) and the fleet (its own mutex). All of them add to the
event log. None of these mutexes is held across two of them, so almost
everything can come between two steps.

**What is hard.** The interleavings of those goroutines; steps that fail in the
middle of a restart or a rotation; a tor that dies or stalls at any point; checks
whose answer is stale when it is used (the candidates that `readyInstances` collects
one by one, the snapshot of
`divertSessions`, `Stop` before `startMu`, the size a resize starts from, circuits
read before a NEWNYM and published after it, channels copied before they are closed);
indexes that name another instance by the time a goroutine is done with one; counters that must come back to zero;
a table bounded against untrusted keys; writes that fail or are lost. The
`hazards` of `PROJECT.json` list them line by line with the properties that watch
them.

**What makes each part correct.**

- Health: one report never quarantines, a crossed threshold is never missed, a
  probation ends only for a reason, the backoff doubles to a cap.
- Remediation: two remediations never overlap on one instance; a mark is up
  exactly while someone rotates; flags and marks come down whatever fails; a dead
  tor is restarted.
- Routing: a key its requests agree on stays with its instance, and so do they, until
  something entitles the pool to move it; a request is refused only if no instance
  was in service all the while it looked for one.
- Sessions: the table is bounded; traffic in flight is counted and keeps a
  session alive; idle sessions go.
- Supervision: never two tors on one DataDirectory; every call returns, and stopping
  a launch ends the launch alone; Starting and Ready tell the truth.
- Tokens: one handed out survives crashes, one revoked stays revoked, revocation
  works at once.
- Proxy: every routed request is finished once, where it was routed; an instance
  is blamed at most once for a request and never for a destination tor does not
  reach; no request travels to another's destination or through another's exit; a
  revoked token is refused on a connection that is already open; a silent client
  is dropped.
- Fleet: instances never share a port, however often the pool is resized; a tor has
  its ports to itself; a resize ends at the size asked for; two goroutines never work
  on one instance's tor.
- Exits: no retired exit is reported; the pin reported is the one tor works by; no
  NEWNYM falls into the cooldown of another; a rotation does not end on the relay it
  set out to leave.
- Event log: Recent is the newest events; a stream misses only what its full channel
  cost it, in the order of each author; it never holds up a producer, nor takes the
  process with it when it ends.

## 2. Modules

| Module | Models | Notes |
|---|---|---|
| `HealthStates` | the state machine health promises | the abstract specification; its `After...` operators are used by `Remediation` |
| `PoolParameters` | instances, keys | what `Routing` and `Sessions` are both about |
| `Health` | `health.go` | implements `HealthStates` |
| `Remediation` | `remediate.go` and the marks of `pool.go` | composes health (as `HealthStates`), flags, marks and tor processes |
| `Routing` | `Route`, `assign`, `readyInstances`, `RotateSession`, `divertSessions`, `quiesceForRotation` | composes the pinning table with rotations, quarantines and tor |
| `Sessions` | `sessions.go` | one action per operation, requests as sequences of them |
| `Supervisor` | `Start`, `Stop`, `Restart` of one instance | callers overlap, processes are numbered as they are built |
| `TokenStore` | tokens of `auth.go` and `store.go` | memory, file and kernel view of the file apart |
| `Accounting` | the calls a request makes to the pool, the `Router` interface | the abstract specification of the proxy; `Sessions` and `Health` see a request through these calls alone |
| `Proxy` | the SOCKS5, HTTP and session ports: handshake, routing, dial, exchange, tunnel, relay | implements `Accounting` |
| `Exits` | exit, pin and control connection of one instance: `finishRotation`, `settleExit`, `pinExits`, exit samples, the ladder's NEWNYM, `Restart`, and tor's circuits and policy | composes the pool's goroutines with `supervisor.go` and `control.go`; commands are sent, take effect and are answered apart |
| `Fleet` | `Start`, `Add`, `Remove`, `Resize`, `forgetInstance` | composes the fleet with goroutines that remediate or rotate what they once looked up |
| `EventLog` | `events.go` and the stream of `sse.go` | producers hand an event to one subscriber at a time |
| `PoolProofs` | theorems about `Health`, `Sessions` and `Routing` | extends all three, which is why these name their specifications apart (`Spec`, `SessionsSpec`, `RoutingSpec`) |
| `RemediationProofs`, `SupervisorProofs`, `TokenStoreProofs`, `ProxyProofs`, `ExitsProofs`, `FleetProofs`, `EventLogProofs` | theorems about the modules they are named for | |
| `MC...` | one per module, with the `.cfg` files | `MCRouting`, `MCExits` and `MCFleet` add symmetry sets, `MCRouting` a view, `MCExits` what each goroutine is about, `MCProxy` the keys of the session ports |

**How state and actions correspond to the code.** A variable is a field, named as
in the code where TLA+ allows it, unless its comment says otherwise. An action is what a goroutine
does between two operations on shared state, that is from one lock to the next,
with everything in between: `health`, `sessions` and `store` hold their mutex
throughout a method, so there one method is one action; `remediate`, `Route`,
`quiesceForRotation`, `Restart` and `atomicWrite` are several, and `pc` says
which comes next. Goroutines are elements of a set (`Job`, `Reporter`, `Client`,
`Mover`, `Caller`, `Request`, `Conn`, `Resizer`, `Worker`, `Producer`), whose size bounds how many run at once; an idle
element is one that may be started. Variables marked *history* in a declaration
are written and never read by the actions: they exist for the properties.

Abstractions worth knowing:

- *Health.* The window is a count of reports per kind. A report's weight depends
  only on its kind, so the counts determine the score, and which report ages out
  first does not matter to any operation. Ageing out is an action of its own
  (`AgeOut`): the code prunes when it next reads the window, and nothing can see
  the difference. `consecutive` is saturated at its threshold, beyond which
  nothing reads it.
- *Remediation.* Health is what `HealthStates` promises: a failure report may or
  may not cross a threshold. A restart takes time and may fail; what it does
  to the process is `Supervisor`, but what a failure leaves behind matters here: a
  tor whose launch gave up on it (`connect.go:71-74`) is `left` alive and not Ready, and the
  watchdog takes it up when it has made no progress for long enough; one that had
  bootstrapped and could not be stopped is `unready`, and the watchdog never
  does, because its progress stands at 100%. `settleExit` has no effect but to take time.
  Unpinning sessions is left to `Routing`, `startAttempts` is left out.
- *Routing.* `readyInstances` asks one instance after the other, in the order of their indexes,
  first whether it is Ready (`AskReady`) and then, under another mutex, whether its health
  lets it carry traffic (`Weigh`): instances come and go behind and before it.
  `preferSettled`, `countByInstance` and `pick` are one step, since what changes
  between them only changes which candidate is picked and every candidate can be.
  Expiry and eviction are `Forget`, at any time. Two histories are what the properties
  need. `promised` is set when a request begins on an untroubled instance that its
  key is pinned to, while nobody is about to move the key and every other request of the
  key on its way goes there too; it is cleared by every event that entitles the pool to
  move the key. `steady` are the instances that have been in service ever since
  the goroutine began to look.
- *Sessions.* Ages stop one past `TTL`; all that is ever asked of them is whether
  they exceed it and which is greatest. A session port finishes requests under the
  key `instance-N` without beginning them; a client may name its session like that
  too, so `FinishUnbegun` finishes any entry of such a key. The comment at
  `server.go:278` has the entry visible in the session table; nothing makes one.
- *Supervisor.* A process is unborn, built, live, told to stop, or gone. tor binds
  its ports or gives up, bootstraps, and may exit at any time: these three are
  external. The control connection reaches whichever tor holds the ports. A launch
  polls its bootstrap: a poll is sent, and then answered, failed, or overtaken by a
  Stop that closes the connection. In the last case the call may return an error or find
  `conn` nil in its deferred function and panic (`control.go:646`): `panicked` ends the
  process and with it the model.
- *TokenStore.* `renamed` is the file as the running kernel shows it, `disk` the
  one a power loss is sure to leave; `Crash` may keep either.
- *Proxy.* One handler per connection, and the pool answers it as it likes: any
  instance, or none. A destination is reachable, one that tor never reaches
  (loopback, private), or one whose name SOCKS cannot carry. The two ends of a
  connection are open, closed (an EOF or a reset by choice, which `isExpectedClose`
  takes for the end) or lost (an error that it does not know). A read of an end that
  has left may still succeed from what was buffered, which is why most steps do not
  require an open end. `culprit` records which end a failure was owed to.
- *Exits.* A circuit is an exit and whether a NEWNYM was sent since it was built;
  which circuits carry traffic is left open, so a reading may be a guess or confirmed
  and closing idle circuits closes any of them. That a guess prefers the exit
  reported last (`lastExit`) only narrows the choice. A command that gets no complete
  answer may have taken effect all the same. The grace period after a rotation
  is left out: it only keeps `pinExits` away for longer. `pinExits` and
  `RefreshExitNodes` follow each other in one goroutine of the code and are two here,
  "poll" and "sample": samples that a proxied connection schedules run beside the poll
  in any case.
  The two writes of a restart that replace the process and retire the exit are one step,
  and a restart may fail before each of its own: the wipe that fails after the old tor has
  been killed leaves its exit and its pin reported until a later restart gets further.
  `CoolsDown` ends all cooldowns at once: a shorter wait for one only drops a step
  that the other orders have. Polls of a launch's bootstrap are not commands.
- *Fleet.* Instances are numbered in the order they are made, and an index is what it
  is in the code: what ports and the pool's maps go by. `stray` is a tor that is
  launched after its instance has been removed, `unstopped` one whose removal failed to
  stop it; both run, and no property forgets about them. The watchdog may take up any
  instance of the fleet, since a tor can be dead, not launched or stalled. A
  rotation takes its mark and gives it back, a ladder stacks one more; what they do to
  tor is `Exits`. Failures of an instance that
  is gone may still be reported, since connections outlive it. An operator's restart
  (`RestartInstance`) is left out: it takes no flag, and does to a removed instance what
  the ladder's restart does.
- *EventLog.* An event is its sequence number. A subscriber is one subscription,
  whose history ends with it.

## 3. What is checked

Twelve runs (`tlc -config X.cfg M`), which are those of `PROJECT.json`. All but the last pass:

| Run | Bounds | Distinct states | Properties |
|---|---|---|---|
| `health` (`MCHealth.cfg`) | threshold 2 reports / 3 in a row, backoff 1 to 3, 4 reports in the window, 4 attempts per rung | 88,000 | `TypeOK`, `DegradedIsBelowThresholds`, `SingleReportNeverQuarantines`, `RateLimitsKeepProbation`, `BackoffDoublesUpToCap`, `ImplementsHealthStates` |
| `remediation` (`MCRemediation.cfg`) | 1 instance, 2 goroutines, 1 report, all faults, operators | 139,000 | `TypeOK`, `OneRemediationPerInstance`, `MarksAreHeld`, `FlagComesDown`, `MarkComesDown`, `DeadTorIsRestarted` |
| `routing` (`MCRouting.cfg`) | 2 instances, 1 key, 1 request at a time, 1 rotation, everything may be in trouble | 981,000 | `StaysPut`, `RefusedOnlyWhenNoneServes` |
| `routing_shared` (`MCRoutingShared.cfg`) | 3 instances, 1 key, 2 requests at once, 1 rotation, none in trouble | 360,000 | `StaysPut` |
| `supervisor` (`MCSupervisor.cfg`) | 2 callers, 4 processes | 443,000 | `SoleRestartIsClean`, `StartingIsALaunch`, `EveryCallReturns` |
| `sessions` (`MCSessions.cfg`) | 3 keys for 2 places, 2 instances, 2 requests, TTL 1 | 18,000 | `SessionsTypeOK`, `CountsTraffic`, `IdleSessionsGo` |
| `token_store` (`MCTokenStore.cfg`) | 2 tokens, 2 seconds | 54,000 | `GrantedSurvives`, `RevokedStaysRevoked`, `StampsAreSaved` |
| `proxy` (`MCProxy.cfg`) | 1 connection, 2 instances, 2 keys, both also those of session ports, 4 destinations (2 reachable, 1 private, 1 overlong), 1 token | 62,000 | `ImplementsAccounting`, `OwnUpstream`, `RevokedIsRefused`, `UnroutableSpared`, `RequestsEnd` |
| `exits` (`MCExits.cfg`) | a goroutine that rotates or restarts, one that climbs the ladder, polls or samples, 2 relays, 1 circuit at a time, pinning on | 1.9 million | `RetiredIsGone`, `PinIsTors`, `NewnymTakesEffect`, `RotationChangesExit` |
| `fleet` (`MCFleet.cfg`) | 2 resizers that ask for 2 resizes, 2 workers, 3 instances made, sizes 1 to 3 of which `ValidatePoolSize` refuses 3, ports 65532 to 65535 in two blocks of 2 | 1.1 million | `PortsAreDistinct`, `WorkIsExclusive`, `SoleResizeIsExact` |
| `event_log` (`MCEventLog.cfg`) | 2 producers, 2 streams, a ring of 2, channels of 2, 3 events | 121,000 | `RecentIsNewest`, `MissesOnlyOverflow`, `AuthorsKeepOrder`, `NeverWaits` |

The last shows a statement of the documentation that the code does not keep (`findings` in
`PROJECT.json` tells the trace). The other configurations of this directory do the same for the
races and failures that the passing properties have to except: one property each, which quotes a
statement of the repository, and which TLC finds violated. Their bounds are those of the
component's passing run unless something is said:

| Configuration | Violated | What happens |
|---|---|---|
| `MCRemediationLost.cfg` (run `remediation_lost`), without faults and operators | `RecoversOnItsOwn` | a failure scored between the end of a ladder and its flag coming down quarantines an instance that nobody remediates |
| `MCRemediationStuck.cfg`, rungs may fail | `FailureEscalates` | a rung that fails leaves the instance remediating, and the next failure is ignored |
| `MCSupervisorPanics.cfg` | `NeverPanics` | Stop closes the control connection under a bootstrap poll |
| `MCSupervisorOverlap.cfg` | `AtMostOneTor` | a restart stops nothing, because the launch it meets has not spawned, and spawns a second tor |
| `MCRoutingSplit.cfg`, 2 requests at once and nothing else | `Sticky` | two first requests of a key go out through two instances, and the later pin moves the session |
| `MCRoutingStray.cfg`, 3 instances, 1 rotation | `DivertsItsOwn` | a diversion moves a session that is on another instance by then |
| `MCRoutingLate.cfg`, 1 rotation | `NothingNewIsPinned` | a request that picked before the mark went up pins the rotating instance after the diversion |
| `MCExitsLate.cfg` | `StaysRetired` | an exit read before a NEWNYM is published after it has been retired |
| `MCExitsRotating.cfg` | `RotatingIsSkipped` | the exit poll asks for rotations, and pins after one has begun |
| `MCFleetPorts.cfg`, blocks of 10, no workers | `PortsAreFree` | an Add takes the index of a removed instance whose tor still runs |
| `MCFleetRemoved.cfg`, no workers | `RemovedIsStopped` | an instance is removed before its tor was spawned, and the tor then runs for good |
| `MCEventLogPanics.cfg` | `NeverPanics` | a channel is closed between the copy of the subscribers and the send |

Every race that a passing property has to except thus has a configuration in which it
happens, or is named under *Divergences* below. What the passing property says is what is left.

Every module has a type invariant. Where it is not a property of its own it is a
conjunct of one: of `StaysPut`, `StartingIsALaunch`, `GrantedSurvives`, `PinIsTors`,
`WorkIsExclusive` and `MissesOnlyOverflow`; that of `Proxy` is proved. That of
`Sessions`, `SessionsTypeOK`, also holds the bound of the table.

**Why the bounds are enough.**

- `health`: the threshold of 2 baseline failures makes every kind's weight
  matter: the cap bites for `blocked` and `captcha`, two rate limits weigh one
  failure. Four reports exceed every threshold. Four attempts take the backoff
  past its cap of 3, which is not a power of two times the backoff, so the last
  doubling overshoots and is cut.
- `remediation`: flags, marks and processes of different instances share nothing
  but the goroutines that a sweep runs one after the other, so one instance
  shows every interaction on an instance. Two goroutines are enough for every
  pair of ladder, watchdog, restart, rotation and sweep to overlap. What two cannot
  show is three marks on one instance at once; the theorems cover any number.
- `routing`: two instances are one that comes up behind the loop of `readyInstances`
  and one that goes down ahead of it, which is where a refusal is decided. `routing_shared` lets
  two requests of one key loose at once, under a rotation of an instance or of the session
  itself, drains and expiries; three instances are what it takes for an instance to avoid,
  one that rotates and one that is fine. It judges no refusals, and its `VIEW Unjudged` takes the
  history of refusals (`steady`) out of the states: no guard and no other variable depends on
  it. Two requests, a rotation and an instance in trouble at once were run once under the same view,
  with two instances (6.0 million states), and so were two requests among three instances
  of which two may be in trouble (334,000); both with the same result. The theorems cover any number of
  keys, instances, requests and movers.
- `supervisor`: the first launch and three restarts. Each restart builds a process,
  so `MaxProcs` bounds how many are called, and two callers overlap in every way; the
  theorems cover any number of both.
- `sessions`: three keys for two places force evictions, with and without expired
  entries; two requests share a key or not. The theorems cover any number.
- `token_store`: two tokens are one that is touched and one that must not suffer
  from it; three tokens were run once (4.1 million states) with the same result, and
  the theorems cover any number.
- `proxy`: connections share nothing but the tokens and the listeners, which no
  handler writes, so one shows what a connection can do, and the theorems cover any
  number. Two instances and two reachable destinations are what a keep-alive client
  needs to alternate both; its requests follow each other without bound.
- `exits`: two goroutines show every pair that can get in each other's way on one
  instance, in either order, and what each does follows the other without bound. With
  one circuit a reading is never ambiguous, and with two relays there is one to leave
  and one to go to. Relays are symmetric. The theorems cover any number of goroutines,
  relays and circuits.
- `fleet`: with two blocks of two ports at the end of the range, one index too high is
  another's port or none at all. Three instances are two and a successor to one of
  them; an index is reused at the first opportunity. Two resizes are one that shrinks the fleet
  and one that grows it again, or two at once, during `Start` too. `MaxMade` and `MaxResizes` end the run, which
  is why it does not check deadlock. The theorems cover any number of all of these.
- `event_log`: three events wrap a ring of two and overflow a channel of two; two
  producers are what it takes for events to overtake each other. Four events, which wrap
  it twice, were run once (1.4 million states) with the same result, and the theorems
  cover any number. `MaxSeq` ends the run; `exits`, `supervisor` and `event_log` also
  stop when the process has panicked.

**Fairness.** Safety runs assume none. `Remediation` assumes that goroutines run,
that `startMu` reaches everyone who waits for it (strong fairness of `LaunchTor`: a Go
mutex hands itself over to a waiter after a millisecond), that NEWNYM and
the control dial end (they have deadlines), and that the watchdog's ticker ticks;
not that operators act, and not that a stalled bootstrap ends, which nothing
bounds. `FlagComesDown` and `MarkComesDown` therefore except a stalled bootstrap,
see below. `DeadTorIsRestarted` assumes that operators
do not release the instance for ever. `Supervisor` assumes that goroutines run,
that a tor that was told to stop goes (it is killed after `stopGrace`), that a
running tor binds its ports or gives up, that it bootstraps, and that polls are answered or
fail. A caller whose process has panicked does not return, and `EveryCallReturns` says so. `Sessions` assumes that
requests end, that `Run` sweeps and that time passes. `TokenStore` assumes that a
write goes on to its end and that `Run` flushes; `Flush` needs strong fairness
because the ticker's goroutine competes with other mutations for the mutex. `Proxy`
assumes that goroutines run, and that reads end until a request is complete and
dials end, because they have deadlines. An exchange and a copy loop have none: they
end for sure only when the ends they wait for have gone. `RequestsEnd` therefore
assumes that both ends leave at some point. One is not enough: `relay` waits for
both directions (its comment at `relay.go:24` says "until either side finishes"),
and a server that never closes keeps the tunnel of a client that did.

`EventLog` assumes that a goroutine in the middle of `Add` runs, and nothing at all of
streams: that is what `NeverWaits` is about.

**Divergences.** A passing run's property that has to except something says so in
its comment. What it excepts, and what else came up while modelling, with the configuration
that shows it or the way to see it:

- *A rung that fails.* `docs/operations.md:46` says "The pool recovers on its own once
  the ladder finishes" and `remediate.go:165` "the next failure or operator action
  escalates". When NEWNYM or a restart fails with tor alive, the state stays
  remediating, in which failures are ignored (`health.go:271`), and the watchdog sees a
  tor that lives. `MCRemediationStuck.cfg`.
- *A tor that could not be stopped.* `Stop` clears `ready` before it signals. When the
  signal fails, the tor that runs on is not Ready, and its progress stands at 100%, so that the
  watchdog never takes it for stalled (`unready` in `Remediation`).
- *A restart that stalls.* `docs/configuration.md:24-30` says that an instance whose
  bootstrap stalls is restarted, and a second time with its state wiped. The restart
  runs under the `remediating` flag and itself waits for the bootstrap, with no
  deadline: when it stalls as well the flag stays up and there is no second restart.
  `FlagComesDown` and `MarkComesDown` except an instance that is stalled.
- *One key on two instances.* `README.md:25` says "Same key, same instance". Two first
  requests of one key both find nothing, both assign, and go out through two instances
  (`pool.go:366`). `MCRoutingSplit.cfg`. `StaysPut` gives its promise once the requests agree.
- *A snapshot that is old.* `divertSessions` assigns every session of its snapshot anew, wherever
  it is by then (`MCRoutingStray.cfg`). `StaysPut` promises nothing to a key that a mover is about.
- *A choice that is old.* A request that has picked an instance pins it although it
  rotates by then (`MCRoutingLate.cfg`); it begins there as well. `StaysPut` promises nothing on an
  instance that rotates.
- *A refusal that nobody caused.* `readyInstances` looks at one instance after the other. When one
  comes up behind it and another goes down ahead of it, the request is refused though one
  of them served at every moment. `RefusedOnlyWhenNoneServes` is about instances in service
  all the while.
- *Two tors.* `supervisor.go:43-47` says that a restart never runs alongside the Start it
  replaces. Restart calls Stop before it takes `startMu`, and Stop does nothing about a
  process that is not spawned yet. `MCSupervisorOverlap.cfg`; `SoleRestartIsClean` excepts it by
  `overlapped`.
- *A Stop that takes the process down.* `supervisor.go:570-571` has Stop interrupt a Start. It closes
  the control connection under the bootstrap poll of the launch, whose deferred call dereferences
  nil (`control.go:646`). `MCSupervisorPanics.cfg`.
- *A wipe that fails.* It comes after the old tor has been killed and before its pin and exit are
  withdrawn (`supervisor.go:603-617`), so that an instance without a tor goes on reporting
  both. `RetiredIsGone` and `PinIsTors` are about a tor that runs.
- *Blame for what clients do.* `server.go:360-367` and `relay.go:26-30` spare an instance what is not its
  doing. A host name over 255 bytes on the HTTP port, a client that leaves in the
  middle of a request body, and one whose network is lost in a tunnel are scored
  (`http.go:192`). `InstanceFaultOnly` as a property of `MCProxy.cfg`.
- *Traffic that is not counted.* `sessions.go:226` says that a session with traffic in
  flight is never idle. An entry that is dropped or unpinned takes its count along, and
  the next entry of the key starts at zero: a sweep may drop it, and one that ends is
  taken off the count of others. `CountsTraffic` excepts the keys in `strayed`.
- *The cooldown of a lost connection.* A redialled connection does not know when the last
  NEWNYM was sent (`connect.go`, `control.go:228`), so the next one goes out within tor's
  cooldown and is coalesced away. `NewnymTakesEffect` excepts it by `knows`.
- *A reading published late.* `supervisor.go:328-333` says that the exit a NEWNYM retired
  would be wrong to report. What `refreshExit` has read before is published after it
  (396-407). `MCExitsLate.cfg`. `RetiredIsGone` excepts it as `strayed`, and so does
  `RotationChangesExit`, whose rotation then pins the relay it left.
- *A pin against a rotation.* `pinExits` checks for a rotation at `pool.go:294` and pins at 301,
  which its comment at 285-287 says would undo the rotation. `MCExitsRotating.cfg`.
  `RotationChangesExit` asks for a policy that stayed in force (`alone`).
- *A pin published late*, or one whose answer was lost: tor works by another policy than
  `pinnedExit` says. `PinIsTors` excepts it by `drifted`.
- *A restart closes a connection in use.* Stop takes no `ctrlMu` and closes the control
  connection, which sets its `conn` to nil (`supervisor.go:582`); the deferred call of the command in
  flight then dereferences it (`control.go:646`), and the process dies. `control.go:45-47`
  asks callers to serialise. `NeverPanics` as an invariant of `MCExits.cfg`.
- *A removed instance that runs.* Remove stops a tor that may not be launched yet, and
  nobody stops it afterwards; the next instance of that index shares its ports.
  `MCFleetRemoved.cfg`.
- *Ports that are not free.* Remove gives the index up before it stops the tor, so that an
  Add of another resize has the ports of a tor that still runs, as it has after a Stop that failed
  or an instance removed before its launch. `MCFleetPorts.cfg`. No passing property is about
  the ports of tors, as distinct from those of instances.
- *A stream that takes the process down.* `events.go:87-88` says that a stalled dashboard must never
  hold up traffic; that one which leaves cannot do worse is said nowhere, but surely
  meant. Add sends, after the unlock, to the channels it copied, and `release` closes its
  channel in between (138-143). `net/http` recovers a caller in a handler, nothing the ladder or the
  watchdog. `MCEventLogPanics.cfg`.
- *Resizes that overlap.* The size is read before the list of instances: two at once, or
  one while `Start` still adds, end at neither size, and `instances[size:]` may panic
  (which `net/http` recovers). `SoleResizeIsExact` without its conjunct on `sole`.
- *`forgetInstance` under somebody at work.* It clears the flag and the marks of an index
  whose ladder or rotation goes on, and that one's end clears those of a successor, and
  releases the successor's health (`remediate.go:269`). `WorkIsExclusive` excepts the indexes in `haunted`.
- *The bounds of a resize.* `remediate.go:499` says "The same bounds boot validation
  applies". `ValidatePoolSize` at run time does not compare the ports with those of
  the listeners and session ports, as `config.Validate` does at boot.
- *Attempts in parallel.* The login limiter checks before the password is compared and
  counts after it, so as many attempts as run at once pass its limit. Not modelled.

**Properties are tested against mistakes.** Beside several definitions stands a
mutated form of it, marked *Mutant*: the same operation with a plausible bug, a dropped
guard, an early return that forgets a cleanup, a threshold off by one.
`PROJECT.json` pairs every property of every passing run with a mutant that
breaks it.

## 4. What is proved

For every value of the constants that satisfies the modules' assumptions, with
TLAPS:

| Theorem | States |
|---|---|
| `PoolProofs!TypeCorrect` | `TypeOK` of `Health` |
| `PoolProofs!DegradedStaysBelow` | `DegradedIsBelowThresholds` |
| `PoolProofs!OneReportIsNotEnough` | `SingleReportNeverQuarantines` |
| `PoolProofs!ProbationOutlastsRateLimits` | `RateLimitsKeepProbation` |
| `PoolProofs!WaitsDoubleUpToCap` | `BackoffDoublesUpToCap` |
| `PoolProofs!HealthImplementsHealthStates` | `ImplementsHealthStates`, the refinement |
| `PoolProofs!TableIsBounded` | `SessionsTypeOK`, with the bound of the table |
| `PoolProofs!SessionsCountTraffic` | `CountsTraffic` |
| `PoolProofs!SessionsStayPut` | `StaysPut`, for any number of requests of a key at once |
| `PoolProofs!RefusalsHaveNoCandidate` | `RefusedOnlyWhenNoneServes` |
| `FleetProofs!PortsAreAlwaysDistinct` | `PortsAreDistinct` |
| `FleetProofs!SoleResizeIsAlwaysExact` | `SoleResizeIsExact` |
| `FleetProofs!WorkIsAlwaysExclusive` | `WorkIsExclusive` |
| `EventLogProofs!RecentIsAlwaysNewest` | `RecentIsNewest` |
| `EventLogProofs!StreamsMissOnlyOverflow` | `MissesOnlyOverflow` |
| `EventLogProofs!AuthorsAlwaysKeepOrder` | `AuthorsKeepOrder` |
| `RemediationProofs!TypeCorrect` | `TypeOK` of `Remediation` |
| `RemediationProofs!RemediationsAreExclusive` | `OneRemediationPerInstance` |
| `RemediationProofs!MarksAreAlwaysHeld` | `MarksAreHeld` |
| `SupervisorProofs!StartingIsAlwaysALaunch` | `StartingIsALaunch` |
| `SupervisorProofs!SoleRestartIsAlwaysClean` | `SoleRestartIsClean` |
| `TokenStoreProofs!GrantedAlwaysSurvives` | `GrantedSurvives` |
| `TokenStoreProofs!RevokedIsForEver` | `RevokedStaysRevoked` |
| `ProxyProofs!TypeCorrect` | `TypeOK` of `Proxy` |
| `ProxyProofs!AccountingIsKept` | `ImplementsAccounting`, the refinement |
| `ProxyProofs!RequestsAreNotCrossed` | `OwnUpstream` |
| `ProxyProofs!RevokedTokensAreRefused` | `RevokedIsRefused` |
| `ProxyProofs!UnroutableIsSpared` | `UnroutableSpared` |
| `ExitsProofs!PinIsAlwaysTors` | `PinIsTors` |
| `ExitsProofs!RetiredIsAlwaysGone` | `RetiredIsGone` |
| `ExitsProofs!NewnymAlwaysTakesEffect` | `NewnymTakesEffect` |
| `ExitsProofs!RotationAlwaysChangesExit` | `RotationChangesExit` |

These are all the invariants and all the action properties that the passing runs check,
and both refinements.

*Assumptions.* `PolicyAssumption` is what `config.Validate` lets through:
thresholds and backoff positive, the cap no less than the backoff.
`RemediationAssumption` only says that `None` is no instance, that the goroutines
are finitely many and which faults there are. `ProxyAssumption` says that `None` and
the names of the ports are none of the other things, that a session port has a key,
and that a private literal fits into a SOCKS request. `FleetAssumption` and
`PoolSizeAssumption` are the port layout and what `Load` refuses; `EventLogAssumption` is that
the ring and the channels have a place. `SessionsAssumption` is what `config.Validate`
says of `SESSION_TTL` and `MAX_SESSIONS`, and that keys and requests are finitely many;
so are keys and instances in `RoutingAssumption`, and the callers in `SupervisorAssumption`.
`AbsentAssumption`, that no file holds what stands for its absence, and
`NoneIsNoConnection` keep apart what `nil` and an error do in the code. The bounds
(`MaxProcs`, `MaxSeq`, `MaxTroubled` and the like) are any numbers their module's assumption admits.

*Health.* `TypeCorrect` is inductive as it stands. `DegradedIsBelowThresholds` is
inductive over it because every call that raises a count decides the state in the
same step, a success lowers the streak, and a report that ages out never raises
the score (`ScoreAgesDown`, a fact about the weighted sum). That one report is
not enough follows from `WeightBounds`: the cap keeps every weight below
the threshold. `RateLimitsKeepProbation` is inductive because `trial` is cleared by
every call that can leave probation. The refinement is a step simulation: each
action is one call of `HealthStates`, and the passing of time stutters.
`WaitsDoubleUpToCap` is about the loop of `backoffDelay`, which the model writes as a recursive function.
That it exists and unfolds would be an induction; here it is shown from the finite
functions that unfold that far (`Turns`): if some number had none there would be a
smallest such number, and `SmallestExists` finds one among finitely many lower bounds.
Then the invariant `WaitIsOfAttempts`, that a wait is the one of the attempts spent so far, is all that is
needed.

*Sessions.* `CountsTraffic` is not inductive: a new entry starts at zero, which is right only if
its key has nothing in flight or is excepted. `Missed` says so of every key that has
no entry, and each operation that drops one pays for it in `strayed`. The bound rests on `RoomIsMade`: what
`evictIfFullLocked` drops from a full table is never nothing, because the oldest of
finitely many entries exists.

*Routing.* `Settled` is what a promise takes: the pin, an instance that is up and does not rotate,
nobody who moves the key or is about to, and no request of the key that has found
anything else. It is inductive where `StaysPut` is not, because a request looks its instance up
before it judges it: that it will not be dropped, shunned or assigned anew depends on the instance being
up and on nobody rotating it. Every event that disturbs one of these clears the promise, and a
request that begins gives one only if all the others agree (`PromisingKeeps`). No
hypothesis limits how many requests of a key there are. For `RefusedOnlyWhenNoneServes` the
invariant is `Thorough`: whatever has been in service since a goroutine began to look is
either a candidate already or yet to be looked at, so that a loop that ends with
no candidate has nothing left in `steady`. `SomeoneIsPicked` adds that of the candidates there
are, `preferSettled` and `pick` leave at least one, since a finite set has a least loaded member.

*Remediation.* The type invariant says of each goroutine which steps its kind can be in (`JobPc`): it is what makes the case
distinctions on `pc` possible. `OneRemediationPerInstance` couples exclusion with
its cause, that whoever runs under a flag is on a flagged instance; either alone
is not inductive. Its proof sorts the actions into those that bring nobody under a
flag (`NoNewFlagIsHarmless`), those that put one up on an instance that had none
(`SpawnUnderFlag`), and the one that takes one down with the goroutine that held it.
`MarksAreHeld` counts: each action leaves the set of holders alone, adds the goroutine that takes
a mark or removes the one that gives it back (`NoMarkMoves`, `MarkReturned`), and the
mark moves by the same one.

*Supervisor.* `StartingIsALaunch` follows once `Mutex` says that whoever is between `Lock` and the
end of a launch holds `startMu`, so that there is one. `Room` is a count: processes built, and
restarts that have yet to build theirs, stay within `MaxProcs`. `SoleRestartIsClean` is an implication
from `~overlapped`, and so is its invariant `Clean`: the one launch that is not
spawned yet has told the newest process to stop (`Aimed`) and seen it gone (`Cleared`), nothing but
the newest lives (`NewestOnly`), and Ready speaks of a tor that bootstrapped (`ReadyIsBooted`), as does an answer that a launch has
yet to act on (`Reported`).

*TokenStore.* A token that was handed out is in both views of the file and in memory (`Kept`), one whose
revocation succeeded in none (`Barred`). Both are inductive only with what memory holds for
the write in progress (`InProgress`): a token being minted is there and one being
revoked is not, and from the rename to the sync the kernel's view is memory. `Built`
keeps a token that is yet to be made from being one that was revoked.

*Proxy.* But for `OwnUpstream` the properties are not inductive. The invariant has a part for each
way in which a handler's place determines what it has done: `Calls`, the last call
it made to the pool, with a failure recorded whenever it made a blaming one;
`Served`, that the request in hand is the one that was routed and that a connection
kept for a plain request goes through the instance routed to; `Checked`, that nobody
got there on a secret that was not valid; `Carried`, which is `OwnUpstream`;
`Reachable`, that a connection never leads to a private destination. `Answering`, the
instance that `exchange` reads off its connection and the others off the route, is
what ties them: the refinement needs `Served` to know that both are the same. Each
action has a lemma that it keeps the invariant, and `AccountingIsKept` maps each to
a call of `Accounting` or a stutter.

*Fleet.* That no two instances share a port needs to know that no index reaches the
block, and that is a matter of counting: the lowest free index is at most the number
of instances (`FreeIndexIsLow`: if all of 0..n were taken by n instances, the map
from instances to indexes would be onto a larger set). That number stays below the
block because whoever grows the fleet has exactly as many to add as are missing from a
size that was validated (`GrowsToSize`), which only holds while resizes take turns
(`OneAtATime`); the invariant `FleetInv` is therefore an implication from `~collided`. `SoleResizeIsExact` says of a resizer that has the fleet to itself how
far the fleet is from its size at each step (`OnTarget`); how many it must remove
is known because distinct indexes put the instances in a row (`RowOfInstances`). `WorkIsExclusive`
speaks of the indexes that nobody was working on when they were forgotten: there the holder
of a flag is one and has put it up (`InOrder`). How many marks there are is a count
(`Counted`): as many as there are goroutines with one to take down, ladders included, and on an
index that was forgotten under somebody no more than those, so that none is left over
when the last of them is through and the index is in order again.

*EventLog.* `RecentIsNewest` is inductive once the slots are told apart by their
distance from `next`: `NewestFirst` says that the i-th slot behind it holds the i-th newest event, for every i
the ring holds, and `FullTellsCount` that `full` and `next` know how many that are.
`Wraps` and `RingIndexes` are the facts about `%` the proof rests on. For the streams, `FanInv`
says where each event is: delivered, lost to a full channel, or still in the hands of its
producer, and in one of these only (`Accounted`, `Apart`). `AuthorsKeepOrder` then rests on
`InFlight`: what a producer still hands round is the newest of its own, so whatever it delivers comes
after all of its own that were delivered before.

*Exits.* One invariant serves all four properties, since they lean on each other. `Mutex` is who
holds `ctrlMu`; a connection that knows of a NEWNYM knows of its cooldown, and what replaces a connection
under somebody who uses it is new and knows of none (`Cooldowns`), from which
`NewnymTakesEffect` follows. `Restarts` says that nothing asked of a tor survives it. `Pins`: whoever publishes an
answer and was not overtaken has set the policy in force, and a pin that is
reported is tor's, or an answer to come will say otherwise. `Avoided` follows a rotation: while its
policy is in force no new circuit goes through the relay it avoids, from its NEWNYM on
no reading that counts as new does, and then the exit it reads is another.
Steps are first reduced to what they do to the goroutines (the `...Job` lemmas), so that
each part of the invariant is proved once for several actions.

*Only model-checked.* The eight liveness properties (`FlagComesDown`, `MarkComesDown`,
`DeadTorIsRestarted`, `EveryCallReturns`, `IdleSessionsGo`, `StampsAreSaved`,
`RequestsEnd`, `NeverWaits`): progress under fairness, and ENABLED, are out of the
prover's reach.

## 5. What is not modelled

- *The wire of the control protocol*, of SOCKS5 and HTTP; JWTs, the torrc, metrics:
  parsing and formatting, sequential byte handling that unit tests reach. Two readers
  of one reply stream (`WaitBootstrapped` polls without `ctrlMu`, `supervisor.go:150`) would
  need the bytes.
- *Statistics*: counters and buckets under one mutex, read by the dashboard alone.
  Byte counts and latencies likewise.
- *The login limiter*: a table under one mutex; what is wrong with it is said above.
- *The HTTP API and the dashboard*: translations into calls that are modelled.
- *Configuration*: a pure function; its guarantees are the assumptions above, the port
  layout and `ValidatePoolSize` are in `Fleet`.
- *Shutdown*: the pool's context is never cancelled in the models.
- *The wait for `MIN_READY` at boot* (`fleet.go:81-97`): it counts first launches and is not
  told of restarts, so that a pool whose first launches fail stays in it until the context ends;
  nothing else waits for it.

## 6. Plan

1. The safety half of the liveness properties: that a flag or a mark is never up without a
   goroutine that will take it down, that a caller never waits for a mutex nobody holds.
2. What an excepted race can leave behind: that a split key has one pin again after its
   requests, that a late reading is displaced by the next confirmed one.
3. `Limiter`: the fixed window, its cap and attempts in parallel, if the set of runs
   is to grow.
