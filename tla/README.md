# netchaos: a verification project

netchaos is a Go package that simulates a network in memory: a `Network` hands out
`net.Listener`s and `net.Conn`s whose traffic goes through buffered pipes, and injects
faults (latency, bandwidth limits, loss, duplication, corruption, partitions, resets) that
are reproducible from a seed. This project models its core in TLA+, checks the models with
TLC on small instances, and proves the safety of every component with TLAPS for all values
of the parameters.

## The system

| Part | Source | State | Operations |
|---|---|---|---|
| Directional pipe | `pipe.go` | `readable`, `pending`, `bufBytes`, `closed`, `readClosed`, `eofSeen`, the `notify` channel | `tryRead`, `tryWrite`, `close`, `abort`, `broadcastLocked` |
| Latency release | `latency.go` | the pipe's one `timer`, a release time per held unit | arm on append, re-arm, `releaseDueLatency` callback |
| Fault evaluator | `faults.go`, `loss.go`, `duplicate.go`, `bandwidth.go`, `corrupt.go` | `busyUntil` per pipe, the Network's `faults` | `installFaultPolicy`'s `deliver`, run by `tryWrite` with `p.mu` held |
| Connection ends | `conn.go` | `closed`, `resetCh`, two pipes, two deadlines | `Read`, `Write`, `Close`, the deadline setters |
| Deadlines | `deadline.go` | time, timer, generation channel | `set`, `stop`, `channel`, `expired`, the timer's callback |
| Reset | `reset.go` | `resetTargets` by pair of peers | `Reset`, `registerReset`, `deregisterReset` |
| Listener | `listener.go` | `incoming`, `reserved`, `closed` | `reserve`, `fill`, `Accept`, `Close` |
| Network | `netchaos.go` | `listeners`, `nextListenPort`, `nextOrdinal`, `faults` | `Listen`, `DialContext`, `Set*`, `deregister` |
| Partitions | `partition.go` | `partitions`, the shared `partNotify` channel | `Partition`, `Heal`, `checkPartition` |
| Address book | `addressing.go`, `addr.go` | `peerIPs`, `ipOwners`, `nextIPv4`, `nextIPv6` | `peerIPLocked`, `canonicalPeer`, parsing |
| Random streams | `rand.go` | one PRNG per fault, direction and connection | `bernoulli`, `uniformDuration`, `corruptionSite` |
| Trace | `trace.go` | a recorder per direction | `record`, `Trace` |
| Options, errors | `options.go`, `errors*.go`, `*_errno*.go` | none | validation, sentinels |

How they interact: a `Write` copies its bytes and calls `tryWrite`, which admits the unit
against the bound and calls the evaluator, still under `p.mu`; the evaluator reads the
partition state and the Network's fault configuration and drops the unit, makes it readable
or holds it in `pending` under a timer. Blocked calls wait on channels that are closed and
replaced on every change: `notify` of the pipe, `partNotify` of the Network, the generation
channel of a deadline, and the `closed` and `resetCh` of the end. `DialContext` passes
through several critical sections (partition check, lookup, `reserve`, ordinal, address,
reset registry, `fill`) and holds no lock in between. `listener.Close` holds `l.mu` while it
takes `n.mu`; no other path nests them. `Reset` takes the pair's connections out of the
registry, signals them one by one and then aborts their pipes one by one.

What is hard here: callbacks of timers that were already stopped; wakeups lost between a
check and a wait; three different channels a Read may be waiting on; Close, Reset and calls
in flight interleaved without a common lock; a slot reserved in one critical section and
used in another; setters that change the fault mix mid-stream; EOF that has to be held
back, then reported once; names, literals and synthetic addresses that may come to mean
one peer or two, depending on the order of calls; word arithmetic whose errors are too rare
for a statistical test; a trace read while it is written. `PROJECT.json` lists these as hazards, each at its line.

What makes each part correct:

* pipe, latency and evaluator: bytes reach readers in write order with no gap, the buffer
  accounting is exact, nothing held back is stranded, no blocked call is forgotten, EOF
  comes last and stays, `abort` leaves nothing behind;
* connection ends and deadlines: an error says what happened (EOF only when the peer
  closed, never for a reset or a local Close), a Close, a Reset or an expired deadline ends
  every blocked call;
* listener and Network: the accept queue never overflows or blocks the dial that fills it,
  a slot is held for exactly the dials under way, no connection is forgotten between dial
  and accept, an address belongs to one listener, the reset registry holds no end whose Close is through,
  a dial waits only while its pair is partitioned;
* random streams: what a fault decides and draws does not depend on other faults, bounded draws are
  unbiased and in range, the serialization delay is exact or clamped;
* address book: an address means one peer, from its first use on; the addresses a
  connection shows name the pair it is partitioned and reset by; an open listener is
  reached at its address;
* trace: a result is ordered by (Ordinal, Side, Seq), complete up to the call, and never
  taken back.

## Modules

| Module | Role |
|---|---|
| `Link` | abstract: the stream one direction promises its ends, without buffers, time or callers |
| `Pipe` | one direction: `pipe.go` + `latency.go` + the evaluator of `faults.go` |
| `MCPipe` | the start configurations of its instances |
| `PipeProofs`, `PipeSafetyProofs` | theorems about `Pipe` |
| `PipeRefinement` | the theorem that `Pipe` implements `Link` |
| `Conn`, `MCConn` | both ends: `conn.go`, `deadline.go`, and `Reset` of the pair |
| `AcceptQueue` | abstract: the bounded FIFO queues that listeners promise, without dials, reservations or names |
| `Establish` | `DialContext` in its critical sections, `Listen`, `Accept`, listener `Close`, the registries |
| `Draws`, `MCDraws` | what the evaluator draws: `rand.go`, `corrupt.go`, `bandwidth.go`, the options and the setters |
| `AddressBook`, `MCAddressBook` | whom an address means: `addressing.go`, `addr.go`, for `Listen`, `DialContext`, `Partition`, `Heal`, `Reset` |
| `FaultTrace` | `Network.Trace` against dials, writers and Close: `trace.go` |
| `ConnProofs`, `EstablishProofs`, `DrawsProofs`, `AddressBookProofs`, `FaultTraceProofs` | theorems about the module of that name; `EstablishProofs` also that `Establish` implements `AcceptQueue` |

Definitions marked "Seeded fault" are broken variants of the definition that follows them.
No specification uses them; they serve to show that the properties would notice.

### Pipe

Every critical section under `p.mu` is one action. Bytes are abstracted to their position
in the order of acceptance: a payload is an interval `lo+1..hi` with the unit it came from,
so a partial read moves `lo`, and a copy made by duplication is a second interval of the
same unit. `log` (unit of every accepted byte) and `got` (unit of every byte handed out)
are history variables. A Read is described by the number of payloads it uses up (`StopsAt`)
and closed forms for what it copies and leaves; `CopyLoop` is the loop of `tryRead` itself,
chunk by chunk, and `ReadIsCopyLoop` compares the two.

| Model | Code |
|---|---|
| `Write`, `RetryWrite`: `Admit` / `WriteBlocks` / `WriteRefused` | `tryWrite` and the loop around it |
| `DeliverPartitioned`, `DeliverDropped`, `DeliverNow`, `DeliverLater` | the evaluator's four ways out |
| `Read`, `RetryRead`: `ReadAborted` / `ReadData` / `ReadEmpty` | `tryRead` and the loop around it |
| `TimerFires`, `ReleaseDueLatency` | the runtime starts the callback; the callback gets `p.mu` |
| `Close`, `Abort` | `pipe.close`, `pipe.abort` |
| `SetLatency`, `SetPacketLoss`, `SetDuplication` | the Network's setters (each only enables) |
| `Partition`, `Heal`, `ChangeElsewhere` | any change closes the one `partNotify` |

A Bernoulli draw with an enabled rate may go either way; a latency draw may give any value
in the range: `Draws` says how. A unit's corruption changes its content only and is not
visible here. The
evaluator reads the partition state and the configuration one after the other while it
holds `p.mu`; the model reads both at once, which is the same up to the order of
independent calls of the Network. The bounds `MaxUnits` and `MaxNow` limit the writes and
the idle time; time always runs on while a unit is held.

### Conn

The loops of `Read` and `Write` hold no lock from one check to the next, so every check is
an action (`CheckClosed`, `CheckReset`, `Snapshot`, `CheckExpired`, `TryRead`/`TryWrite`,
the second look before an error is returned, `Select`), and so is every statement of
`Close` and every signal and abort of `Reset`. A pipe is reduced to the numbers of units
held and readable and its flags, `Room` units of capacity and one duplicate more: the detail
is Pipe's. A deadline is relative to the clock
(`zero`, `past`, `future`); its timer, the callbacks that wait for `d.mu` and a setter
between its check and `set` are explicit. `SetDeadline` is the two setters of an end side by
side. `Reset` may be called again at any time; with no target left it changes nothing.
`reacted` is history: the ends that were closed after their own reset signal, by a user who
could see it. `Closers` names the ends whose user calls `Close`, `Calls` the operations in use;
`MaxCallbacks` bounds the late callbacks of one deadline.

### Establish

One action per critical section of a dial (`CheckPartition`, `Lookup`, `Reserve`,
`TakeOrdinal`, `AssignAddress`, `RegisterReset`, `Fill`); listener `Close` is
`CloseListener` (which keeps `l.mu`, see `Unlocked`), `Deregister` and `Drain`. `conn.Close`
closes `c.closed` and deregisters the end with no lock in between, so it takes two steps
whoever calls it: the holder of an end (`CloseConn`, `ForgetConn`; `closing` in between),
`fill` when it comes too late (`Fill`, `FillForgets`; `late`) and the drain (`Drain`,
`DrainForgets`; `dropped`). An end is `closed` when it is deregistered; what is left of
`Close` is in `Conn`. Peer names
are canonical, listening peers are names and not literals, and a dialer may be unnamed,
named, or named with an IPv6 literal. Ordinals start at 1 so that the connections form a
sequence. Hostless `Listen` and literals inside the synthetic ranges are in `AddressBook`,
trace registration in `FaultTrace`. `MaxListeners` and `MaxOrdinals` bound the histories.

What all this amounts to for whoever calls `Accept` is `AcceptQueue`, by the mapping
`Waiting` (each listener's `incoming`), `Phases` (open, closed, or gone once drained) and
`AcceptorEnds` (an end is closed there from the first step of its `Close`). There `fill` is `Enqueue`, or `TooLate` if the listener has closed since
`reserve`; `Accept` is `TakeNext`, the drain of `Close` is `Discard` until `Finish`. A dial's
other critical sections, the second steps of `conn.Close`, `Deregister`, `Partition`, `Heal`
and `Reset` leave the queues alone.

### Draws

The evaluator of one direction on its random streams. A stream's words are a choice (the
code takes them from ChaCha8, keyed by SHA-256 of seed, ordinal, side and kind), so a draw
is the set of its outcomes, each with the number of words it takes; `MaxResamples` bounds
the words one bounded draw rejects. `Evaluate` is the evaluator for one unit under a given
configuration: the partition gate, which returns before any draw, the four trials, the return
for a dropped unit, the site. For each kind, `inStep` compares what it does under the
configuration with what it would do under `Only` that kind, for the same unit, partition
state and words in the streams: what the fault decides and how many words of its stream are
used. Once out of step a kind stays so. Partitions are the same on both sides because a
partitioned unit draws nothing: they do shift every stream, as `options.go` says. `W` is the
number of words (2^64 in the code) and `Unit` the grain of a rate (2^53); `Hi`, `Lo` and `Div`
are `bits.Mul64` and `bits.Div64`, whose panic for a quotient that is no word is the value
`Panics`, which no delay may be. `NewNetwork` applies any list of options in order, one `ApplyOption` each, and
validates once at the end; a setter
validates its own value. An invalid value panics, which is no step here. The delays are
those of `serializationDelay`; how they add up on the link is in `Pipe`.

### AddressBook

A host is a pair of a kind and an index: a name, a literal (`v4`, `v6`, or `mapped` for
`::ffff:a.b.c.d`), a wildcard or an ephemeral name; indices below `Space` lie in the
synthetic range, so that literals and allocated addresses meet. `Listen` is one section
under `n.mu`. A dial resolves its two hosts (`Resolve`), may wait for `Heal` with the names
it has, and goes on (`Connect`) with the lookup, the ordinal and its own address; those
three are one step here, as `Establish` has their interleavings, and one dial is under way
at a time. `canonicalPeer` is the pair `CanonicalPeer` (whom a host means) and `Reserved`
(the book once it was asked); `peerIPLocked` is `PeerIPIs` and `PeerIPFails`, its loop
`StopsAt`. A partition given by `WithPartition` is a `Partition` before any other call. A
`Listen` refused because its literal is a name's address changes nothing and is no step.

### FaultTrace

A direction has a recorder from the moment its ends exist and a handle once registered. A
dial takes its ordinal, registers its two directions one by one under `traceMu`, and fills;
`Then` is the order of these. `Trace` is its call, the clone and sort under `traceMu` (kept
to the return), one snapshot per recorder, and the return. The library's stable sort is
specified by its result, a permutation that is in order. An event is reduced to its
sequence number: what is in it is `TraceMatchesStream` of `Pipe` and `SiteInUnit` of
`Draws`. `Fill` hands both ends out at once, although the dialer's is returned a little
later. `owed` is history. `MaxEvents` bounds the units written in all directions together.

## Runs

Deadlock checking is off in every run but those of `Draws`, where a unit can always be
written: elsewhere all callers may stop calling, or meet a bound of the instance, so quiet
states are legitimate. That nobody hangs who should not is stated by the liveness properties and by
the `NoLostWakeup`, `PipeWaitCovered`, `DeadlineCovered` and `WaitingIsPartitioned`
invariants instead.

| Run | Question | Instance | States |
|---|---|---|---|
| `pipe_delay` | Do order, bound, timer, wakeups, EOF and abort survive delays and competing callers, and does the pipe implement `Link`? | two readers, two writers, two writes of 1 or 3 bytes against a bound of 2, latency 0..2 and/or bandwidth, duplication and partition switched on the way | 1.30M |
| `pipe_setters` | Is accounting exact and the trace true when the mix of faults changes mid-stream? Does the proofs' invariant hold? Is every unit released and every call unblocked by close? | one reader and writer, two writes of 0, 1 or 3 bytes, empty reads, every setter, fair | 175k |
| `establish` | Do listeners implement `AcceptQueue`, are reservations, the reset registry and the partition wait sound with two dials at once, and do dials and Closes return? | two dialers, one listener, backlog 2, an address space that runs out, fair | 267k |
| `establish_leak` | violation, see below | one dialer named with an IPv6 literal | |
| `conn_errors` | Is an error never mistaken for another, and no wakeup lost on the way to the select? | writer and reader of one pipe, both ends close, reset, duplication, partition | 704k |
| `conn_deadline` | Does a passed deadline, a Close of its end, or a Reset, always end a Read, wherever it waits? | a reader whose deadline is set and moved into past and future, one late callback at a time, both ends close, reset, partition, fair | 604k |
| `conn_reset` | violation, see below | | |
| `draws` | Do the streams stay independent, and is the word arithmetic right? | words of four bits, rates in quarters, ranges of one and three delays, any list of options, invalid values included, units of 0, 3 and 7 bytes | 27k |
| `draws_corruption` | violation, see below | | |
| `book` | Does an address keep its meaning, and reach whom it should? | a named and a wildcard listener, literals at the first synthetic addresses, a mapped spelling, two IPv4 and one IPv6 address, two listeners, one connection | 321k |
| `book_unnamed` | violation, see below | an unnamed dialer | |
| `trace` | Is what Trace returns ordered, complete and lasting? | two dialers, two connections, three writes, two calls of Trace, with and without `WithTrace(false)` | 1.31M |

Why the bounds suffice: two units and a duplicate give a head, a middle and a tail of
`pending`; a bound of 2 with writes of 1 and 3 bytes gives writes that fit, that wait, and
that are larger than the bound. Latencies 0..2 let a later unit draw an earlier release.
Two callers per side give one that takes what the other was woken for. With a backlog of 2
one connection is queued while two dials compete for the last slot, and a queue of two has
an order to get wrong (`MaxOrdinals` stops new dials at two, so two under way make three). In
`conn_deadline` a deadline once set is moved but not cleared, and has one callback at a time,
for size; the proof of `DeadlineCovered` has every setting and any number of callbacks. With
16 words,
spans of 3 and 7 have words to reject, 7 bytes at one byte per second overflow the word and
the largest Duration, and 7 bytes at five fit. Two listeners on two ports give an address
that is closed and taken again, with the port counter wrapped; two synthetic addresses are
exhausted by the names in use, after literals have taken either. Two dials that register
four directions give every order of registration that two goroutines can produce.

Fairness: weak fairness of the steps of a call that was woken, of a launched callback, of
due timers and of the clock, and of dials and listener Closes under way. In `Conn` none is
assumed of `Close` and `Reset`: their first step, closing `closed` or `resetCh`, has to be
enough to end a call. The Go scheduler runs every
runnable goroutine and the runtime fires due timers. Nothing is assumed of the callers, of
`Heal`, of `Accept`, or of which waiter gets a mutex first. `sync.Mutex` does not starve a
waiter, which is what weak fairness of the woken caller needs.

### What the violations show

* `establish_leak`: when `peerIPLocked` fails (a dialer named with an IPv6 literal that
  dials an IPv4 listener through `tcp`, or exhausted synthetic IPv4 addresses), `DialContext`
  returns between `reserve` and `fill`. The slot stays reserved and the ordinal is spent;
  `listener.go` says that a successful reserve is matched by exactly one fill, and
  `netchaos.go` that establishment cannot fail past it. `ReservationsAccounted` shows that
  this is the only leak.
* `draws_corruption`: the evaluator returns for a dropped unit before the corruption site is
  drawn, and the site comes from the same stream as the trial. So what loss decides moves
  the corruption stream; `docs/04-api-design.md` says that the indices are drawn even for a
  dropped unit, and that the draw index stays independent of other faults.
  `StreamsIndependent` shows that loss, latency and duplication keep to it.
* `book_unnamed`: a dialer without a name gets a synthetic IP that `ipOwners` knows, so
  `Partition` by that IP, which `LocalAddr` shows, cuts its connection; `partition.go` says
  that it is not targetable under any name.
* `conn_reset`: `Reset` signals the ends one by one. A client that has been signalled and
  closes because of it lets the server's Read in flight return `io.EOF` before the server is
  signalled; `reset.go` promises ECONNRESET to both ends' calls in flight. A Close that merely races the
  Reset does not count (`reacted`): its EOF would be a graceful one. `ErrorMeansPeerClosed` shows
  that an EOF without any Close by the peer cannot happen.

## Proofs

Eight modules hold theorems, each from the named assumptions of the module it is about. The
assumptions are what the code's validation or its types enforce: a positive bound, rate and
backlog, natural sizes, ranges with min <= max, ports from a positive base, only the
networks `tcp`, `tcp4` and `tcp6`, lengths and durations below half a word, a finite set of
dialing goroutines. The caps of the instances (`MaxUnits`, `MaxOrdinals`, `MaxCallbacks`
...) are any natural number in the proofs.

Every safety property that a passing run checks is proved, the action properties and both
refinements included. Each proof has one lemma per action and the theorem `Spec => []Inv` for an inductive invariant
made of named parts, from which the properties follow.

### Pipe

* `StreamIntact`: `Spec => []StreamInv`;
* `PipeSafe`: `Spec => []PipeInv`, and from it the safety properties the runs check:
  `ReadsInOrder`, `AccountingExact`, `BoundHolds`, `NothingStranded`, `NoWakeupLost`,
  `EndOfStreamIsFinal`, `AbortIsComplete`, `TraceIsTrue`, `ReadsAreCopyLoops`;
* `Implements`: `Spec => ImplementsLink`, the refinement.

None of the properties is inductive alone. `InOrder` needs to know where the
bytes still in the pipe lie: `QueueTilesStream` says that what was read, `readable` and
`pending` tile the accepted stream in this order without gap or overlap (`Tiles`, phrased
with pairwise conditions and a covering condition, which needs no induction),
and that units are held back only while a delaying fault is enabled, without which the
immediate path could overtake them. The tiling lemmas (`TilesConcat`, `TilesSplit`,
`TilesTrim`, `TilesRead`, ...) are independent of the pipe; `DeliverNowStream`,
`DeliverLaterStream`, `ReadDataStream` and `ReleaseStream` apply them, one per way the
queues change. `ExactAccounting` follows along. On top of `StreamInv`:
`TimerCoversPending` uses that at most one timer or callback exists; `NoLostWakeup` that
every change of what a parked call waits for broadcasts; `EofIsFinal` needs both, since
after EOF nothing may come back and nobody may park. `PipeInv` is also checked by TLC
(`pipe_setters`). The refinement maps an admitted write to `Send` with 0, 1 or 2
copies, a Read to `Receive` (`ReadDataTiles` gives the bytes) or, when it sets `eofSeen`, to
`ReportEOF`, for which `EofIsFinal` after the step supplies that everything was read;
`close` is `End`, `abort` is `Kill`, and all other steps stutter.

`TraceIsTrue` is about the reader at EOF, long after the events were recorded. The
invariant `TraceMatchesLog` says it of the accepted stream after every write: the bytes of a
unit in `log` number what its event promises, and no byte is of a unit without an event, so
that a new unit starts from none (`Counted`, `AdmitOwes`, `AdmitTrace`). `EofIsFinal` brings
it to the reader, whose `got` is `log` by then.

`ReadsAreCopyLoops` is about every queue and every size of buffer, so its proof is an
induction over the turns of the loop, made as a least counterexample (`LeastIn`, from the
well-foundedness of the naturals). `TurnWhole`, `TurnPart` and `TurnFull` are the three
things a turn can do; after the turns that used payloads up, the count is the distance from
the first byte (`CopiedWhole`), since the payloads of `readable` are chained end to end, which
is what `QueueTilesStream` gives (`TilesChained`). That some number of payloads is the one
where the loop stops, so that a Read always has an outcome, is `SomeStop`.

### Conn

`ConnTypeCorrect`, `ErrorsMeanPeerClosed`, `NoPipeWakeupLost` and `NoDeadlineWakeupLost`
follow from `ConnInv`. An error is judged by what the call checks after its pipe failed it,
steps later; so the invariant says why a pipe can be closed at all (`PipeCause`: a Close, or
a Reset that has signalled both ends before its first abort), that a Reset misses no end
(`EndAccounted`: until a Close, an end is registered, about to be signalled, or signalled)
and what is known between the second look at `closed` and at `resetCh` (`ErrorCause`). The
wakeups need their claim from the moment the channel was taken, not only in the select
(`WaitCovered`), and that a deadline ahead has a timer (`TimerSet`).

### Establish

`EstTypeCorrect`, `ReservationsAlwaysAccounted`, `FillNeverBlocks`, `NeverStranded`,
`ResetRegistryStaysSound` and `NoHealMissed` follow from `EstInv`. `reserved` counts dials, so
its accounting is about cardinalities of the sets of dials that hold a slot, one lemma per
way a dial enters or leaves the set; with `QueueFits` (queue and reservations together stay
within the channel) it gives `FillHasRoom`. `NoneStranded` needs that an ordinal belongs to
one dial (`OrdinalsDistinct`) and that each queue holds exactly the connections of its
listener that a dialer has and nobody accepted, once each (`QueuesOK`, `QueuedOnce`,
`AllQueued`), until the Drain of a Close. The registry part needs that a connection is
registered once, before its ends can be closed (`Unregistered`, `TargetsOK`), that its ends
enter and, by `Reset`, leave the registry together (`PairsOK`), and that an end `fill` has
still to deregister belongs to the dial that does it (`LateOK`).

`ListenersAreQueues` is the refinement, `EstSpec => ImplementsQueue`. The lemmas `WaitingPut`,
`PhasesPut`, `EndPut` and their `Kept` counterparts say how the mapped state changes with
`lis` and `conns`; then there is one lemma per action, and `StepServesQueues` puts them
together. The steps that need the invariant are those where two critical sections have to
agree. `FillEnqueues`: `fill` looks at the flag but not at the length of the queue, so the
room it needs comes from `QueueFits` and from the dial's own reservation, which
`ReservationsAccounted` says is still counted; that the connection is new to every queue
comes from `DialsOK` and `QueuesOK`. `ForgetStutters`: the second step of a `conn.Close` does
not change what the queues promise. `HeadLeaves`, for `Accept` and the drain: the head of a
queue is a connection that exists. `DeregisterStutters`, `DrainFinishes`: a listener in the
later steps of its `Close` has its flag set (`ClosedOK`).

### AddressBook

`BookTypeCorrect`, `AliasesResolve`, `EndsAlwaysNamePair`, `DialAlwaysReaches` and the action
property `MeaningNeverChanges` follow from `BookInv`. Its heart is `OwnersOK`, an address
belongs to itself or to a name, and `Known`, every peer that a listener, a dial or a
connection holds is canonical: a name, or a literal that owns itself. With these an entry
of `ipOwners` can be added but never be in the way of an earlier one (`Extends`).

### Draws

`DrawTypeCorrect`, `StreamsStayIndependent`, `SitesInUnit`, `DelaysExact`,
`DrawsNeverBiased` and `LatenciesInRange` follow from `DrawInv`: only what `Valid` passed is
used, a fault that was not asked for has its default, and the last unit is as decided. `StreamsStayIndependent` compares two evaluations: `TrialAlone`, a
trial depends on whether its own fault is configured only, and `DrawsAreTrials`, only
corruption draws beyond its trial, after the return for a dropped unit (which is why it is
left out). The
weight is in the arithmetic, for words of any width. `DelayExact`: the quotient overflows a
word exactly if the high half of the product reaches the divisor, and then it exceeds the
largest Duration. `AlwaysUnbiased`: with `t` the remainder below which `boundedUint64` draws
again, `W - t` is `m * n` (`LeastFacts`), and the words kept for a value are an interval of
`m` words (`KeptInterval`), so there are as many for each value.

### FaultTrace

`AlwaysInTraceOrder`, `NothingEverMissing` and the action property `TraceOnlyGrows` follow
from `TraceInv`. Handles are distinct since ordinals are (`OrdinalsOK`, `HandlesOK`), so the
sort orders them strictly; whoever can write writes to a registered recorder (`EndsOK`,
`RecordersOK`); what a call has still to read comes after what it has read, and the two
hold all it owes (`ReaderOK`); what was returned once is owed to every later call
(`ResultsOK`). That the sort has a result at all is left to TLC: the theorems are about
what follows when it returns.

### Only model-checked

* Liveness under fairness (`EveryUnitReleased`, `CloseUnblocks`, `DialReturns`,
  `CloseCompletes`, `DeadlineUnblocks`, `EndUnblocks`): out of the prover's reach.
* That the stable sort of `Trace` has a result.

`EstTypeOK` is the one invariant that is only proved (`EstTypeCorrect`).

## Not modelled

* Error values, wording and the per-platform errno tables: no state; the modules name
  errors symbolically.
* Malformed addresses and unsupported networks: `Listen` and `DialContext` return before
  they read any state. The text of an address is split before it gets to `AddressBook`.
* `Dial`, `DialerFor` and `WithDialTimeout`: they build a context and call `DialContext`,
  whose `ctx.Done` is in `Establish`.
* `deriveStream`: SHA-256 and ChaCha8 are taken to give unrelated words per seed, ordinal,
  side and kind; `WithSeed` with them.
* The wrap of `nextIPv4` (32 bits) and of `base.Add` in the evaluator at the largest time:
  `AddressBook` and `Pipe` count without a width. Only `Draws` has words.
* The conformance module: a harness over `golang.org/x/net/nettest`.
* Connections are composed with the registries by name only (`Establish` has their
  registration, `Conn` what becomes of one pair): a composition of both would be a product
  of two state spaces that share `targets` alone.

## Plan

Done: `Link`, `Pipe`, `AcceptQueue`, `Establish`, `Conn`, `Draws`, `AddressBook` and
`FaultTrace`, each with its runs, and the proof of every safety property they check.

Worth doing next: an abstract specification of a connection that `Conn` implements, two
streams with one end and one error each; counters of the address book with their width.
