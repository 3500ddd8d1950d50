-------------------------------- MODULE Pipe --------------------------------
(***************************************************************************)
(* One direction of a netchaos connection: the buffered byte queue of      *)
(* pipe.go with the fault evaluator of faults.go and the latency timer of  *)
(* latency.go installed.  Everything the code does under p.mu is one       *)
(* action.  A payload is the interval lo+1..hi of positions its bytes take *)
(* in the order they were accepted for delivery, so two copies of a write  *)
(* are two intervals of one unit.                                          *)
(***************************************************************************)
EXTENDS Integers, Sequences, FiniteSets

CONSTANTS
    Readers, Writers,  \* goroutines that call read and write on this pipe
    Bound,             \* p.bound
    WriteSizes,        \* len(data) of the writes issued
    ReadSizes,         \* len(b) of the reads issued
    LatencyRanges,     \* the <<min, max>> pairs given to SetLatency
    StartFaults,       \* fault configurations NewNetwork may start with
    NetworkCalls,      \* which of the Network's calls are made meanwhile
    Second,            \* time.Second, in ticks of now
    BytesPerSecond,    \* cfg.bandwidthBPS
    MaxUnits,          \* bound: writes issued in a behaviour
    MaxNow             \* bound: idle time; time runs on while a unit is due

(* faultConfig without its rates: a Bernoulli trial with an enabled rate   *)
(* may go either way.                                                      *)
FaultConfig == [loss : BOOLEAN, duplicate : BOOLEAN, bandwidth : BOOLEAN,
                latency : BOOLEAN, min : Nat, max : Nat]

(* WithPipeBound and validateBandwidthRate panic on a value that is not    *)
(* positive, validateLatencyRange on min > max.                            *)
ASSUME BoundAssumption == Bound \in Nat \ {0}
ASSUME SizeAssumption  == WriteSizes \subseteq Nat /\ ReadSizes \subseteq Nat
ASSUME RangeAssumption == LatencyRanges \subseteq
                            {r \in Nat \X Nat : r[1] <= r[2]}
ASSUME FaultAssumption == StartFaults \subseteq
                            {f \in FaultConfig : f.min <= f.max}
ASSUME RateAssumption  == Second \in Nat /\ BytesPerSecond \in Nat \ {0}
ASSUME CapAssumption   == MaxUnits \in Nat /\ MaxNow \in Nat

VARIABLES
    now,          \* the clock
    readable,     \* p.readable
    pending,      \* p.pending
    bufBytes,     \* p.bufBytes
    closed,       \* p.closed
    readClosed,   \* p.readClosed
    eofSeen,      \* p.eofSeen
    timer,        \* p.timer: armed, and for when
    callbacks,    \* releaseDueLatency calls launched that have not taken p.mu
    busyUntil,    \* p.busyUntil
    faults,       \* n.faults, read once per unit
    partitioned,  \* whether n.partitions holds this pair
    trace,        \* p.trace: one event per admitted write
    rd, wr,       \* the calls in progress, and what they are parked on
    log, got      \* history: unit of every byte accepted / handed to a reader

net   == <<faults, partitioned>>
queue == <<readable, pending, bufBytes, timer, busyUntil>>
ends  == <<closed, readClosed, eofSeen>>
hist  == <<log, got>>
vars  == <<now, queue, ends, callbacks, net, trace, rd, wr, hist>>

-----------------------------------------------------------------------------
Max2(a, b) == IF a >= b THEN a ELSE b

Off == [armed |-> FALSE, at |-> 0]

(* A call in progress: len is len(b) or len(data), at where it is.         *)
Idle      == [at |-> "idle", len |-> 0]
Places    == {"idle", "notify", "partition", "woken"}
Parked(ch, n) == [at |-> ch, len |-> n]

(* close(p.notify), close(n.partNotify): every call parked on the channel  *)
(* re-checks.                                                              *)
Wake(calls, ch) ==
    [c \in DOMAIN calls |->
        IF calls[c].at = ch THEN [calls[c] EXCEPT !.at = "woken"]
                            ELSE calls[c]]

Payload(unit, lo, hi) == [unit |-> unit, lo |-> lo, hi |-> hi]
Unit(payload, releaseAt) == [data |-> payload, releaseAt |-> releaseAt]

Event(fate, size, duplicated) ==
    [fate |-> fate, size |-> size, duplicated |-> duplicated]

Init ==
    /\ now = 0
    /\ readable = <<>> /\ pending = <<>> /\ bufBytes = 0
    /\ timer = Off /\ busyUntil = 0 /\ callbacks = 0
    /\ closed = FALSE /\ readClosed = FALSE /\ eofSeen = FALSE
    /\ faults \in StartFaults /\ partitioned = FALSE
    /\ trace = <<>>
    /\ rd = [r \in Readers |-> Idle] /\ wr = [w \in Writers |-> Idle]
    /\ log = <<>> /\ got = <<>>

-----------------------------------------------------------------------------
(* armLatencyTimerLocked: Stop the old timer, arm for the head.            *)
ArmLatencyTimer(units) ==
    IF units = <<>> THEN Off
    ELSE [armed |-> TRUE, at |-> Max2(units[1].releaseAt, now)]

(* Seeded fault: every append arms the timer, or none does.                *)
ArmOnEveryAppend(units) == ArmLatencyTimer(units)
NeverArm(units) == timer

(* armLatencyForAppendLocked: units is pending after one append.           *)
ArmLatencyForAppend(units) ==
    IF Len(units) = 1 THEN ArmLatencyTimer(units) ELSE timer

(* serializationDelay below its clamp.                                     *)
SerializationDelay(size) == (size * Second) \div BytesPerSecond

(* When the unit has left the throttled link.                              *)
TransmittedAt(size) ==
    IF faults.bandwidth THEN Max2(now, busyUntil) + SerializationDelay(size)
                        ELSE now

Draws(enabled) == IF enabled THEN BOOLEAN ELSE {FALSE}
Delays == IF faults.latency THEN faults.min..faults.max ELSE {0}

(* pending is release-ordered: a unit never overtakes the one before it.   *)
ReleaseAt(base, drawn) ==
    IF pending = <<>> THEN base + drawn
    ELSE Max2(base + drawn, pending[Len(pending)].releaseAt)

-----------------------------------------------------------------------------
(* The evaluator installFaultPolicy installs, for an admitted write of     *)
(* size bytes.  The four outcomes are its four ways out.                   *)
NextUnit == Len(trace) + 1

(* The stream l with m bytes of unit u, and where the copies of a unit of  *)
(* size bytes lie in it.                                                   *)
Extend(l, u, m) == l \o [b \in 1..m |-> u]
FirstCopy(l, u, size)  == Payload(u, Len(l), Len(l) + size)
SecondCopy(l, u, size) == Payload(u, Len(l) + size, Len(l) + 2 * size)

DeliverPartitioned(size) ==
    /\ partitioned
    /\ trace' = Append(trace, Event("partitioned", 0, FALSE))
    /\ UNCHANGED <<queue, log>>

(* Seeded fault: the event of a dropped unit says it was delivered.        *)
DeliverDroppedUnnoticed(size) ==
    /\ ~partitioned
    /\ faults.loss
    /\ \E duplicated \in Draws(faults.duplicate) :
          trace' = Append(trace, Event("delivered", size, duplicated))
    /\ UNCHANGED <<queue, log>>

DeliverDropped(size) ==
    /\ ~partitioned
    /\ faults.loss
    /\ \E duplicated \in Draws(faults.duplicate) :
          trace' = Append(trace, Event("dropped", size, duplicated))
    /\ UNCHANGED <<queue, log>>

(* Seeded fault: the second copy is not charged against the bound.         *)
DeliverNowCopyFree(size) ==
    /\ ~partitioned
    /\ ~faults.latency /\ ~faults.bandwidth
    /\ \E duplicated \in Draws(faults.duplicate) :
          LET copies == IF duplicated THEN 2 ELSE 1
          IN  /\ trace' = Append(trace, Event("delivered", size, duplicated))
              /\ readable' = IF duplicated
                             THEN readable \o <<FirstCopy(log, NextUnit, size),
                                                SecondCopy(log, NextUnit, size)>>
                             ELSE Append(readable, FirstCopy(log, NextUnit, size))
              /\ bufBytes' = bufBytes + size
              /\ log' = Extend(log, NextUnit, copies * size)
    /\ UNCHANGED <<pending, timer, busyUntil>>

(* No delaying fault: straight onto readable.                              *)
DeliverNow(size) ==
    LET first  == FirstCopy(log, NextUnit, size)
        second == SecondCopy(log, NextUnit, size)
    IN  /\ ~partitioned
        /\ ~faults.latency /\ ~faults.bandwidth
        /\ \E duplicated \in Draws(faults.duplicate) :
              /\ trace' = Append(trace, Event("delivered", size, duplicated))
              /\ IF duplicated
                 THEN /\ readable' = Append(Append(readable, first), second)
                      /\ bufBytes' = bufBytes + 2 * size
                      /\ log' = Extend(log, NextUnit, 2 * size)
                 ELSE /\ readable' = Append(readable, first)
                      /\ bufBytes' = bufBytes + size
                      /\ log' = Extend(log, NextUnit, size)
        /\ UNCHANGED <<pending, timer, busyUntil>>

(* Held back in pending.  The duplicate shares its releaseAt and is        *)
(* appended after the timer was armed.                                     *)
DeliverLater(size) ==
    LET base   == TransmittedAt(size)
        first  == FirstCopy(log, NextUnit, size)
        second == SecondCopy(log, NextUnit, size)
    IN  /\ ~partitioned
        /\ faults.latency \/ faults.bandwidth
        /\ busyUntil' = IF faults.bandwidth THEN base ELSE busyUntil
        /\ \E duplicated \in Draws(faults.duplicate), drawn \in Delays :
              LET at    == ReleaseAt(base, drawn)
                  units == Append(pending, Unit(first, at))
              IN  /\ trace' = Append(trace, Event("delivered", size, duplicated))
                  /\ timer' = ArmLatencyForAppend(units)
                  /\ IF duplicated
                     THEN /\ pending' = Append(units, Unit(second, at))
                          /\ bufBytes' = bufBytes + 2 * size
                          /\ log' = Extend(log, NextUnit, 2 * size)
                     ELSE /\ pending' = units
                          /\ bufBytes' = bufBytes + size
                          /\ log' = Extend(log, NextUnit, size)
        /\ UNCHANGED readable

-----------------------------------------------------------------------------
(* Seeded fault: room for one byte is taken for room for the write.        *)
RoomForOne(n) == bufBytes < Bound

(* tryWrite, called by writer w with n bytes.  Only a unit held back in    *)
(* pending reaches the end of deliver without a broadcast.                 *)
Room(n) == bufBytes = 0 \/ bufBytes + n <= Bound

Admit(w, n) ==
    /\ ~closed /\ ~readClosed
    /\ Room(n)
    /\ \/ /\ DeliverPartitioned(n) \/ DeliverDropped(n) \/ DeliverNow(n)
          /\ rd' = Wake(rd, "notify")
          /\ wr' = [Wake(wr, "notify") EXCEPT ![w] = Idle]
       \/ /\ DeliverLater(n)
          /\ wr' = [wr EXCEPT ![w] = Idle]
          /\ UNCHANGED rd
    /\ UNCHANGED <<now, ends, callbacks, net, got>>

WriteBlocks(w, n) ==
    /\ ~closed /\ ~readClosed
    /\ ~Room(n)
    /\ wr' = [wr EXCEPT ![w] = Parked("notify", n)]
    /\ UNCHANGED <<now, queue, ends, callbacks, net, trace, rd, hist>>

WriteRefused(w) ==
    /\ closed \/ readClosed
    /\ wr' = [wr EXCEPT ![w] = Idle]
    /\ UNCHANGED <<now, queue, ends, callbacks, net, trace, rd, hist>>

TryWrite(w, n) == Admit(w, n) \/ WriteBlocks(w, n) \/ WriteRefused(w)

(* write: try, and try again after every wakeup.                           *)
Write(w) == /\ wr[w] = Idle
            /\ Len(trace) < MaxUnits
            /\ \E n \in WriteSizes : TryWrite(w, n)

RetryWrite(w) == /\ wr[w].at = "woken"
                 /\ TryWrite(w, wr[w].len)

-----------------------------------------------------------------------------
(* tryRead, called by reader r with a buffer of n bytes.  The copy loop    *)
(* stops at position limit; it removes the payloads it has copied to their *)
(* end before the buffer was full, and trims the next one.                 *)
ReadLimit(n) == readable[1].lo + n

(* Seeded fault: a payload copied to its last byte stays queued.           *)
DrainedLate(i, n) == /\ readable[i].lo < ReadLimit(n)
                     /\ readable[i].hi < ReadLimit(n)

Drained(i, n) == /\ readable[i].lo < ReadLimit(n)
                 /\ readable[i].hi <= ReadLimit(n)

(* The loop ends with the first k payloads removed, and no more.           *)
StopsAt(k, n) == /\ \A i \in 1..k : Drained(i, n)
                 /\ k < Len(readable) => ~Drained(k + 1, n)

Copied(k, n) == IF k = Len(readable) THEN readable[k].hi - readable[1].lo
                                     ELSE n

(* Seeded fault: what is left of a payload read in part is dropped.        *)
LeftoverDropped(s, k, n) ==
    LET rest == SubSeq(s, k + 1, Len(s))
    IN  IF rest # <<>> /\ rest[1].lo < s[1].lo + n THEN Tail(rest) ELSE rest

Leftover(s, k, n) ==
    [i \in 1..(Len(s) - k) |->
        IF i = 1 THEN [s[k + 1] EXCEPT !.lo = s[1].lo + n] ELSE s[k + i]]

(* The unit whose payload holds the byte at position pos.                  *)
UnitAt(pos) == readable[CHOOSE i \in DOMAIN readable :
                          readable[i].lo < pos /\ pos <= readable[i].hi].unit

(* Seeded fault: units in flight do not hold the EOF back.                 *)
EndOrWaitHasty(r, n, woken) ==
    IF closed
    THEN IF ~eofSeen /\ partitioned
         THEN /\ rd' = [woken EXCEPT ![r] = Parked("partition", n)]
              /\ UNCHANGED eofSeen
         ELSE /\ rd' = [woken EXCEPT ![r] = Idle]
              /\ eofSeen' = TRUE
    ELSE /\ rd' = [woken EXCEPT ![r] = Parked("notify", n)]
         /\ UNCHANGED eofSeen

(* Seeded fault: a partition hides an EOF that was already reported.       *)
EndOrWaitForgetful(r, n, woken) ==
    IF closed /\ pending = <<>>
    THEN IF partitioned
         THEN /\ rd' = [woken EXCEPT ![r] = Parked("partition", n)]
              /\ UNCHANGED eofSeen
         ELSE /\ rd' = [woken EXCEPT ![r] = Idle]
              /\ eofSeen' = TRUE
    ELSE /\ rd' = [woken EXCEPT ![r] = Parked("notify", n)]
         /\ UNCHANGED eofSeen

(* What is left to do when nothing was copied: report EOF once the stream  *)
(* is closed and drained, unless a partition hides it, else wait.          *)
EndOrWait(r, n, woken) ==
    IF closed /\ pending = <<>>
    THEN IF ~eofSeen /\ partitioned
         THEN /\ rd' = [woken EXCEPT ![r] = Parked("partition", n)]
              /\ UNCHANGED eofSeen
         ELSE /\ rd' = [woken EXCEPT ![r] = Idle]
              /\ eofSeen' = TRUE
    ELSE /\ rd' = [woken EXCEPT ![r] = Parked("notify", n)]
         /\ UNCHANGED eofSeen

ReadAborted(r) ==
    /\ readClosed
    /\ rd' = [rd EXCEPT ![r] = Idle]
    /\ UNCHANGED <<now, queue, ends, callbacks, net, trace, wr, hist>>

ReadData(r, n) ==
    /\ ~readClosed
    /\ readable # <<>>
    /\ \E k \in 0..Len(readable) :
          /\ StopsAt(k, n)
          /\ readable' = Leftover(readable, k, n)
          /\ bufBytes' = bufBytes - Copied(k, n)
          /\ got' = got \o [b \in 1..Copied(k, n) |-> UnitAt(readable[1].lo + b)]
          /\ IF Copied(k, n) > 0 \/ n = 0
             THEN /\ rd' = [Wake(rd, "notify") EXCEPT ![r] = Idle]
                  /\ UNCHANGED eofSeen
             ELSE EndOrWait(r, n, Wake(rd, "notify"))
    /\ wr' = Wake(wr, "notify")
    /\ UNCHANGED <<now, pending, timer, busyUntil, closed, readClosed,
                   callbacks, net, trace, log>>

ReadEmpty(r, n) ==
    /\ ~readClosed
    /\ readable = <<>>
    /\ EndOrWait(r, n, rd)
    /\ UNCHANGED <<now, queue, closed, readClosed, callbacks, net, trace,
                   wr, hist>>

TryRead(r, n) == ReadAborted(r) \/ ReadData(r, n) \/ ReadEmpty(r, n)

(* read: try, and try again after every wakeup.                            *)
Read(r) == rd[r] = Idle /\ \E n \in ReadSizes : TryRead(r, n)

RetryRead(r) == rd[r].at = "woken" /\ TryRead(r, rd[r].len)

-----------------------------------------------------------------------------
(* The runtime starts the AfterFunc callback in a goroutine of its own: it *)
(* can no longer be stopped, and waits for p.mu.                           *)
TimerFires ==
    /\ timer.armed /\ timer.at <= now
    /\ timer' = Off
    /\ callbacks' = callbacks + 1
    /\ UNCHANGED <<now, readable, pending, bufBytes, busyUntil, ends, net,
                   trace, rd, wr, hist>>

Due(i) == pending[i].releaseAt <= now

ReleaseDueLatency ==
    /\ callbacks > 0
    /\ callbacks' = callbacks - 1
    /\ IF readClosed
       THEN UNCHANGED <<readable, pending, timer, rd, wr>>
       ELSE \E k \in 0..Len(pending) :
               /\ \A i \in 1..k : Due(i)
               /\ k < Len(pending) => ~Due(k + 1)
               /\ readable' = readable \o [i \in 1..k |-> pending[i].data]
               /\ pending' = SubSeq(pending, k + 1, Len(pending))
               /\ timer' = ArmLatencyTimer(pending')
               /\ rd' = IF k > 0 THEN Wake(rd, "notify") ELSE rd
               /\ wr' = IF k > 0 THEN Wake(wr, "notify") ELSE wr
    /\ UNCHANGED <<now, bufBytes, busyUntil, ends, net, trace, hist>>

(* Seeded fault: close wakes the readers only.                             *)
CloseWakesReaders ==
    /\ ~closed
    /\ closed' = TRUE
    /\ rd' = Wake(rd, "notify")
    /\ UNCHANGED <<now, queue, readClosed, eofSeen, callbacks, net, trace, wr, hist>>

(* close, by the producer's Close.                                         *)
Close ==
    /\ ~closed
    /\ closed' = TRUE
    /\ rd' = Wake(rd, "notify") /\ wr' = Wake(wr, "notify")
    /\ UNCHANGED <<now, queue, readClosed, eofSeen, callbacks, net, trace, hist>>

(* Seeded fault: abort leaves the timer running.                           *)
AbortKeepsTimer ==
    /\ ~readClosed
    /\ readClosed' = TRUE /\ closed' = TRUE
    /\ pending' = <<>> /\ readable' = <<>> /\ bufBytes' = 0
    /\ rd' = Wake(rd, "notify") /\ wr' = Wake(wr, "notify")
    /\ UNCHANGED <<now, timer, busyUntil, eofSeen, callbacks, net, trace, hist>>

(* abort, by the consumer's Close or by Network.Reset.                     *)
Abort ==
    /\ ~readClosed
    /\ readClosed' = TRUE /\ closed' = TRUE
    /\ timer' = Off
    /\ pending' = <<>> /\ readable' = <<>> /\ bufBytes' = 0
    /\ rd' = Wake(rd, "notify") /\ wr' = Wake(wr, "notify")
    /\ UNCHANGED <<now, busyUntil, eofSeen, callbacks, net, trace, hist>>

-----------------------------------------------------------------------------
(* The Network around the pipe.  The setters only ever enable a fault.     *)
SetLatency ==
    /\ "SetLatency" \in NetworkCalls
    /\ \E range \in LatencyRanges :
          faults' = [faults EXCEPT !.latency = TRUE,
                                   !.min = range[1], !.max = range[2]]
    /\ UNCHANGED <<now, queue, ends, callbacks, partitioned, trace, rd, wr, hist>>

(* Seeded fault: the new configuration forgets the latency.                *)
SetPacketLossOnly ==
    /\ "SetPacketLoss" \in NetworkCalls
    /\ faults' = [faults EXCEPT !.loss = TRUE, !.latency = FALSE]
    /\ UNCHANGED <<now, queue, ends, callbacks, partitioned, trace, rd, wr, hist>>

SetPacketLoss ==
    /\ "SetPacketLoss" \in NetworkCalls
    /\ faults' = [faults EXCEPT !.loss = TRUE]
    /\ UNCHANGED <<now, queue, ends, callbacks, partitioned, trace, rd, wr, hist>>

SetDuplication ==
    /\ "SetDuplication" \in NetworkCalls
    /\ faults' = [faults EXCEPT !.duplicate = TRUE]
    /\ UNCHANGED <<now, queue, ends, callbacks, partitioned, trace, rd, wr, hist>>

(* Partition and Heal of this pair, and a change to any other pair, which  *)
(* closes the same n.partNotify.                                           *)
PartitionChange(p) ==
    /\ "Partition" \in NetworkCalls
    /\ partitioned' = p
    /\ rd' = Wake(rd, "partition")
    /\ UNCHANGED <<now, queue, ends, callbacks, faults, trace, wr, hist>>

Partition == ~partitioned /\ PartitionChange(TRUE)
Heal      == partitioned /\ PartitionChange(FALSE)
ChangeElsewhere == PartitionChange(partitioned)

(* Time passes.  MaxNow bounds the time in which nothing is held back.     *)
Tick ==
    /\ now < MaxNow \/ (timer.armed /\ now < timer.at)
    /\ now' = now + 1
    /\ UNCHANGED <<queue, ends, callbacks, net, trace, rd, wr, hist>>

Next ==
    \/ \E w \in Writers : Write(w) \/ RetryWrite(w)
    \/ \E r \in Readers : Read(r) \/ RetryRead(r)
    \/ TimerFires \/ ReleaseDueLatency \/ Tick
    \/ Close \/ Abort
    \/ SetLatency \/ SetPacketLoss \/ SetDuplication
    \/ Partition \/ Heal \/ ChangeElsewhere

Spec == Init /\ [][Next]_vars

(* The Go scheduler runs every runnable goroutine, the clock advances and  *)
(* due timers fire.  Nothing is assumed of the callers.                    *)
Fairness ==
    /\ WF_vars(Tick) /\ WF_vars(TimerFires) /\ WF_vars(ReleaseDueLatency)
    /\ \A w \in Writers : WF_vars(RetryWrite(w))
    /\ \A r \in Readers : WF_vars(RetryRead(r))

FairSpec == Spec /\ Fairness

-----------------------------------------------------------------------------
Interval == [unit : Nat \ {0}, lo : Nat, hi : Nat]
HeldUnit == [data : Interval, releaseAt : Nat]
Events   == [fate : {"partitioned", "dropped", "delivered"}, size : Nat,
             duplicated : BOOLEAN]
Call     == [at : Places, len : Nat]

TypeOK ==
    /\ now \in Nat
    /\ readable \in Seq(Interval)
    /\ pending \in Seq(HeldUnit)
    /\ bufBytes \in Int
    /\ closed \in BOOLEAN /\ readClosed \in BOOLEAN /\ eofSeen \in BOOLEAN
    /\ timer \in [armed : BOOLEAN, at : Nat]
    /\ callbacks \in Nat
    /\ busyUntil \in Nat
    /\ faults \in FaultConfig /\ faults.min <= faults.max
    /\ partitioned \in BOOLEAN
    /\ trace \in Seq(Events)
    /\ rd \in [Readers -> Call] /\ wr \in [Writers -> Call]
    /\ \A w \in Writers : wr[w].at # "idle" => wr[w].len \in WriteSizes
    /\ log \in Seq(Nat \ {0}) /\ got \in Seq(Nat \ {0})

(* The buffer accounting is exact: what bufBytes charges against the bound *)
(* is the bytes accepted and not yet read, whatever mix of loss, copies,   *)
(* delays and partial reads led here.                                      *)
ExactAccounting == ~readClosed => bufBytes = Len(log) - Len(got)

(* pipe_test.go bounds bufBytes: one oversized write into an empty pipe,   *)
(* and one unchecked duplicate on top of an admitted write.                *)
BoundRespected ==
    bufBytes = 0 \/ \E m \in WriteSizes : bufBytes <= Max2(Bound, m) + m

(* A reader gets the accepted bytes in write order, none skipped or made   *)
(* up, however latency, bandwidth and setters delay the units.             *)
InOrder == /\ Len(got) <= Len(log)
           /\ \A b \in 1..Len(got) : got[b] = log[b]

(* No unit is stranded in pending: as long as one is held, either the one  *)
(* timer is armed for the head or its callback is on its way, never both.  *)
TimerCoversPending ==
    /\ callbacks + (IF timer.armed THEN 1 ELSE 0) <= 1
    /\ ~readClosed => (pending # <<>> <=> timer.armed \/ callbacks = 1)
    /\ timer.armed => /\ pending # <<>>
                      /\ timer.at <= Max2(pending[1].releaseAt, now)

(* No lost wakeup: a call still parked is one that would block again.      *)
NoLostWakeup ==
    /\ \A w \in Writers : wr[w].at = "notify" => ~closed /\ ~Room(wr[w].len)
    /\ \A r \in Readers :
          /\ rd[r].at = "notify" =>
                ~readClosed /\ readable = <<>> /\ ~(closed /\ pending = <<>>)
          /\ rd[r].at = "partition" => partitioned /\ closed

(* EOF means the end: everything accepted was handed over before it, and a *)
(* later Partition cannot make a Read wait again (eofSeen).                *)
EofIsFinal ==
    eofSeen => /\ closed /\ readable = <<>> /\ pending = <<>> /\ got = log
               /\ \A r \in Readers : rd[r].at \in {"idle", "woken"}

(* Once the consumer is gone nothing is kept and no timer will run: a late *)
(* callback revives nothing.                                               *)
AbortDiscards ==
    readClosed => /\ closed /\ readable = <<>> /\ pending = <<>>
                  /\ bufBytes = 0 /\ ~timer.armed

(* The pipe implements the stream Link promises its two ends.              *)
Promise == INSTANCE Link WITH
    Sizes <- WriteSizes, issued <- Len(trace), sent <- log, rcvd <- got,
    ended <- closed, dead <- readClosed, eof <- eofSeen

ImplementsLink == Promise!LinkSpec

(* The payloads of s tile positions from+1..to of the stream l, in order   *)
(* and without gap or overlap, and each names the unit of its bytes.       *)
Tiles(s, from, to, l) ==
    /\ from <= to
    /\ Len(s) = 0 => from = to
    /\ Len(s) > 0 => s[1].lo = from /\ s[Len(s)].hi = to
    /\ \A i \in DOMAIN s : /\ from <= s[i].lo /\ s[i].lo <= s[i].hi
                           /\ s[i].hi <= to
                           /\ \A b \in (s[i].lo + 1)..s[i].hi : l[b] = s[i].unit
    /\ \A i, j \in DOMAIN s : i < j => s[i].hi <= s[j].lo
    /\ \A i \in 1..(Len(s) - 1) : s[i].hi = s[i + 1].lo
    /\ \A b \in (from + 1)..to : \E i \in DOMAIN s : s[i].lo < b /\ b <= s[i].hi

DataOf(units) == [i \in DOMAIN units |-> units[i].data]

(* Where the tiling of s that starts at from ends.                         *)
EndOf(s, from) == IF Len(s) = 0 THEN from ELSE s[Len(s)].hi

(* Position of the last byte made readable.                                *)
Avail == EndOf(readable, Len(got))

(* The bytes accepted are those read, then those readable, then those held *)
(* back; a unit can only be held back by a fault that is still enabled,    *)
(* since no setter disables one, so nothing overtakes it.                  *)
QueueTilesStream ==
    ~readClosed => /\ Tiles(readable, Len(got), Avail, log)
                   /\ Tiles(DataOf(pending), Avail, Len(log), log)
                   /\ pending # <<>> => faults.latency \/ faults.bandwidth

(* One turn of the copy loop of tryRead with a buffer of n bytes, at the   *)
(* payload p: done.n bytes are copied, done.rest is what stays queued.     *)
CopyTurn(done, p, n) ==
    LET copied == IF p.hi - p.lo <= n - done.n THEN p.hi - p.lo ELSE n - done.n
    IN  IF done.rest # <<>> \/ done.n >= n
        THEN [n |-> done.n, rest |-> Append(done.rest, p)]
        ELSE [n    |-> done.n + copied,
              rest |-> IF copied = p.hi - p.lo THEN <<>>
                       ELSE <<[p EXCEPT !.lo = @ + copied]>>]

CopyLoop(s, n) ==
    LET loop[i \in 0..Len(s)] == IF i = 0 THEN [n |-> 0, rest |-> <<>>]
                                 ELSE CopyTurn(loop[i - 1], s[i], n)
    IN  loop[Len(s)]

(* The interval arithmetic of ReadData is what the copy loop computes, and *)
(* a Read that finds data always has an outcome.                           *)
ReadIsCopyLoop ==
    readable # <<>> =>
        \A n \in ReadSizes :
            /\ \E k \in 0..Len(readable) : StopsAt(k, n)
            /\ \A k \in 0..Len(readable) :
                  StopsAt(k, n) => CopyLoop(readable, n) =
                      [n |-> Copied(k, n), rest |-> Leftover(readable, k, n)]

(* The bytes of unit u in the stream l, and how many its event promises:   *)
(* none, all, or all twice.                                                *)
BytesOf(l, u) == Cardinality({b \in DOMAIN l : l[b] = u})
Owed(event) == IF event.fate # "delivered" THEN 0
               ELSE IF event.duplicated THEN 2 * event.size ELSE event.size

(* The trace tells the truth: at a clean end of stream the reader holds,   *)
(* of every unit, the bytes its event promises.                            *)
TraceMatchesStream ==
    eofSeen => \A u \in DOMAIN trace : BytesOf(got, u) = Owed(trace[u])

(* Behind it: what was accepted so far is what the events so far promise,  *)
(* and nothing was accepted without an event.                              *)
TraceMatchesLog ==
    /\ \A b \in DOMAIN log : log[b] \in 1..Len(trace)
    /\ \A u \in 1..Len(trace) : BytesOf(log, u) = Owed(trace[u])

(* The inductive invariants behind the safety properties.                  *)
StreamInv == TypeOK /\ QueueTilesStream /\ ExactAccounting /\ InOrder
PipeInv   == /\ StreamInv /\ BoundRespected /\ TimerCoversPending
             /\ NoLostWakeup /\ EofIsFinal /\ AbortDiscards
             /\ TraceMatchesLog

(* A unit held back is released in the end (or discarded by abort).        *)
Held(u) == \E i \in DOMAIN pending : pending[i].data.unit = u
EveryUnitReleased ==
    \A u \in 1..(MaxUnits + 1) : Held(u) ~> ~Held(u)

(* After the producer's close no call stays blocked, except a Read whose   *)
(* EOF a partition holds back.                                             *)
CloseUnblocks ==
    /\ \A w \in Writers : closed /\ wr[w].at # "idle" ~> wr[w].at = "idle"
    /\ \A r \in Readers : closed /\ rd[r].at # "idle" ~>
                             rd[r].at \in {"idle", "partition"}
=============================================================================
