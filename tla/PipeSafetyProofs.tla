-------------------------- MODULE PipeSafetyProofs --------------------------
(***************************************************************************)
(* From the intact stream of PipeProofs to the promises about the timer,   *)
(* the parked calls, EOF, abort and the bound: PipeInv is inductive.       *)
(***************************************************************************)
EXTENDS PipeProofs, FiniteSetTheorems, WellFoundedInduction

(* The frame of the steps that touch neither the queue nor the flags.      *)
LEMMA Unchanged ==
    ASSUME \/ \E w \in Writers, n \in WriteSizes : WriteBlocks(w, n) \/ WriteRefused(w)
           \/ \E r \in Readers : ReadAborted(r)
           \/ SetLatency \/ SetPacketLoss \/ SetDuplication
           \/ \E p \in BOOLEAN : PartitionChange(p)
           \/ UNCHANGED vars
    PROVE  /\ readable' = readable /\ pending' = pending /\ bufBytes' = bufBytes
           /\ closed' = closed /\ readClosed' = readClosed /\ eofSeen' = eofSeen
           /\ timer' = timer /\ callbacks' = callbacks /\ now' = now
           /\ log' = log /\ got' = got
BY DEF WriteBlocks, WriteRefused, ReadAborted, SetLatency, SetPacketLoss,
       SetDuplication, PartitionChange, queue, ends, hist, vars

(* What a late callback finds.                                             *)
LEMMA ReleaseStep ==
    ASSUME StreamInv, ReleaseDueLatency
    PROVE  /\ bufBytes' = bufBytes /\ closed' = closed /\ readClosed' = readClosed
           /\ eofSeen' = eofSeen /\ now' = now /\ log' = log /\ got' = got
           /\ partitioned' = partitioned
           /\ callbacks > 0 /\ callbacks' = callbacks - 1
           /\ readClosed => /\ readable' = readable /\ pending' = pending
                            /\ timer' = timer /\ rd' = rd /\ wr' = wr
           /\ ~readClosed =>
                 /\ timer' = ArmLatencyTimer(pending')
                 /\ \/ rd' = Wake(rd, "notify") /\ wr' = Wake(wr, "notify")
                    \/ /\ readable' = readable /\ pending' = pending
                       /\ rd' = rd /\ wr' = wr
                 /\ pending = <<>> => readable' = readable /\ pending' = <<>>
<1>1. /\ bufBytes' = bufBytes /\ closed' = closed /\ readClosed' = readClosed
      /\ eofSeen' = eofSeen /\ now' = now /\ log' = log /\ got' = got
      /\ partitioned' = partitioned
      /\ callbacks > 0 /\ callbacks' = callbacks - 1
      /\ readClosed => /\ readable' = readable /\ pending' = pending
                       /\ timer' = timer /\ rd' = rd /\ wr' = wr
  BY DEF ReleaseDueLatency, ends, net, hist
<1>2. ASSUME ~readClosed
      PROVE  /\ timer' = ArmLatencyTimer(pending')
             /\ \/ rd' = Wake(rd, "notify") /\ wr' = Wake(wr, "notify")
                \/ /\ readable' = readable /\ pending' = pending
                   /\ rd' = rd /\ wr' = wr
             /\ pending = <<>> => readable' = readable /\ pending' = <<>>
  <2>1. PICK k \in 0..Len(pending) :
          /\ readable' = readable \o [i \in 1..k |-> pending[i].data]
          /\ pending' = SubSeq(pending, k + 1, Len(pending))
          /\ timer' = ArmLatencyTimer(pending')
          /\ rd' = IF k > 0 THEN Wake(rd, "notify") ELSE rd
          /\ wr' = IF k > 0 THEN Wake(wr, "notify") ELSE wr
    BY <1>2 DEF ReleaseDueLatency
  <2>2. pending \in Seq(HeldUnit) /\ readable \in Seq(Interval) /\ Len(pending) \in Nat
    BY DEF StreamInv, TypeOK
  <2>3. CASE k = 0
    <3>1. [i \in 1..0 |-> pending[i].data] = <<>>
      OBVIOUS
    <3>2. readable' = readable
      BY <2>1, <2>2, <2>3, <3>1
    <3>3. pending' = pending
      BY <2>1, <2>2, <2>3
    <3> QED
      BY <2>1, <2>3, <3>2, <3>3
  <2>4. CASE k # 0
    <3>1. k > 0 /\ pending # <<>>
      BY <2>2, <2>4, EmptyIffLenZero
    <3> QED
      BY <2>1, <3>1
  <2> QED
    BY <2>3, <2>4
<1> QED
  BY <1>1, <1>2

(* A unit held back joins the tail of pending; only the first one arms the *)
(* timer.                                                                  *)
LEMMA DeliverLaterTimer ==
    ASSUME StreamInv, NEW n \in Nat, DeliverLater(n)
    PROVE  /\ pending' # <<>>
           /\ pending # <<>> => timer' = timer /\ pending'[1] = pending[1]
           /\ pending = <<>> =>
                timer' = [armed |-> TRUE, at |-> Max2(pending'[1].releaseAt, now)]
<1> DEFINE first  == FirstCopy(log, NextUnit, n)
           second == SecondCopy(log, NextUnit, n)
<1>0. TypeOK
  BY DEF StreamInv
<1>1. pending \in Seq(HeldUnit) /\ Len(pending) \in Nat /\ Len(log) \in Nat
  BY <1>0 DEF TypeOK
<1>2. first \in Interval /\ second \in Interval
  <2>1. NextUnit \in Nat \ {0}
    BY <1>0, NextUnitType
  <2> QED
    BY <1>1, <2>1 DEF FirstCopy, SecondCopy, Payload, Interval
<1>3. PICK drawn \in Delays :
        LET at    == ReleaseAt(TransmittedAt(n), drawn)
            units == Append(pending, Unit(first, at))
        IN  /\ timer' = ArmLatencyForAppend(units)
            /\ pending' = Append(units, Unit(second, at)) \/ pending' = units
  BY DEF DeliverLater
<1> DEFINE at    == ReleaseAt(TransmittedAt(n), drawn)
           units == Append(pending, Unit(first, at))
<1>4. at \in Nat
  BY <1>0, TimeTypes
<1>5. timer' = ArmLatencyForAppend(units)
  BY <1>3
<1>6. pending' = Append(units, Unit(second, at)) \/ pending' = units
  BY <1>3
<1> HIDE DEF first, second, at
<1>7. Unit(first, at) \in HeldUnit /\ Unit(second, at) \in HeldUnit
  BY <1>2, <1>4 DEF Unit, HeldUnit
<1>8. /\ units \in Seq(HeldUnit) /\ Len(units) = Len(pending) + 1
      /\ \A i \in 1..Len(pending) : units[i] = pending[i]
  BY <1>1, <1>7
<1> HIDE DEF units
<1>9. pending' \in Seq(HeldUnit) /\ Len(pending') > 0 /\ pending'[1] = units[1]
  <2>1. CASE pending' = units
    BY <1>1, <1>8, <2>1
  <2>2. CASE pending' = Append(units, Unit(second, at))
    <3>1. Len(units) \in Nat /\ Len(units) > 0
      BY <1>1, <1>8
    <3>2. ASSUME NEW u \in HeldUnit
          PROVE  /\ Append(units, u) \in Seq(HeldUnit) /\ Len(Append(units, u)) > 0
                 /\ Append(units, u)[1] = units[1]
      BY <1>8, <3>1
    <3> QED
      BY <1>7, <2>2, <3>2
  <2> QED
    BY <1>6, <2>1, <2>2
<1>10. pending' # <<>>
  BY <1>9, EmptyIffLenZero
<1>11. ASSUME pending # <<>> PROVE timer' = timer /\ pending'[1] = pending[1]
  <2>1. Len(pending) # 0
    BY <1>1, <1>11, EmptyIffLenZero
  <2> QED
    BY <1>1, <1>5, <1>8, <1>9, <2>1 DEF ArmLatencyForAppend
<1>12. ASSUME pending = <<>>
       PROVE  timer' = [armed |-> TRUE, at |-> Max2(pending'[1].releaseAt, now)]
  <2>1. Len(units) = 1 /\ units # <<>>
    BY <1>8, <1>12, EmptyIffLenZero
  <2> QED
    BY <1>5, <1>9, <2>1 DEF ArmLatencyForAppend, ArmLatencyTimer
<1> QED
  BY <1>10, <1>11, <1>12

(* What an admitted write does to the queue.                               *)
LEMMA AdmitStep ==
    ASSUME StreamInv, NEW w \in Writers, NEW n \in WriteSizes, Admit(w, n)
    PROVE  /\ closed' = closed /\ ~closed /\ readClosed' = readClosed /\ ~readClosed
           /\ eofSeen' = eofSeen /\ callbacks' = callbacks /\ now' = now
           /\ partitioned' = partitioned
           /\ Room(n) /\ n \in Nat
           /\ bufBytes' \in {bufBytes, bufBytes + n, bufBytes + 2 * n}
           /\ \/ /\ pending' = pending /\ timer' = timer
                 /\ rd' = Wake(rd, "notify")
                 /\ wr' = [Wake(wr, "notify") EXCEPT ![w] = Idle]
              \/ /\ pending' # <<>> /\ readable' = readable /\ rd' = rd
                 /\ wr' = [wr EXCEPT ![w] = Idle]
                 /\ DeliverLater(n)
<1>0. n \in Nat
  BY SizeAssumption
<1>1. /\ closed' = closed /\ ~closed /\ readClosed' = readClosed /\ ~readClosed
      /\ eofSeen' = eofSeen /\ callbacks' = callbacks /\ now' = now /\ Room(n)
      /\ partitioned' = partitioned
  BY DEF Admit, ends, net
<1>2. CASE /\ DeliverPartitioned(n) \/ DeliverDropped(n) \/ DeliverNow(n)
           /\ rd' = Wake(rd, "notify")
           /\ wr' = [Wake(wr, "notify") EXCEPT ![w] = Idle]
  <2>1. pending' = pending /\ timer' = timer
    BY <1>2 DEF DeliverPartitioned, DeliverDropped, DeliverNow, queue
  <2>2. bufBytes' \in {bufBytes, bufBytes + n, bufBytes + 2 * n}
    BY <1>2 DEF DeliverPartitioned, DeliverDropped, DeliverNow, queue
  <2> QED
    BY <1>0, <1>1, <1>2, <2>1, <2>2
<1>3. CASE /\ DeliverLater(n) /\ wr' = [wr EXCEPT ![w] = Idle] /\ rd' = rd
  <2>1. /\ readable' = readable
        /\ bufBytes' \in {bufBytes, bufBytes + n, bufBytes + 2 * n}
    BY <1>3 DEF DeliverLater
  <2>2. pending' # <<>>
    BY <1>0, <1>3, DeliverLaterTimer
  <2> QED
    BY <1>0, <1>1, <1>3, <2>1, <2>2
<1> QED
  BY <1>2, <1>3 DEF Admit

(* What a Read that finds data does.  If it copied nothing into a buffer   *)
(* that is not empty, all it found was empty payloads.                     *)
LEMMA ReadDataStep ==
    ASSUME StreamInv, NEW r \in Readers, NEW n \in Nat, ReadData(r, n)
    PROVE  /\ ~readClosed /\ readClosed' = readClosed /\ closed' = closed
           /\ pending' = pending /\ timer' = timer /\ callbacks' = callbacks
           /\ now' = now /\ partitioned' = partitioned
           /\ readable # <<>> /\ wr' = Wake(wr, "notify")
           /\ \E c \in Nat : bufBytes' = bufBytes - c
           /\ \/ rd' = [Wake(rd, "notify") EXCEPT ![r] = Idle] /\ eofSeen' = eofSeen
              \/ readable' = <<>> /\ EndOrWait(r, n, Wake(rd, "notify"))
<1>1. /\ ~readClosed /\ readClosed' = readClosed /\ closed' = closed
      /\ pending' = pending /\ timer' = timer /\ callbacks' = callbacks
      /\ now' = now /\ partitioned' = partitioned
      /\ readable # <<>> /\ wr' = Wake(wr, "notify")
  BY DEF ReadData, net
<1>2. PICK k \in 0..Len(readable) :
        /\ StopsAt(k, n)
        /\ readable' = Leftover(readable, k, n)
        /\ bufBytes' = bufBytes - Copied(k, n)
        /\ \/ rd' = [Wake(rd, "notify") EXCEPT ![r] = Idle] /\ eofSeen' = eofSeen
           \/ ~(Copied(k, n) > 0 \/ n = 0) /\ EndOrWait(r, n, Wake(rd, "notify"))
  BY DEF ReadData
<1>3. /\ Copied(k, n) \in Nat /\ Leftover(readable, k, n) \in Seq(Interval)
      /\ Len(Leftover(readable, k, n)) = Len(readable) - k
  BY <1>1, <1>2, ReadDataTiles
<1>4. Len(readable) \in Nat
  BY DEF StreamInv, TypeOK
<1>5. ASSUME ~(Copied(k, n) > 0 \/ n = 0) PROVE readable' = <<>>
  <2>1. k = Len(readable)
    BY <1>5 DEF Copied
  <2>2. Len(readable') = 0 /\ readable' \in Seq(Interval)
    BY <1>2, <1>3, <1>4, <2>1
  <2> QED
    BY <2>2, EmptyIffLenZero
<1> QED
  BY <1>1, <1>2, <1>3, <1>5

(* Only abort closes the reading end, and after it nothing comes back.     *)
LEMMA AbortDiscardsStep ==
    ASSUME StreamInv, AbortDiscards, [Next]_vars
    PROVE  AbortDiscards'
<1>0. TypeOK
  BY DEF StreamInv
<1>1. ASSUME NEW w \in Writers, NEW n \in WriteSizes, Admit(w, n) PROVE AbortDiscards'
  BY <1>1, AdmitStep DEF AbortDiscards
<1>2. ASSUME NEW r \in Readers, NEW n \in Nat, ReadData(r, n) PROVE AbortDiscards'
  BY <1>2, ReadDataStep DEF AbortDiscards
<1>3. ASSUME NEW r \in Readers, NEW n \in Nat, ReadEmpty(r, n) PROVE AbortDiscards'
  BY <1>3 DEF AbortDiscards, ReadEmpty, queue
<1>4. CASE ReleaseDueLatency
  BY <1>4, ReleaseStep DEF AbortDiscards
<1>5. CASE TimerFires
  BY <1>5 DEF AbortDiscards, TimerFires, ends
<1>6. CASE Tick
  BY <1>6 DEF AbortDiscards, Tick, queue, ends
<1>7. CASE Close
  BY <1>7 DEF AbortDiscards, Close, queue
<1>8. CASE Abort
  BY <1>8 DEF AbortDiscards, Abort, Off
<1> QED
  BY <1>0, <1>1, <1>2, <1>3, <1>4, <1>5, <1>6, <1>7, <1>8, Steps, Unchanged
     DEF AbortDiscards

(* One timer or one callback for the held units, from the first append to  *)
(* the last release.                                                       *)
LEMMA TimerStep ==
    ASSUME StreamInv, StreamInv', TimerCoversPending, AbortDiscards, [Next]_vars
    PROVE  TimerCoversPending'
<1>0. TypeOK
  BY DEF StreamInv
<1>t. /\ callbacks \in Nat /\ now \in Nat /\ timer.armed \in BOOLEAN /\ timer.at \in Nat
      /\ Len(pending) \in Nat /\ pending \in Seq(HeldUnit)
      /\ pending # <<>> => pending[1].releaseAt \in Nat
  <2>1. pending # <<>> => pending[1] \in HeldUnit
    BY <1>0 DEF TypeOK
  <2> QED
    BY <1>0, <2>1 DEF TypeOK, HeldUnit
<1>1. ASSUME NEW w \in Writers, NEW n \in WriteSizes, Admit(w, n)
      PROVE  TimerCoversPending'
  <2>1. callbacks' = callbacks /\ now' = now /\ ~readClosed /\ readClosed' = readClosed
    BY <1>1, AdmitStep
  <2>2. CASE pending' = pending /\ timer' = timer
    BY <2>1, <2>2 DEF TimerCoversPending
  <2>3. CASE DeliverLater(n)
    <3>1. /\ pending' # <<>>
          /\ pending # <<>> => timer' = timer /\ pending'[1] = pending[1]
          /\ pending = <<>> =>
               timer' = [armed |-> TRUE, at |-> Max2(pending'[1].releaseAt, now)]
      BY <1>1, <2>3, AdmitStep, DeliverLaterTimer
    <3>2. CASE pending # <<>>
      BY <2>1, <3>1, <3>2 DEF TimerCoversPending
    <3>3. CASE pending = <<>>
      <4>1. ~timer.armed /\ callbacks = 0
        BY <1>t, <2>1, <3>3 DEF TimerCoversPending
      <4>2. timer'.armed /\ timer'.at = Max2(pending'[1].releaseAt, now)
        BY <3>1, <3>3
      <4>3. pending'[1].releaseAt \in Nat
        <5>1. pending' \in Seq(HeldUnit)
          BY DEF StreamInv, TypeOK
        <5>2. pending'[1] \in HeldUnit
          BY <3>1, <5>1
        <5> QED
          BY <5>2 DEF HeldUnit
      <4> QED
        BY <1>t, <2>1, <3>1, <4>1, <4>2, <4>3 DEF TimerCoversPending, Max2
    <3> QED
      BY <3>2, <3>3
  <2> QED
    BY <1>1, <2>2, <2>3, AdmitStep
<1>2. ASSUME NEW r \in Readers, NEW n \in Nat, ReadData(r, n) PROVE TimerCoversPending'
  BY <1>2, ReadDataStep DEF TimerCoversPending
<1>3. ASSUME NEW r \in Readers, NEW n \in Nat, ReadEmpty(r, n) PROVE TimerCoversPending'
  BY <1>3 DEF TimerCoversPending, ReadEmpty, queue
<1>4. CASE ReleaseDueLatency
  <2>1. /\ callbacks > 0 /\ callbacks' = callbacks - 1 /\ now' = now
        /\ readClosed' = readClosed
        /\ readClosed => timer' = timer /\ pending' = pending
        /\ ~readClosed => timer' = ArmLatencyTimer(pending')
    BY <1>4, ReleaseStep
  <2>2. callbacks = 1 /\ callbacks' = 0 /\ ~timer.armed
    BY <1>t, <2>1 DEF TimerCoversPending
  <2>3. CASE readClosed
    BY <2>1, <2>2, <2>3 DEF TimerCoversPending
  <2>4. CASE ~readClosed
    <3>1. CASE pending' = <<>>
      BY <2>1, <2>2, <2>4, <3>1 DEF TimerCoversPending, ArmLatencyTimer, Off
    <3>2. CASE pending' # <<>>
      <4>1. timer'.armed /\ timer'.at = Max2(pending'[1].releaseAt, now)
        BY <2>1, <2>4, <3>2 DEF ArmLatencyTimer
      <4>2. pending'[1].releaseAt \in Nat
        <5>1. pending' \in Seq(HeldUnit)
          BY DEF StreamInv, TypeOK
        <5>2. pending'[1] \in HeldUnit
          BY <3>2, <5>1
        <5> QED
          BY <5>2 DEF HeldUnit
      <4> QED
        BY <1>t, <2>1, <2>2, <3>2, <4>1, <4>2 DEF TimerCoversPending, Max2
    <3> QED
      BY <3>1, <3>2
  <2> QED
    BY <2>3, <2>4
<1>5. CASE TimerFires
  <2>1. /\ timer.armed /\ ~timer'.armed /\ callbacks' = callbacks + 1
        /\ pending' = pending /\ readClosed' = readClosed
    BY <1>5 DEF TimerFires, Off, ends
  <2>2. callbacks = 0 /\ callbacks' = 1
    BY <1>t, <2>1 DEF TimerCoversPending
  <2> QED
    BY <2>1, <2>2 DEF TimerCoversPending
<1>6. CASE Tick
  <2>1. /\ timer' = timer /\ pending' = pending /\ callbacks' = callbacks
        /\ readClosed' = readClosed /\ now' = now + 1
    BY <1>6 DEF Tick, queue, ends
  <2>2. ASSUME timer.armed
        PROVE  pending # <<>> /\ timer.at <= Max2(pending[1].releaseAt, now + 1)
    BY <1>t, <2>2 DEF TimerCoversPending, Max2
  <2> QED
    BY <2>1, <2>2 DEF TimerCoversPending
<1>7. CASE Close
  BY <1>7 DEF TimerCoversPending, Close, queue
<1>8. CASE Abort
  <2>1. /\ readClosed' /\ ~timer'.armed /\ callbacks' = callbacks
    BY <1>8 DEF Abort, Off
  <2>2. callbacks <= 1
    BY <1>t DEF TimerCoversPending
  <2> QED
    BY <1>t, <2>1, <2>2 DEF TimerCoversPending
<1> QED
  BY <1>0, <1>1, <1>2, <1>3, <1>4, <1>5, <1>6, <1>7, <1>8, Steps, Unchanged
     DEF TimerCoversPending

(* What is in the pipe is never negative.                                  *)
LEMMA BytesInPipe == ASSUME StreamInv, ~readClosed PROVE bufBytes \in Nat
<1>1. bufBytes = Len(log) - Len(got) /\ Len(got) <= Len(log)
  BY DEF StreamInv, ExactAccounting, InOrder
<1>2. Len(log) \in Nat /\ Len(got) \in Nat
  BY DEF StreamInv, TypeOK
<1> QED
  BY <1>1, <1>2

(* No step overfills the pipe: an admitted write leaves at most its copy   *)
(* over the bound.                                                         *)
LEMMA BoundStep ==
    ASSUME StreamInv, BoundRespected, [Next]_vars
    PROVE  BoundRespected'
<1>0. TypeOK /\ bufBytes \in Int /\ Bound \in Nat
  BY BoundAssumption DEF StreamInv, TypeOK
<1>1. ASSUME NEW w \in Writers, NEW n \in WriteSizes, Admit(w, n) PROVE BoundRespected'
  <2>1. /\ Room(n) /\ n \in Nat
        /\ bufBytes' \in {bufBytes, bufBytes + n, bufBytes + 2 * n}
    BY <1>1, AdmitStep
  <2>2. CASE bufBytes = 0
    <3>1. bufBytes' <= Max2(Bound, n) + n
      BY <1>0, <2>1, <2>2 DEF Max2
    <3> QED
      BY <3>1 DEF BoundRespected
  <2>3. CASE bufBytes + n <= Bound
    <3>1. bufBytes' <= Max2(Bound, n) + n
      BY <1>0, <2>1, <2>3 DEF Max2
    <3> QED
      BY <3>1 DEF BoundRespected
  <2> QED
    BY <2>1, <2>2, <2>3 DEF Room
<1>2. ASSUME NEW r \in Readers, NEW n \in Nat, ReadData(r, n) PROVE BoundRespected'
  <2>1. PICK c \in Nat : bufBytes' = bufBytes - c
    BY <1>2, ReadDataStep
  <2>2. ~readClosed /\ readClosed' = readClosed
    BY <1>2, ReadDataStep
  <2>3. StreamInv'
    BY StreamStep
  <2>4. bufBytes' \in Nat
    <3>1. bufBytes' = Len(log') - Len(got') /\ Len(got') <= Len(log')
      BY <2>2, <2>3 DEF StreamInv, ExactAccounting, InOrder
    <3>2. log' \in Seq(Nat \ {0}) /\ got' \in Seq(Nat \ {0})
      BY <2>3 DEF StreamInv, TypeOK
    <3>3. Len(log') \in Nat /\ Len(got') \in Nat
      BY <3>2
    <3> QED
      BY <3>1, <3>3
  <2>5. CASE bufBytes = 0
    BY <2>1, <2>4, <2>5 DEF BoundRespected
  <2>6. ASSUME NEW m \in WriteSizes, bufBytes <= Max2(Bound, m) + m
        PROVE  bufBytes' <= Max2(Bound, m) + m
    <3>1. m \in Nat
      BY SizeAssumption
    <3> QED
      BY <1>0, <2>1, <2>6, <3>1 DEF Max2
  <2> QED
    BY <2>5, <2>6 DEF BoundRespected
<1>3. ASSUME NEW r \in Readers, NEW n \in Nat, ReadEmpty(r, n) PROVE BoundRespected'
  BY <1>3 DEF BoundRespected, ReadEmpty, queue
<1>4. CASE ReleaseDueLatency
  BY <1>4, ReleaseStep DEF BoundRespected
<1>5. CASE TimerFires \/ Tick \/ Close
  BY <1>5 DEF BoundRespected, TimerFires, Tick, Close, queue
<1>6. CASE Abort
  BY <1>6 DEF BoundRespected, Abort
<1> QED
  BY <1>0, <1>1, <1>2, <1>3, <1>4, <1>5, <1>6, Steps, Unchanged DEF BoundRespected

(* The promises to parked calls, one call at a time.                       *)
WriterCovered(c) == c.at = "notify" => ~closed /\ ~Room(c.len)
ReaderCovered(c) ==
    /\ c.at = "notify" =>
          ~readClosed /\ readable = <<>> /\ ~(closed /\ pending = <<>>)
    /\ c.at = "partition" => partitioned /\ closed

(* After a broadcast no call is left parked on the channel.                *)
LEMMA WokenNotParked ==
    ASSUME NEW S, NEW calls \in [S -> Call], NEW ch, ch # "woken", NEW c \in S
    PROVE  /\ Wake(calls, ch)[c].at # ch
           /\ calls[c].at # ch => Wake(calls, ch)[c] = calls[c]
           /\ Wake(calls, ch)[c].at \in {calls[c].at, "woken"}
BY DEF Wake, Call

(* No broadcast is missed by a writer.                                     *)
LEMMA WriterStep ==
    ASSUME StreamInv, AbortDiscards, NoLostWakeup, [Next]_vars, NEW v \in Writers
    PROVE  WriterCovered(wr[v])'
<1>0. /\ TypeOK /\ wr \in [Writers -> Call] /\ WriterCovered(wr[v])
  BY DEF StreamInv, TypeOK, NoLostWakeup, WriterCovered
<1>1. Wake(wr, "notify")[v].at # "notify"
  BY <1>0, WokenNotParked
<1>w. Wake(wr, "notify") \in [Writers -> Call]
  BY <1>0, WakeTypes
<1>2. ASSUME wr' = Wake(wr, "notify") PROVE WriterCovered(wr[v])'
  BY <1>1, <1>2 DEF WriterCovered
<1>3. ASSUME NEW w \in Writers, NEW n \in WriteSizes, Admit(w, n)
      PROVE  WriterCovered(wr[v])'
  <2>1. CASE wr' = [Wake(wr, "notify") EXCEPT ![w] = Idle]
    <3>1. wr'[v].at # "notify"
      BY <1>1, <1>w, <2>1, CallTypes, CallReplaced
    <3> QED
      BY <3>1 DEF WriterCovered
  <2>2. CASE wr' = [wr EXCEPT ![w] = Idle]
    <3>1. v = w => wr'[v].at = "idle"
      BY <1>0, <2>2, CallTypes, CallReplaced
    <3>2. v # w => wr'[v] = wr[v]
      BY <1>0, <2>2, CallTypes, CallReplaced
    <3>3. /\ ~readClosed /\ closed' = closed /\ n \in Nat
          /\ bufBytes' \in {bufBytes, bufBytes + n, bufBytes + 2 * n}
      BY <1>3, AdmitStep
    <3>4. bufBytes \in Nat
      BY <3>3, BytesInPipe
    <3>5. ASSUME NEW m \in Nat, ~Room(m) PROVE ~Room(m)'
      <4>1. Bound \in Nat /\ bufBytes # 0 /\ bufBytes + m > Bound
        BY <3>4, <3>5, BoundAssumption DEF Room
      <4>2. bufBytes' \in Nat /\ bufBytes' >= bufBytes
        BY <3>3, <3>4
      <4>3. bufBytes' # 0
        BY <3>4, <4>1, <4>2
      <4>4. \A a, b, c, d \in Nat : a + c > d /\ b >= a => ~(b + c <= d)
        OBVIOUS
      <4>5. ~(bufBytes' + m <= Bound)
        BY <3>4, <4>1, <4>2, <4>4
      <4> QED
        BY <4>3, <4>5 DEF Room
    <3>6. wr[v].len \in Nat
      BY <1>0 DEF Call
    <3>7. CASE v # w
      BY <1>0, <3>2, <3>3, <3>5, <3>6, <3>7 DEF WriterCovered, Room
    <3>8. CASE v = w
      BY <3>1, <3>8 DEF WriterCovered
    <3> QED
      BY <3>7, <3>8
  <2> QED
    BY <1>3, <2>1, <2>2, AdmitStep
<1>4. ASSUME wr' = wr, bufBytes' = bufBytes, closed' = closed PROVE WriterCovered(wr[v])'
  BY <1>0, <1>4 DEF WriterCovered, Room
<1>5. ASSUME NEW w \in Writers, NEW n \in WriteSizes, WriteBlocks(w, n)
      PROVE  WriterCovered(wr[v])'
  <2>1. /\ ~closed /\ ~Room(n) /\ bufBytes' = bufBytes /\ closed' = closed
        /\ wr' = [wr EXCEPT ![w] = Parked("notify", n)]
    BY <1>5 DEF WriteBlocks, queue, ends
  <2>2. Parked("notify", n) \in Call /\ Parked("notify", n).len = n
    BY SizeAssumption, CallTypes DEF Places
  <2>3. wr'[w] = Parked("notify", n) /\ (v # w => wr'[v] = wr[v])
    BY <1>0, <2>1, <2>2, CallReplaced
  <2>4. CASE v = w
    BY <2>1, <2>2, <2>3, <2>4 DEF WriterCovered, Room
  <2>5. CASE v # w
    BY <1>0, <2>1, <2>3, <2>5 DEF WriterCovered, Room
  <2> QED
    BY <2>4, <2>5
<1>6. ASSUME NEW w \in Writers, WriteRefused(w) PROVE WriterCovered(wr[v])'
  <2>1. bufBytes' = bufBytes /\ closed' = closed /\ wr' = [wr EXCEPT ![w] = Idle]
    BY <1>6 DEF WriteRefused, queue, ends
  <2>2. (v = w => wr'[v].at = "idle") /\ (v # w => wr'[v] = wr[v])
    BY <1>0, <2>1, CallTypes, CallReplaced
  <2>4. CASE v = w
    BY <2>2, <2>4 DEF WriterCovered
  <2>5. CASE v # w
    BY <1>0, <2>1, <2>2, <2>5 DEF WriterCovered, Room
  <2> QED
    BY <2>4, <2>5
<1>7. ASSUME NEW r \in Readers, NEW n \in Nat, ReadData(r, n) PROVE WriterCovered(wr[v])'
  BY <1>2, <1>7, ReadDataStep
<1>8. ASSUME NEW r \in Readers, NEW n \in Nat, ReadEmpty(r, n) \/ ReadAborted(r)
      PROVE  WriterCovered(wr[v])'
  BY <1>4, <1>8 DEF ReadEmpty, ReadAborted, queue, ends
<1>9. CASE ReleaseDueLatency
  BY <1>2, <1>4, <1>9, ReleaseStep
<1>10. CASE Close \/ Abort
  BY <1>2, <1>10 DEF Close, Abort
<1>11. CASE \/ TimerFires \/ Tick \/ SetLatency \/ SetPacketLoss \/ SetDuplication
            \/ (\E p \in BOOLEAN : PartitionChange(p)) \/ UNCHANGED vars
  BY <1>4, <1>11 DEF TimerFires, Tick, SetLatency, SetPacketLoss, SetDuplication,
         PartitionChange, queue, ends, vars
<1> QED
  BY <1>0, <1>3, <1>5, <1>6, <1>7, <1>8, <1>9, <1>10, <1>11, Steps

(* No broadcast is missed by a reader.                                     *)
LEMMA ReaderStep ==
    ASSUME StreamInv, AbortDiscards, NoLostWakeup, EofIsFinal, [Next]_vars,
           NEW q \in Readers
    PROVE  ReaderCovered(rd[q])'
<1>0. /\ TypeOK /\ rd \in [Readers -> Call] /\ ReaderCovered(rd[q])
  BY DEF StreamInv, TypeOK, NoLostWakeup, ReaderCovered
<1> DEFINE woken == Wake(rd, "notify")
<1>1. /\ woken \in [Readers -> Call] /\ woken[q].at # "notify"
      /\ woken[q].at = "partition" => partitioned /\ closed
  BY <1>0, WakeTypes, WokenNotParked DEF ReaderCovered
<1> HIDE DEF woken
<1>i. ASSUME rd'[q].at = "idle" PROVE ReaderCovered(rd[q])'
  BY <1>i DEF ReaderCovered
<1>2. ASSUME rd'[q] = woken[q], partitioned' = partitioned, closed' = closed \/ closed'
      PROVE  ReaderCovered(rd[q])'
  BY <1>1, <1>2 DEF ReaderCovered
<1>3. ASSUME rd'[q] = rd[q], readable' = readable, partitioned' = partitioned,
             closed' = closed, readClosed' = readClosed,
             pending' = pending \/ pending' # <<>>
      PROVE  ReaderCovered(rd[q])'
  BY <1>0, <1>3 DEF ReaderCovered
<1>4. ASSUME NEW r \in Readers, NEW n \in Nat, NEW calls \in [Readers -> Call],
             EndOrWait(r, n, calls), ~readClosed, readable' = <<>>,
             partitioned' = partitioned, closed' = closed, readClosed' = readClosed,
             pending' = pending
      PROVE  /\ q = r => ReaderCovered(rd[q])'
             /\ q # r => rd'[q] = calls[q]
  <2>1. /\ Idle \in Call /\ Idle.at = "idle"
        /\ Parked("notify", n) \in Call /\ Parked("notify", n).at = "notify"
        /\ Parked("partition", n) \in Call /\ Parked("partition", n).at = "partition"
    BY CallTypes DEF Places
  <2>2. CASE closed /\ pending = <<>> /\ ~eofSeen /\ partitioned
    <3>1. rd' = [calls EXCEPT ![r] = Parked("partition", n)]
      BY <1>4, <2>2 DEF EndOrWait
    <3>2. rd'[r].at = "partition" /\ (q # r => rd'[q] = calls[q])
      BY <2>1, <3>1, CallReplaced
    <3> QED
      BY <1>4, <2>2, <3>2 DEF ReaderCovered
  <2>3. CASE closed /\ pending = <<>> /\ ~(~eofSeen /\ partitioned)
    <3>1. rd' = [calls EXCEPT ![r] = Idle]
      BY <1>4, <2>3 DEF EndOrWait
    <3>2. rd'[r].at = "idle" /\ (q # r => rd'[q] = calls[q])
      BY <2>1, <3>1, CallReplaced
    <3> QED
      BY <3>2 DEF ReaderCovered
  <2>4. CASE ~(closed /\ pending = <<>>)
    <3>1. rd' = [calls EXCEPT ![r] = Parked("notify", n)]
      BY <1>4, <2>4 DEF EndOrWait
    <3>2. rd'[r].at = "notify" /\ (q # r => rd'[q] = calls[q])
      BY <2>1, <3>1, CallReplaced
    <3> QED
      BY <1>4, <2>4, <3>2 DEF ReaderCovered
  <2> QED
    BY <2>2, <2>3, <2>4
<1>5. ASSUME NEW w \in Writers, NEW n \in WriteSizes, Admit(w, n)
      PROVE  ReaderCovered(rd[q])'
  BY <1>2, <1>3, <1>5, AdmitStep DEF woken
<1>6. ASSUME NEW r \in Readers, NEW n \in Nat, ReadData(r, n)
      PROVE  ReaderCovered(rd[q])'
  <2>1. /\ ~readClosed /\ readClosed' = readClosed /\ closed' = closed
        /\ pending' = pending /\ partitioned' = partitioned
    BY <1>6, ReadDataStep
  <2>2. CASE rd' = [woken EXCEPT ![r] = Idle]
    <3>1. (q = r => rd'[q].at = "idle") /\ (q # r => rd'[q] = woken[q])
      BY <1>1, <2>2, CallTypes, CallReplaced
    <3> QED
      BY <1>i, <1>2, <2>1, <3>1
  <2>3. CASE readable' = <<>> /\ EndOrWait(r, n, woken)
    <3>1. /\ q = r => ReaderCovered(rd[q])'
          /\ q # r => rd'[q] = woken[q]
      BY <1>1, <1>4, <2>1, <2>3
    <3> QED
      BY <1>2, <2>1, <3>1
  <2> QED
    BY <1>6, <2>2, <2>3, ReadDataStep DEF woken
<1>7. ASSUME NEW r \in Readers, NEW n \in Nat, ReadEmpty(r, n)
      PROVE  ReaderCovered(rd[q])'
  <2>1. /\ ~readClosed /\ readClosed' = readClosed /\ closed' = closed
        /\ pending' = pending /\ partitioned' = partitioned
        /\ readable = <<>> /\ readable' = readable /\ EndOrWait(r, n, rd)
    BY <1>7 DEF ReadEmpty, queue, net
  <2>2. /\ q = r => ReaderCovered(rd[q])'
        /\ q # r => rd'[q] = rd[q]
    BY <1>0, <1>4, <2>1
  <2> QED
    BY <1>3, <2>1, <2>2
<1>8. ASSUME NEW r \in Readers, ReadAborted(r) PROVE ReaderCovered(rd[q])'
  <2>1. /\ readClosed' = readClosed /\ closed' = closed /\ readable' = readable
        /\ pending' = pending /\ partitioned' = partitioned
        /\ rd' = [rd EXCEPT ![r] = Idle]
    BY <1>8 DEF ReadAborted, queue, ends, net
  <2>2. (q = r => rd'[q].at = "idle") /\ (q # r => rd'[q] = rd[q])
    BY <1>0, <2>1, CallTypes, CallReplaced
  <2> QED
    BY <1>i, <1>3, <2>1, <2>2
<1>9. CASE ReleaseDueLatency
  BY <1>2, <1>3, <1>9, ReleaseStep DEF woken
<1>10. CASE Close \/ Abort
  BY <1>2, <1>10 DEF Close, Abort, net, woken
<1>11. ASSUME NEW p \in BOOLEAN, PartitionChange(p) PROVE ReaderCovered(rd[q])'
  <2>1. /\ rd' = Wake(rd, "partition") /\ readClosed' = readClosed
        /\ closed' = closed /\ readable' = readable /\ pending' = pending
    BY <1>11 DEF PartitionChange, queue, ends
  <2>2. /\ rd'[q].at # "partition"
        /\ rd'[q].at = "notify" => rd[q].at = "notify"
    BY <1>0, <2>1, WokenNotParked
  <2> QED
    BY <1>0, <2>1, <2>2 DEF ReaderCovered
<1>12. CASE \/ TimerFires \/ Tick \/ SetLatency \/ SetPacketLoss \/ SetDuplication
            \/ (\E w \in Writers, n \in WriteSizes : WriteBlocks(w, n) \/ WriteRefused(w))
            \/ UNCHANGED vars
  BY <1>3, <1>12 DEF TimerFires, Tick, SetLatency, SetPacketLoss, SetDuplication,
         WriteBlocks, WriteRefused, queue, ends, net, vars
<1> QED
  BY <1>0, <1>5, <1>6, <1>7, <1>8, <1>9, <1>10, <1>11, <1>12, Steps

(* The two together.                                                       *)
LEMMA WakeupStep ==
    ASSUME StreamInv, AbortDiscards, NoLostWakeup, EofIsFinal, [Next]_vars
    PROVE  NoLostWakeup'
<1>1. ASSUME NEW w \in Writers
      PROVE  wr'[w].at = "notify" => ~closed' /\ ~Room(wr[w].len)'
  BY WriterStep DEF WriterCovered
<1>2. ASSUME NEW r \in Readers
      PROVE  /\ rd'[r].at = "notify" =>
                   ~readClosed' /\ readable' = <<>> /\ ~(closed' /\ pending' = <<>>)
             /\ rd'[r].at = "partition" => partitioned' /\ closed'
  BY ReaderStep DEF ReaderCovered
<1> QED
  BY <1>1, <1>2 DEF NoLostWakeup

(* EOF is reported on an empty pipe, once every accepted byte was read, and *)
(* parks nobody.                                                            *)
LEMMA EofStep ==
    ASSUME StreamInv, AbortDiscards, NoLostWakeup, EofIsFinal, [Next]_vars,
           StreamInv', NoLostWakeup'
    PROVE  EofIsFinal'
<1>0. /\ TypeOK /\ rd \in [Readers -> Call]
      /\ \A r \in Readers : rd[r].at \in Places
  BY DEF StreamInv, TypeOK, Call
<1>w. ASSUME NEW ch \in {"notify", "partition"}, NEW q \in Readers,
             rd[q].at \in {"idle", "woken"}
      PROVE  Wake(rd, ch)[q].at \in {"idle", "woken"}
  BY <1>0, <1>w, WokenNotParked
<1>a. ASSUME rd' \in {rd, Wake(rd, "notify"), Wake(rd, "partition")},
             readable' = readable, pending' = pending, eofSeen' = eofSeen,
             log' = log, got' = got, closed' = closed \/ closed'
      PROVE  EofIsFinal'
  <2> SUFFICES ASSUME eofSeen PROVE EofIsFinal'
    BY <1>a DEF EofIsFinal
  <2>1. \A r \in Readers : rd'[r].at \in {"idle", "woken"}
    BY <1>a, <1>w DEF EofIsFinal
  <2>2. closed /\ readable = <<>> /\ pending = <<>> /\ got = log
    BY DEF EofIsFinal
  <2>3. closed'
    BY <1>a, <2>2, Zenon
  <2>4. readable' = <<>> /\ pending' = <<>> /\ got' = log'
    BY <1>a, <2>2
  <2> QED
    BY <2>1, <2>3, <2>4 DEF EofIsFinal
<1>e. ASSUME eofSeen', closed, closed' = closed, pending' = <<>>, readable' = <<>>, ~readClosed',
             \A r \in Readers : rd'[r].at # "partition"
      PROVE  EofIsFinal'
  <2>1. Avail' = Len(got')
    BY <1>e DEF Avail, EndOf
  <2>2. Len(got') = Len(log')
    <3>1. Tiles(DataOf(pending'), Avail', Len(log'), log')
      BY <1>e DEF StreamInv, QueueTilesStream
    <3>2. Len(DataOf(pending')) = 0
      BY <1>e DEF DataOf
    <3> QED
      BY <2>1, <3>1, <3>2 DEF Tiles
  <2>3. got' = log'
    <3>1. got' \in Seq(Nat \ {0}) /\ log' \in Seq(Nat \ {0})
      BY DEF StreamInv, TypeOK
    <3>2. \A b \in 1..Len(got') : got'[b] = log'[b]
      BY DEF StreamInv, InOrder
    <3> QED
      BY <2>2, <3>1, <3>2
  <2>4. ASSUME NEW r \in Readers PROVE rd'[r].at \in {"idle", "woken"}
    <3>1. rd'[r].at # "notify"
      BY <1>e DEF NoLostWakeup
    <3>2. rd'[r] \in Call
      BY DEF StreamInv, TypeOK
    <3>3. rd'[r].at \in Places
      BY <3>2 DEF Call
    <3> QED
      BY <1>e, <3>1, <3>3 DEF Places
  <2> QED
    BY <1>e, <2>3, <2>4 DEF EofIsFinal
<1>r. ASSUME NEW r \in Readers, NEW n \in Nat, NEW calls \in [Readers -> Call],
             EndOrWait(r, n, calls), readable' = <<>>, pending' = pending,
             closed' = closed, readClosed' = readClosed, ~readClosed,
             \A q \in Readers : calls[q].at = "partition" => partitioned,
             eofSeen => \A q \in Readers : calls[q].at \in {"idle", "woken"}
      PROVE  EofIsFinal'
  <2>1. CASE ~(closed /\ pending = <<>>) \/ (~eofSeen /\ partitioned)
    <3>1. eofSeen' = eofSeen
      BY <1>r, <2>1 DEF EndOrWait
    <3>2. ~eofSeen
      BY <2>1 DEF EofIsFinal
    <3> QED
      BY <3>1, <3>2 DEF EofIsFinal
  <2>2. CASE closed /\ pending = <<>> /\ (eofSeen \/ ~partitioned)
    <3>1. eofSeen' /\ rd' = [calls EXCEPT ![r] = Idle]
      BY <1>r, <2>2 DEF EndOrWait
    <3>2. ASSUME NEW q \in Readers PROVE rd'[q].at # "partition"
      <4>1. (q = r => rd'[q].at = "idle") /\ (q # r => rd'[q] = calls[q])
        BY <3>1, CallTypes, CallReplaced
      <4>2. calls[q].at # "partition"
        BY <1>r, <2>2
      <4> QED
        BY <4>1, <4>2
    <3> QED
      BY <1>e, <1>r, <2>2, <3>1, <3>2
  <2> QED
    BY <2>1, <2>2
<1>1. ASSUME NEW w \in Writers, NEW n \in WriteSizes, Admit(w, n) PROVE EofIsFinal'
  BY <1>1, AdmitStep DEF EofIsFinal
<1>2. ASSUME NEW r \in Readers, NEW n \in Nat, ReadData(r, n) PROVE EofIsFinal'
  <2>1. /\ ~readClosed /\ readClosed' = readClosed /\ closed' = closed
        /\ pending' = pending /\ readable # <<>> /\ ~eofSeen
        /\ \/ eofSeen' = eofSeen
           \/ readable' = <<>> /\ EndOrWait(r, n, Wake(rd, "notify"))
    BY <1>2, ReadDataStep DEF EofIsFinal
  <2>2. CASE eofSeen' = eofSeen
    BY <2>1, <2>2 DEF EofIsFinal
  <2>3. CASE readable' = <<>> /\ EndOrWait(r, n, Wake(rd, "notify"))
    <3>1. Wake(rd, "notify") \in [Readers -> Call]
      BY <1>0, WakeTypes
    <3>2. \A q \in Readers : Wake(rd, "notify")[q].at = "partition" => partitioned
      BY <1>0, WokenNotParked DEF NoLostWakeup
    <3> QED
      BY <1>r, <2>1, <2>3, <3>1, <3>2
  <2> QED
    BY <2>1, <2>2, <2>3
<1>3. ASSUME NEW r \in Readers, NEW n \in Nat, ReadEmpty(r, n) PROVE EofIsFinal'
  <2>1. /\ ~readClosed /\ readClosed' = readClosed /\ closed' = closed
        /\ pending' = pending /\ readable' = <<>> /\ EndOrWait(r, n, rd)
    BY <1>3 DEF ReadEmpty, queue
  <2>2. /\ \A q \in Readers : rd[q].at = "partition" => partitioned
        /\ eofSeen => \A q \in Readers : rd[q].at \in {"idle", "woken"}
    BY DEF NoLostWakeup, EofIsFinal
  <2> QED
    BY <1>0, <1>r, <2>1, <2>2
<1>4. ASSUME NEW r \in Readers, ReadAborted(r) PROVE EofIsFinal'
  <2>1. /\ rd' = [rd EXCEPT ![r] = Idle] /\ readable' = readable /\ pending' = pending
        /\ eofSeen' = eofSeen /\ log' = log /\ got' = got /\ closed' = closed
    BY <1>4 DEF ReadAborted, queue, ends, hist
  <2>2. ASSUME NEW q \in Readers, rd[q].at \in {"idle", "woken"}
        PROVE  rd'[q].at \in {"idle", "woken"}
    <3>1. (q = r => rd'[q].at = "idle") /\ (q # r => rd'[q] = rd[q])
      BY <1>0, <2>1, CallTypes, CallReplaced
    <3> QED
      BY <2>2, <3>1
  <2> QED
    BY <2>1, <2>2 DEF EofIsFinal
<1>5. CASE ReleaseDueLatency
  <2> SUFFICES ASSUME eofSeen PROVE EofIsFinal'
    BY <1>5, ReleaseStep DEF EofIsFinal
  <2>1. pending = <<>>
    BY DEF EofIsFinal
  <2>2. /\ readable' = readable /\ pending' = pending /\ eofSeen' = eofSeen
        /\ log' = log /\ got' = got /\ closed' = closed
        /\ rd' = rd \/ rd' = Wake(rd, "notify")
    BY <1>5, <2>1, ReleaseStep
  <2> QED
    BY <1>a, <2>2
<1>6. CASE Close
  BY <1>6, <1>a DEF Close, queue, hist
<1>7. CASE Abort
  <2>1. /\ rd' = Wake(rd, "notify") /\ readable' = <<>> /\ pending' = <<>> /\ closed'
        /\ eofSeen' = eofSeen /\ log' = log /\ got' = got
    BY <1>7 DEF Abort, hist
  <2> SUFFICES ASSUME eofSeen PROVE EofIsFinal'
    BY <2>1 DEF EofIsFinal
  <2>2. \A r \in Readers : rd'[r].at \in {"idle", "woken"}
    BY <1>w, <2>1 DEF EofIsFinal
  <2> QED
    BY <2>1, <2>2 DEF EofIsFinal
<1>8. CASE \/ TimerFires \/ Tick \/ SetLatency \/ SetPacketLoss \/ SetDuplication
           \/ (\E w \in Writers, n \in WriteSizes : WriteBlocks(w, n) \/ WriteRefused(w))
           \/ (\E p \in BOOLEAN : PartitionChange(p)) \/ UNCHANGED vars
  <2>1. /\ rd' \in {rd, Wake(rd, "partition")}
        /\ readable' = readable /\ pending' = pending /\ eofSeen' = eofSeen
        /\ log' = log /\ got' = got /\ closed' = closed
    BY <1>8 DEF TimerFires, Tick, SetLatency, SetPacketLoss, SetDuplication,
         WriteBlocks, WriteRefused, PartitionChange, queue, ends, hist, vars
  <2> QED
    BY <1>a, <2>1
<1> QED
  BY <1>0, <1>1, <1>2, <1>3, <1>4, <1>5, <1>6, <1>7, <1>8, Steps

-----------------------------------------------------------------------------
(* Every set of naturals that is not empty has a least element: what takes *)
(* the place of induction below.                                           *)
LEMMA LeastIn ==
    ASSUME NEW T, T \subseteq Nat, T # {}
    PROVE  \E x \in T : \A y \in T : x <= y
<1> DEFINE less == {ss \in Nat \X Nat : ss[1] < ss[2]}
<1>1. IsWellFoundedOn(less, Nat)
  BY NatLessThanWellFounded DEF OpToRel
<1>2. PICK x \in T : \A y \in T : <<y, x>> \notin less
  BY <1>1, WFMin
<1>3. ASSUME NEW y \in T PROVE x <= y
  <2>1. x \in Nat /\ y \in Nat /\ <<y, x>> \notin less
    BY <1>2
  <2>2. ~(y < x)
    BY <2>1
  <2> QED
    BY <2>1, <2>2
<1> QED
  BY <1>2, <1>3

(* The stream after accepting m bytes of unit u.                           *)
LEMMA ExtendGrows ==
    ASSUME NEW l \in Seq(Nat \ {0}), NEW u \in Nat \ {0}, NEW m \in Nat
    PROVE  /\ Extend(l, u, m) \in Seq(Nat \ {0})
           /\ Len(Extend(l, u, m)) = Len(l) + m
           /\ \A b \in 1..Len(l) : Extend(l, u, m)[b] = l[b]
           /\ \A b \in (Len(l) + 1)..(Len(l) + m) : Extend(l, u, m)[b] = u
<1> DEFINE g == l \o [b \in 1..m |-> u]
<1>1. PICK S : S = Nat \ {0}
  OBVIOUS
<1>2. l \in Seq(S) /\ u \in S
  BY <1>1
<1>3. /\ g \in Seq(S) /\ Len(g) = Len(l) + m
      /\ \A b \in 1..Len(l) : g[b] = l[b]
      /\ \A b \in (Len(l) + 1)..(Len(l) + m) : g[b] = u
  BY <1>2, Grows
<1> QED
  BY <1>1, <1>3 DEF Extend

(* How accepting m bytes of unit u changes what a stream holds of a unit.  *)
LEMMA Counted ==
    ASSUME NEW l \in Seq(Nat \ {0}), NEW u \in Nat \ {0}, NEW m \in Nat,
           \A b \in DOMAIN l : l[b] # u
    PROVE  /\ BytesOf(l, u) = 0
           /\ BytesOf(Extend(l, u, m), u) = m
           /\ \A v \in Nat : v # u => BytesOf(Extend(l, u, m), v) = BytesOf(l, v)
<1> DEFINE g == Extend(l, u, m)
<1>0. Len(l) \in Nat
  OBVIOUS
<1>g. /\ g \in Seq(Nat \ {0}) /\ Len(g) = Len(l) + m
      /\ \A b \in 1..Len(l) : g[b] = l[b]
      /\ \A b \in (Len(l) + 1)..(Len(l) + m) : g[b] = u
  BY ExtendGrows, Zenon
<1>1. /\ g \in Seq(Nat \ {0}) /\ Len(g) = Len(l) + m /\ Len(l) \in Nat
      /\ \A b \in 1..Len(l) : g[b] = l[b]
      /\ \A b \in (Len(l) + 1)..(Len(l) + m) : g[b] = u
  BY <1>0, <1>g
<1> HIDE DEF g
<1>2. DOMAIN l = 1..Len(l) /\ DOMAIN g = 1..(Len(l) + m)
  BY <1>1
<1>3. BytesOf(l, u) = 0
  <2>1. {b \in DOMAIN l : l[b] = u} = {}
    OBVIOUS
  <2> QED
    BY <2>1, FS_EmptySet DEF BytesOf
<1>4. BytesOf(g, u) = m
  <2>1. ASSUME NEW b \in DOMAIN g PROVE g[b] = u <=> b \in (Len(l) + 1)..(Len(l) + m)
    <3>1. CASE b \in 1..Len(l)
      BY <1>1, <1>2, <3>1
    <3>2. CASE b \in (Len(l) + 1)..(Len(l) + m)
      BY <1>1, <3>2
    <3> QED
      BY <1>1, <1>2, <3>1, <3>2
  <2>2. (Len(l) + 1)..(Len(l) + m) \subseteq DOMAIN g
    BY <1>1, <1>2
  <2>3. {b \in DOMAIN g : g[b] = u} = (Len(l) + 1)..(Len(l) + m)
    BY <2>1, <2>2
  <2>4. Cardinality((Len(l) + 1)..(Len(l) + m)) = m
    <3>1. Len(l) + 1 \in Int /\ Len(l) + m \in Int
      BY <1>1
    <3>2. Cardinality((Len(l) + 1)..(Len(l) + m)) =
            IF Len(l) + 1 > Len(l) + m THEN 0 ELSE (Len(l) + m) - (Len(l) + 1) + 1
      BY <3>1, FS_Interval
    <3> QED
      BY <1>1, <3>2
  <2> QED
    BY <2>3, <2>4 DEF BytesOf
<1>5. ASSUME NEW v \in Nat, v # u PROVE BytesOf(g, v) = BytesOf(l, v)
  <2>1. ASSUME NEW b \in DOMAIN g, g[b] = v PROVE b \in DOMAIN l /\ l[b] = v
    <3>1. b \notin (Len(l) + 1)..(Len(l) + m) /\ b \in 1..(Len(l) + m)
      BY <1>1, <1>2, <1>5, <2>1
    <3>2. b \in 1..Len(l)
      BY <1>1, <3>1
    <3> QED
      BY <1>1, <1>2, <2>1, <3>2
  <2>2. ASSUME NEW b \in DOMAIN l, l[b] = v PROVE b \in DOMAIN g /\ g[b] = v
    BY <1>1, <1>2, <2>2
  <2>3. {b \in DOMAIN g : g[b] = v} = {b \in DOMAIN l : l[b] = v}
    BY <2>1, <2>2
  <2> QED
    BY <2>3 DEF BytesOf
<1> QED
  BY <1>3, <1>4, <1>5 DEF g

(* The four ways out of the evaluator append one event, and accept exactly *)
(* the bytes it promises.                                                  *)
LEMMA AdmitOwes ==
    ASSUME StreamInv, NEW w \in Writers, NEW n \in WriteSizes, Admit(w, n)
    PROVE  \E event \in Events :
              /\ trace' = Append(trace, event) /\ Owed(event) \in Nat
              /\ \/ log' = log /\ Owed(event) = 0
                 \/ log' = Extend(log, NextUnit, Owed(event))
<1>0. n \in Nat /\ 2 * n \in Nat
  BY SizeAssumption
<1>1. ASSUME NEW fate \in {"partitioned", "dropped", "delivered"},
             NEW m \in Nat, NEW d \in BOOLEAN
      PROVE  /\ Event(fate, m, d) \in Events
             /\ Owed(Event(fate, m, d)) =
                  IF fate # "delivered" THEN 0 ELSE IF d THEN 2 * m ELSE m
  BY DEF Event, Events, Owed
<1>2. CASE DeliverPartitioned(n)
  <2>1. trace' = Append(trace, Event("partitioned", 0, FALSE)) /\ log' = log
    BY <1>2 DEF DeliverPartitioned
  <2>2. /\ Event("partitioned", 0, FALSE) \in Events
        /\ Owed(Event("partitioned", 0, FALSE)) = 0
    BY <1>1
  <2>3. PICK event \in Events : /\ event = Event("partitioned", 0, FALSE)
                                /\ Owed(event) = 0
    BY <2>2
  <2>4. trace' = Append(trace, event) /\ log' = log /\ Owed(event) = 0
    BY <2>1, <2>3, Zenon
  <2> HIDE <2>1, <2>2, <2>3
  <2>5. Owed(event) \in Nat
    BY <2>4
  <2> WITNESS event \in Events
  <2> QED
    BY <2>4, <2>5, Zenon
<1>3. CASE DeliverDropped(n)
  <2>1. PICK d \in BOOLEAN : trace' = Append(trace, Event("dropped", n, d))
    BY <1>3 DEF DeliverDropped, Draws
  <2>2. log' = log
    BY <1>3 DEF DeliverDropped
  <2>3. Event("dropped", n, d) \in Events /\ Owed(Event("dropped", n, d)) = 0
    BY <1>0, <1>1
  <2> QED
    BY <2>1, <2>2, <2>3
<1>4. CASE DeliverNow(n) \/ DeliverLater(n)
  <2>1. PICK d \in BOOLEAN : /\ trace' = Append(trace, Event("delivered", n, d))
                             /\ log' = IF d THEN Extend(log, NextUnit, 2 * n)
                                            ELSE Extend(log, NextUnit, n)
    BY <1>4 DEF DeliverNow, DeliverLater, Draws
  <2>2. /\ Event("delivered", n, d) \in Events
        /\ Owed(Event("delivered", n, d)) = IF d THEN 2 * n ELSE n
    BY <1>0, <1>1
  <2>3. log' = Extend(log, NextUnit, Owed(Event("delivered", n, d)))
    BY <2>1, <2>2
  <2> QED
    BY <1>0, <2>1, <2>2, <2>3
<1> QED
  BY <1>2, <1>3, <1>4 DEF Admit

(* An admitted write keeps the trace and the stream in step: its unit is   *)
(* new, so the counts of the older ones stay.                              *)
LEMMA AdmitTrace ==
    ASSUME StreamInv, TraceMatchesLog,
           NEW w \in Writers, NEW n \in WriteSizes, Admit(w, n)
    PROVE  TraceMatchesLog'
<1>1. /\ trace \in Seq(Events) /\ log \in Seq(Nat \ {0})
      /\ Len(trace) \in Nat /\ Len(log) \in Nat
      /\ NextUnit = Len(trace) + 1 /\ NextUnit \in Nat \ {0}
  BY DEF StreamInv, TypeOK, NextUnit
<1>2. PICK event \in Events :
        /\ trace' = Append(trace, event) /\ Owed(event) \in Nat
        /\ \/ log' = log /\ Owed(event) = 0
           \/ log' = Extend(log, NextUnit, Owed(event))
  BY AdmitOwes
<1>3. PICK u \in Nat \ {0} : u = NextUnit
  BY <1>1
<1>4. /\ Len(trace') = u /\ trace'[u] = event
      /\ \A v \in 1..Len(trace) : trace'[v] = trace[v]
  BY <1>1, <1>2, <1>3
<1>5. \A b \in DOMAIN log : log[b] \in 1..Len(trace) /\ log[b] # u
  BY <1>1, <1>3 DEF TraceMatchesLog
<1>6. /\ BytesOf(log', u) = Owed(event)
      /\ \A v \in Nat : v # u => BytesOf(log', v) = BytesOf(log, v)
  <2>1. CASE log' = log /\ Owed(event) = 0
    BY <1>1, <1>5, <2>1, Counted
  <2>2. CASE log' = Extend(log, u, Owed(event))
    BY <1>1, <1>2, <1>5, <2>2, Counted
  <2> QED
    BY <1>2, <1>3, <2>1, <2>2
<1>7. ASSUME NEW b \in DOMAIN log' PROVE log'[b] \in 1..u
  <2>1. CASE log' = log
    BY <1>1, <1>3, <1>5, <2>1
  <2>2. CASE log' = Extend(log, u, Owed(event))
    <3> DEFINE g == Extend(log, u, Owed(event))
    <3>0. /\ g \in Seq(Nat \ {0}) /\ Len(g) = Len(log) + Owed(event)
          /\ \A c \in 1..Len(log) : g[c] = log[c]
          /\ \A c \in (Len(log) + 1)..(Len(log) + Owed(event)) : g[c] = u
      <4>1. PICK l \in Seq(Nat \ {0}), m \in Nat : l = log /\ m = Owed(event)
        BY <1>1, <1>2
      <4>2. /\ Extend(l, u, m) \in Seq(Nat \ {0})
            /\ Len(Extend(l, u, m)) = Len(l) + m
            /\ \A c \in 1..Len(l) : Extend(l, u, m)[c] = l[c]
            /\ \A c \in (Len(l) + 1)..(Len(l) + m) : Extend(l, u, m)[c] = u
        BY ExtendGrows, Zenon
      <4> QED
        BY <4>1, <4>2, Zenon
    <3> HIDE DEF g
    <3>1. /\ log' \in Seq(Nat \ {0}) /\ Len(log') = Len(log) + Owed(event)
          /\ \A c \in 1..Len(log) : log'[c] = log[c]
          /\ \A c \in (Len(log) + 1)..(Len(log) + Owed(event)) : log'[c] = u
      BY <2>2, <3>0 DEF g
    <3>2. CASE b \in 1..Len(log)
      <4>1. b \in DOMAIN log /\ log'[b] = log[b]
        BY <1>1, <3>1, <3>2
      <4>2. log[b] \in 1..Len(trace)
        BY <1>5, <4>1
      <4> QED
        BY <1>1, <1>3, <4>1, <4>2
    <3>3. CASE b \in (Len(log) + 1)..(Len(log) + Owed(event))
      BY <3>1, <3>3
    <3>4. b \in 1..(Len(log) + Owed(event))
      BY <1>7, <3>1
    <3> QED
      BY <1>1, <1>2, <3>2, <3>3, <3>4
  <2> QED
    BY <1>2, <1>3, <2>1, <2>2
<1>8. ASSUME NEW v \in 1..u PROVE BytesOf(log', v) = Owed(trace'[v])
  <2>1. CASE v = u
    BY <1>4, <1>6, <2>1
  <2>2. CASE v # u
    <3>1. v \in 1..Len(trace) /\ v \in Nat
      BY <1>1, <1>3, <2>2
    <3>2. BytesOf(log, v) = Owed(trace[v])
      BY <3>1 DEF TraceMatchesLog
    <3> QED
      BY <1>4, <1>6, <2>2, <3>1, <3>2
  <2> QED
    BY <2>1, <2>2
<1> QED
  BY <1>4, <1>7, <1>8 DEF TraceMatchesLog, BytesOf

(* No other step accepts a byte or records an event.                       *)
LEMMA TraceStep ==
    ASSUME StreamInv, TraceMatchesLog, [Next]_vars
    PROVE  TraceMatchesLog'
<1>1. CASE \E w \in Writers, n \in WriteSizes : Admit(w, n)
  BY <1>1, AdmitTrace
<1>2. ASSUME log' = log, trace' = trace PROVE TraceMatchesLog'
  BY <1>2 DEF TraceMatchesLog, BytesOf
<1>3. CASE \E r \in Readers, n \in Nat :
             ReadAborted(r) \/ ReadData(r, n) \/ ReadEmpty(r, n)
  BY <1>2, <1>3 DEF ReadAborted, ReadData, ReadEmpty, hist
<1>4. CASE \/ \E w \in Writers, n \in WriteSizes : WriteBlocks(w, n) \/ WriteRefused(w)
           \/ TimerFires \/ ReleaseDueLatency \/ Tick \/ Close \/ Abort
           \/ SetLatency \/ SetPacketLoss \/ SetDuplication
           \/ \E p \in BOOLEAN : PartitionChange(p)
           \/ UNCHANGED vars
  BY <1>2, <1>4 DEF WriteBlocks, WriteRefused, TimerFires, ReleaseDueLatency,
     Tick, Close, Abort, SetLatency, SetPacketLoss, SetDuplication,
     PartitionChange, vars, hist
<1>5. TypeOK
  BY DEF StreamInv
<1> QED
  BY <1>1, <1>3, <1>4, <1>5, Steps

(* Nothing is pending, parked or reported at the start.                    *)
LEMMA InitPipe == Init => PipeInv
<1> SUFFICES ASSUME Init PROVE PipeInv
  OBVIOUS
<1>1. StreamInv
  BY InitStream
<1>2. BoundRespected /\ AbortDiscards /\ EofIsFinal
  BY DEF Init, BoundRespected, AbortDiscards, EofIsFinal
<1>3. TimerCoversPending
  BY DEF Init, TimerCoversPending, Off
<1>4. NoLostWakeup
  BY CallTypes DEF Init, NoLostWakeup
<1>5. TraceMatchesLog
  BY DEF Init, TraceMatchesLog
<1> QED
  BY <1>1, <1>2, <1>3, <1>4, <1>5 DEF PipeInv

(* Every step keeps PipeInv; the conjuncts lean on one another and on the  *)
(* stream being intact after the step.                                     *)
LEMMA PipeStep == ASSUME PipeInv, [Next]_vars PROVE PipeInv'
<1>0. /\ StreamInv /\ BoundRespected /\ TimerCoversPending
      /\ NoLostWakeup /\ EofIsFinal /\ AbortDiscards /\ TraceMatchesLog
  BY DEF PipeInv
<1>1. StreamInv'
  BY <1>0, StreamStep
<1>2. BoundRespected' /\ AbortDiscards'
  BY <1>0, BoundStep, AbortDiscardsStep
<1>3. TimerCoversPending'
  BY <1>0, <1>1, TimerStep
<1>4. NoLostWakeup'
  BY <1>0, WakeupStep
<1>5. EofIsFinal'
  BY <1>0, <1>1, <1>4, EofStep
<1>6. TraceMatchesLog'
  BY <1>0, TraceStep
<1> QED
  BY <1>1, <1>2, <1>3, <1>4, <1>5, <1>6 DEF PipeInv

(* PipeInv holds in every reachable state, for any bound, sizes, latency   *)
(* ranges, rates and numbers of readers and writers.                       *)
THEOREM PipeSafe == Spec => []PipeInv
<1>1. PipeInv /\ [Next]_vars => PipeInv'
  BY PipeStep
<1> QED
  BY <1>1, InitPipe, PTL DEF Spec

(* However reads, writes, timers and setters interleave, what the readers  *)
(* were given is a prefix of what tryWrite accepted (tryRead,              *)
(* installFaultPolicy, releaseDueLatency).                                 *)
THEOREM ReadsInOrder == Spec => []InOrder
<1>1. PipeInv => InOrder
  BY DEF PipeInv, StreamInv
<1> QED
  BY <1>1, PipeSafe, PTL

(* p.bufBytes is always the number of bytes accepted and not yet read,     *)
(* until abort discards them.                                              *)
THEOREM AccountingExact == Spec => []ExactAccounting
<1>1. PipeInv => ExactAccounting
  BY DEF PipeInv, StreamInv
<1> QED
  BY <1>1, PipeSafe, PTL

(* tryWrite keeps p.bufBytes within the bound, one oversized write and one *)
(* unchecked duplicate aside.                                              *)
THEOREM BoundHolds == Spec => []BoundRespected
<1>1. PipeInv => BoundRespected
  BY DEF PipeInv
<1> QED
  BY <1>1, PipeSafe, PTL

(* A unit in p.pending always has a timer armed no later than its release, *)
(* or a callback on its way: armLatencyForAppendLocked and                 *)
(* releaseDueLatency between them never lose the timer and never run two.  *)
THEOREM NothingStranded == Spec => []TimerCoversPending
<1>1. PipeInv => TimerCoversPending
  BY DEF PipeInv
<1> QED
  BY <1>1, PipeSafe, PTL

(* A call parked by tryRead or tryWrite is one that would block again:     *)
(* every change it waits for is broadcast.                                 *)
THEOREM NoWakeupLost == Spec => []NoLostWakeup
<1>1. PipeInv => NoLostWakeup
  BY DEF PipeInv
<1> QED
  BY <1>1, PipeSafe, PTL

(* tryRead reports EOF only after everything accepted was read, and a      *)
(* later Partition takes it back from nobody.                              *)
THEOREM EndOfStreamIsFinal == Spec => []EofIsFinal
<1>1. PipeInv => EofIsFinal
  BY DEF PipeInv
<1> QED
  BY <1>1, PipeSafe, PTL

(* After abort nothing is queued, charged or timed, whatever callback was  *)
(* already on its way.                                                     *)
THEOREM AbortIsComplete == Spec => []AbortDiscards
<1>1. PipeInv => AbortDiscards
  BY DEF PipeInv
<1> QED
  BY <1>1, PipeSafe, PTL

(* What the fault trace reports is what happened: a reader that was told   *)
(* EOF holds nothing of a unit whose event says partitioned or dropped,    *)
(* and all of a delivered one, twice if it was duplicated                  *)
(* (installFaultPolicy against tryRead).                                   *)
THEOREM TraceIsTrue == Spec => []TraceMatchesStream
<1>1. PipeInv => TraceMatchesStream
  <2> SUFFICES ASSUME PipeInv, eofSeen, NEW u \in DOMAIN trace
               PROVE  BytesOf(got, u) = Owed(trace[u])
    BY DEF TraceMatchesStream
  <2>1. got = log /\ TraceMatchesLog /\ trace \in Seq(Events)
    BY DEF PipeInv, EofIsFinal, StreamInv, TypeOK
  <2>2. u \in 1..Len(trace)
    BY <2>1
  <2> QED
    BY <2>1, <2>2 DEF TraceMatchesLog
<1> QED
  BY <1>1, PipeSafe, PTL

-----------------------------------------------------------------------------
(* The function that satisfies the equation of the copy loop is the loop.  *)
LEMMA LoopIs ==
    ASSUME NEW s, Len(s) \in Nat, NEW n, NEW g,
           g = [i \in 0..Len(s) |-> IF i = 0 THEN [n |-> 0, rest |-> <<>>]
                                    ELSE CopyTurn(g[i - 1], s[i], n)]
    PROVE  CopyLoop(s, n) = g[Len(s)]
<1> DEFINE start == [n |-> 0, rest |-> <<>>]
           loop[i \in 0..Len(s)] == IF i = 0 THEN start
                                    ELSE CopyTurn(loop[i - 1], s[i], n)
<1> HIDE DEF start
<1>1. loop = [i \in 0..Len(s) |-> IF i = 0 THEN start
                                  ELSE CopyTurn(loop[i - 1], s[i], n)]
  BY Zenon DEF start
<1> HIDE DEF loop
<1> DEFINE wrong == {i \in 0..Len(s) : loop[i] # g[i]}
<1>2. wrong = {}
  <2> SUFFICES ASSUME wrong # {} PROVE FALSE
    OBVIOUS
  <2>1. wrong \subseteq Nat
    OBVIOUS
  <2>2. PICK x \in wrong : \A y \in wrong : x <= y
    BY <2>1, LeastIn
  <2>3. x \in 0..Len(s) /\ loop[x] # g[x]
    OBVIOUS
  <2>4. CASE x = 0
    BY <1>1, <2>3, <2>4 DEF start
  <2>5. CASE x # 0
    <3>1. x - 1 \in 0..Len(s) /\ ~(x <= x - 1)
      BY <2>3, <2>5
    <3>2. loop[x - 1] = g[x - 1]
      BY <2>2, <3>1
    <3>3. loop[x] = CopyTurn(loop[x - 1], s[x], n)
      BY <1>1, <2>3, <2>5
    <3>4. g[x] = CopyTurn(g[x - 1], s[x], n)
      BY <2>3, <2>5
    <3> QED
      BY <2>3, <3>2, <3>3, <3>4
  <2> QED
    BY <2>4, <2>5
<1>3. loop[Len(s)] = g[Len(s)]
  <2>1. Len(s) \in 0..Len(s)
    OBVIOUS
  <2> QED
    BY <1>2, <2>1
<1> QED
  BY <1>3 DEF CopyLoop, loop, start

(* A turn that copies a payload whole.                                     *)
LEMMA TurnWhole ==
    ASSUME NEW p \in Interval, NEW n \in Nat, NEW c \in Nat,
           c < n, p.hi - p.lo <= n - c
    PROVE  CopyTurn([n |-> c, rest |-> <<>>], p, n)
             = [n |-> c + (p.hi - p.lo), rest |-> <<>>]
BY DEF CopyTurn, Interval

(* A turn that copies what there is room for.                              *)
LEMMA TurnPart ==
    ASSUME NEW p \in Interval, NEW n \in Nat, NEW c \in Nat,
           c < n, p.hi - p.lo > n - c
    PROVE  CopyTurn([n |-> c, rest |-> <<>>], p, n)
             = [n |-> n, rest |-> <<[p EXCEPT !.lo = p.lo + (n - c)]>>]
<1>1. p.hi \in Nat /\ p.lo \in Nat
  BY DEF Interval
<1>2. ~(p.hi - p.lo <= n - c) /\ n - c # p.hi - p.lo /\ c + (n - c) = n /\ ~(c >= n)
  BY <1>1
<1> QED
  BY <1>1, <1>2 DEF CopyTurn

(* A turn that finds the buffer full.                                      *)
LEMMA TurnFull ==
    ASSUME NEW p, NEW n \in Nat, NEW q
    PROVE  CopyTurn([n |-> n, rest |-> q], p, n) = [n |-> n, rest |-> Append(q, p)]
BY DEF CopyTurn

(* The sequence of one element.                                            *)
LEMMA OneElement == ASSUME NEW x PROVE [j \in 1..1 |-> x] = <<x>>
OBVIOUS

(* Payloads without gap or overlap, and where a copy loop with room for n  *)
(* bytes stops among them.                                                 *)
Chained(s) == /\ \A i \in 1..Len(s) : s[1].lo <= s[i].lo /\ s[i].lo <= s[i].hi
              /\ \A i \in 1..(Len(s) - 1) : s[i].hi = s[i + 1].lo
CopiedWhole(s, i, n) == s[i].lo < s[1].lo + n /\ s[i].hi <= s[1].lo + n

(* What the copy loop computes over a chain of payloads of which it copies *)
(* the first k whole.                                                      *)
LEMMA CopyLoopChained ==
    ASSUME NEW s \in Seq(Interval), Len(s) > 0, Chained(s), NEW n \in Nat,
           NEW k \in 0..Len(s), \A i \in 1..k : CopiedWhole(s, i, n),
           k < Len(s) => ~CopiedWhole(s, k + 1, n)
    PROVE  CopyLoop(s, n) = [n    |-> IF k = Len(s) THEN s[k].hi - s[1].lo ELSE n,
                             rest |-> Leftover(s, k, n)]
<1> DEFINE cut     == [s[k + 1] EXCEPT !.lo = s[1].lo + n]
           upto(i) == IF i = 0 THEN 0 ELSE s[i].hi - s[1].lo
           left(i) == [j \in 1..(i - k) |-> IF j = 1 THEN cut ELSE s[k + j]]
           at(i)   == IF i <= k THEN [n |-> upto(i), rest |-> <<>>]
                                ELSE [n |-> n, rest |-> left(i)]
           g       == [i \in 0..Len(s) |-> at(i)]
<1>1. /\ Len(s) \in Nat /\ k \in Nat
      /\ \A i \in 1..Len(s) : s[i] \in Interval /\ s[i].lo \in Nat /\ s[i].hi \in Nat
  <2>1. \A i \in 1..Len(s) : s[i] \in Interval
    OBVIOUS
  <2> QED
    BY <2>1 DEF Interval
<1>2. ASSUME NEW i \in 0..Len(s), i < Len(s)
      PROVE  upto(i) \in Nat /\ upto(i) = s[i + 1].lo - s[1].lo
  <2>1. CASE i = 0
    BY <1>1, <2>1
  <2>2. CASE i # 0
    <3>1. i \in 1..Len(s) /\ i \in 1..(Len(s) - 1) /\ 1 \in 1..Len(s)
      BY <1>1, <1>2, <2>2
    <3>2. s[i].hi = s[i + 1].lo /\ s[1].lo <= s[i].lo /\ s[i].lo <= s[i].hi
      BY <3>1 DEF Chained
    <3> QED
      BY <1>1, <2>2, <3>1, <3>2
  <2> QED
    BY <2>1, <2>2
<1>3. ASSUME NEW i \in 1..k PROVE CopyTurn(at(i - 1), s[i], n) = at(i)
  <2>1. /\ i \in 1..Len(s) /\ i - 1 \in 0..Len(s) /\ i - 1 < Len(s) /\ i <= k
        /\ i - 1 <= k /\ (i - 1) + 1 = i /\ i # 0 /\ 1 \in 1..Len(s)
    BY <1>1
  <2>2. upto(i - 1) \in Nat /\ upto(i - 1) = s[i].lo - s[1].lo
    BY <1>2, <2>1
  <2>3. s[i].lo < s[1].lo + n /\ s[i].hi <= s[1].lo + n
    BY DEF CopiedWhole
  <2>4. upto(i) = s[i].hi - s[1].lo
    BY <2>1
  <2> HIDE DEF upto
  <2>5. /\ s[i].hi - s[i].lo <= n - upto(i - 1) /\ upto(i - 1) < n
        /\ upto(i - 1) + (s[i].hi - s[i].lo) = upto(i)
    <3>1. PICK c \in Nat, lo \in Nat, hi \in Nat, base \in Nat :
            c = upto(i - 1) /\ lo = s[i].lo /\ hi = s[i].hi /\ base = s[1].lo
      BY <1>1, <2>1, <2>2
    <3>2. c = lo - base /\ lo < base + n /\ hi <= base + n
      BY <2>2, <2>3, <3>1
    <3>3. hi - lo <= n - c /\ c < n /\ c + (hi - lo) = hi - base
      BY <3>2
    <3> QED
      BY <2>4, <3>1, <3>3
  <2>6. CopyTurn([n |-> upto(i - 1), rest |-> <<>>], s[i], n)
          = [n |-> upto(i - 1) + (s[i].hi - s[i].lo), rest |-> <<>>]
    BY <1>1, <2>1, <2>2, <2>5, TurnWhole
  <2> QED
    BY <2>1, <2>5, <2>6
<1>4. ASSUME k < Len(s) PROVE CopyTurn(at(k), s[k + 1], n) = at(k + 1)
  <2>1. k + 1 \in 1..Len(s) /\ k \in 0..Len(s) /\ 1 \in 1..Len(s)
    BY <1>1, <1>4
  <2>2. upto(k) \in Nat /\ upto(k) = s[k + 1].lo - s[1].lo
    BY <1>2, <1>4, <2>1
  <2>3. s[k + 1].lo >= s[1].lo + n \/ s[k + 1].hi > s[1].lo + n
    BY <1>1, <1>4, <2>1 DEF CopiedWhole
  <2>4. upto(k) <= n
    <3>1. CASE k = 0
      BY <3>1
    <3>2. CASE k # 0
      <4>1. s[k].hi <= s[1].lo + n /\ k \in 1..Len(s)
        BY <1>1, <3>2 DEF CopiedWhole
      <4> QED
        BY <1>1, <2>1, <3>2, <4>1
    <3> QED
      BY <3>1, <3>2
  <2>5. left(k + 1) = <<cut>>
    <3>1. (k + 1) - k = 1
      BY <1>1
    <3>2. left(k + 1) = [j \in 1..1 |-> IF j = 1 THEN cut ELSE s[k + j]]
      BY <3>1
    <3> HIDE DEF cut
    <3>3. [j \in 1..1 |-> IF j = 1 THEN cut ELSE s[k + j]] = [j \in 1..1 |-> cut]
      OBVIOUS
    <3> QED
      BY <3>2, <3>3, OneElement
  <2>6. ~(k + 1 <= k) /\ k <= k
    BY <1>1
  <2>7. at(k) = [n |-> upto(k), rest |-> <<>>] /\ at(k + 1) = [n |-> n, rest |-> <<cut>>]
    BY <2>5, <2>6
  <2> HIDE DEF upto, left, at
  <2>8. CASE upto(k) < n
    <3>1. /\ s[k + 1].hi - s[k + 1].lo > n - upto(k)
          /\ s[k + 1].lo + (n - upto(k)) = s[1].lo + n
      BY <1>1, <2>1, <2>2, <2>3, <2>8
    <3>2. CopyTurn([n |-> upto(k), rest |-> <<>>], s[k + 1], n)
            = [n |-> n, rest |-> <<[s[k + 1] EXCEPT !.lo = s[k + 1].lo + (n - upto(k))]>>]
      BY <1>1, <2>1, <2>2, <2>8, <3>1, TurnPart
    <3> QED
      BY <2>7, <3>1, <3>2
  <2>9. CASE upto(k) = n
    <3>1. CopyTurn([n |-> n, rest |-> <<>>], s[k + 1], n)
            = [n |-> n, rest |-> Append(<<>>, s[k + 1])]
      BY TurnFull
    <3>2. s[k + 1].lo = s[1].lo + n /\ s[k + 1] \in Interval
      BY <1>1, <2>1, <2>2, <2>9
    <3>3. cut = s[k + 1]
      BY <3>2 DEF Interval
    <3>4. Append(<<>>, s[k + 1]) = <<s[k + 1]>>
      OBVIOUS
    <3> QED
      BY <2>7, <2>9, <3>1, <3>3, <3>4
  <2> QED
    BY <2>2, <2>4, <2>8, <2>9
<1>5. ASSUME NEW i \in (k + 2)..Len(s) PROVE CopyTurn(at(i - 1), s[i], n) = at(i)
  <2>1. i \in 1..Len(s) /\ ~(i <= k) /\ ~(i - 1 <= k)
    BY <1>1
  <2>2. CopyTurn([n |-> n, rest |-> left(i - 1)], s[i], n)
          = [n |-> n, rest |-> Append(left(i - 1), s[i])]
    BY TurnFull
  <2>3. Append(left(i - 1), s[i]) = left(i)
    <3>1. PICK m \in Nat : m = (i - 1) - k /\ m # 0 /\ i - k = m + 1 /\ k + (m + 1) = i
      BY <1>1
    <3>2. cut \in Interval
      <4>1. k + 1 \in 1..Len(s) /\ 1 \in 1..Len(s)
        BY <1>1, <2>1
      <4>2. s[k + 1] \in Interval /\ s[1].lo + n \in Nat
        BY <1>1, <4>1
      <4> QED
        BY <4>2 DEF Interval
    <3>3. ASSUME NEW j \in 1..(m + 1) PROVE (IF j = 1 THEN cut ELSE s[k + j]) \in Interval
      BY <1>1, <3>1, <3>2, <3>3
    <3> HIDE DEF cut
    <3>4. left(i - 1) = [j \in 1..m |-> IF j = 1 THEN cut ELSE s[k + j]]
      BY <3>1
    <3>5. left(i) = [j \in 1..(m + 1) |-> IF j = 1 THEN cut ELSE s[k + j]]
      BY <3>1
    <3> HIDE DEF left
    <3>6. left(i - 1) \in Seq(Interval) /\ Len(left(i - 1)) = m
      <4>1. \A j \in 1..m : j \in 1..(m + 1)
        OBVIOUS
      <4>2. left(i - 1) \in [1..m -> Interval]
        BY <3>3, <3>4, <4>1
      <4> QED
        BY <4>2, FunctionIsSeq
    <3>7. left(i) \in Seq(Interval) /\ Len(left(i)) = m + 1
      BY <3>3, <3>5, FunctionIsSeq
    <3>8. /\ Append(left(i - 1), s[i]) \in Seq(Interval)
          /\ Len(Append(left(i - 1), s[i])) = m + 1
          /\ \A j \in 1..m : Append(left(i - 1), s[i])[j] = left(i - 1)[j]
          /\ Append(left(i - 1), s[i])[m + 1] = s[i]
      BY <1>1, <2>1, <3>6
    <3>9. ASSUME NEW j \in 1..(m + 1) PROVE Append(left(i - 1), s[i])[j] = left(i)[j]
      <4>1. CASE j \in 1..m
        BY <3>4, <3>5, <3>8, <4>1
      <4>2. CASE j = m + 1
        <5>1. left(i)[m + 1] = s[i]
          BY <3>1, <3>5
        <5> QED
          BY <3>8, <4>2, <5>1
      <4>3. j \in 1..m \/ j = m + 1
        BY <3>1, <3>9
      <4> QED
        BY <4>1, <4>2, <4>3
    <3> QED
      BY <3>7, <3>8, <3>9
  <2> QED
    BY <2>1, <2>2, <2>3
<1>6. ASSUME NEW i \in 1..Len(s) PROVE CopyTurn(at(i - 1), s[i], n) = at(i)
  <2>1. CASE i <= k
    BY <1>1, <1>3, <2>1
  <2>2. CASE i = k + 1
    <3>1. k < Len(s) /\ i - 1 = k
      BY <1>1, <2>2
    <3> QED
      BY <1>4, <2>2, <3>1
  <2>3. CASE i > k + 1
    <3>1. i \in (k + 2)..Len(s)
      BY <1>1, <2>3
    <3> QED
      BY <1>5, <3>1
  <2> QED
    BY <1>1, <2>1, <2>2, <2>3
<1>7. at(0) = [n |-> 0, rest |-> <<>>]
  BY <1>1
<1>8. at(Len(s)) = [n    |-> IF k = Len(s) THEN s[k].hi - s[1].lo ELSE n,
                    rest |-> Leftover(s, k, n)]
  <2>1. CASE k = Len(s)
    <3>1. Leftover(s, k, n) = <<>>
      BY <1>1, <2>1 DEF Leftover
    <3> QED
      BY <1>1, <2>1, <3>1
  <2>2. CASE k # Len(s)
    <3>1. Leftover(s, k, n) = left(Len(s))
      BY DEF Leftover
    <3>2. ~(Len(s) <= k)
      BY <1>1, <2>2
    <3> QED
      BY <2>2, <3>1, <3>2
  <2> QED
    BY <2>1, <2>2
<1> HIDE DEF at
<1>9. g = [i \in 0..Len(s) |-> IF i = 0 THEN [n |-> 0, rest |-> <<>>]
                               ELSE CopyTurn(g[i - 1], s[i], n)]
  <2>1. ASSUME NEW i \in 0..Len(s)
        PROVE  at(i) = IF i = 0 THEN at(0) ELSE CopyTurn(g[i - 1], s[i], n)
    <3>1. CASE i = 0
      BY <3>1
    <3>2. CASE i # 0
      <4>1. i \in 1..Len(s) /\ i - 1 \in 0..Len(s)
        BY <1>1, <3>2
      <4>2. g[i - 1] = at(i - 1)
        BY <4>1
      <4> QED
        BY <1>6, <3>2, <4>1, <4>2
    <3> QED
      BY <3>1, <3>2
  <2> QED
    BY <1>7, <2>1, Zenon
<1>10. g[Len(s)] = at(Len(s))
  BY <1>1
<1> HIDE DEF g
<1> QED
  BY <1>1, <1>8, <1>9, <1>10, LoopIs

(* Wherever the payloads lie, the copy loop stops somewhere.               *)
LEMMA SomeStop ==
    ASSUME NEW n, Len(readable) \in Nat
    PROVE  \E k \in 0..Len(readable) : StopsAt(k, n)
<1> DEFINE open == {i \in 1..Len(readable) : ~Drained(i, n)}
<1>1. CASE open = {}
  <2>1. Len(readable) \in 0..Len(readable) /\ StopsAt(Len(readable), n)
    BY <1>1 DEF StopsAt
  <2> QED
    BY <2>1
<1>2. CASE open # {}
  <2>0. open \subseteq Nat
    OBVIOUS
  <2>1. PICK x \in open : \A y \in open : x <= y
    BY <1>2, <2>0, LeastIn
  <2>2. /\ x \in 1..Len(readable) /\ ~Drained(x, n)
        /\ x - 1 \in 0..Len(readable) /\ (x - 1) + 1 = x
    BY <2>1
  <2>3. ASSUME NEW i \in 1..(x - 1) PROVE Drained(i, n)
    <3>1. i \in 1..Len(readable) /\ ~(x <= i)
      BY <2>2
    <3> QED
      BY <2>1, <3>1
  <2>4. StopsAt(x - 1, n)
    BY <2>2, <2>3 DEF StopsAt
  <2> QED
    BY <2>2, <2>4
<1> QED
  BY <1>1, <1>2

(* The payloads of an intact stream are chained.                           *)
LEMMA TilesChained ==
    ASSUME NEW s \in Seq(Interval), NEW from, NEW to, NEW l,
           Tiles(s, from, to, l)
    PROVE  Chained(s)
<1>1. DOMAIN s = 1..Len(s) /\ Len(s) \in Nat
  OBVIOUS
<1>2. ASSUME NEW i \in 1..Len(s) PROVE s[1].lo <= s[i].lo /\ s[i].lo <= s[i].hi
  <2>1. s[1].lo = from
    BY <1>1, <1>2 DEF Tiles
  <2> QED
    BY <1>1, <2>1 DEF Tiles
<1>3. \A i \in 1..(Len(s) - 1) : s[i].hi = s[i + 1].lo
  BY DEF Tiles
<1> QED
  BY <1>2, <1>3 DEF Chained

(* tryRead, modelled by positions, hands over and leaves queued exactly    *)
(* what its copy loop does payload by payload, and it never finds data     *)
(* without a place to stop: for every buffer size and every queue the      *)
(* pipe can hold.                                                          *)
THEOREM ReadsAreCopyLoops == Spec => []ReadIsCopyLoop
<1>1. PipeInv => ReadIsCopyLoop
  <2> SUFFICES ASSUME PipeInv, readable # <<>>, NEW n \in ReadSizes
               PROVE  /\ \E k \in 0..Len(readable) : StopsAt(k, n)
                      /\ \A k \in 0..Len(readable) : StopsAt(k, n) =>
                           CopyLoop(readable, n) =
                             [n |-> Copied(k, n), rest |-> Leftover(readable, k, n)]
    BY DEF ReadIsCopyLoop
  <2>1. /\ readable \in Seq(Interval) /\ Len(readable) \in Nat /\ n \in Nat
        /\ Tiles(readable, Len(got), Avail, log)
    BY SizeAssumption
    DEF PipeInv, AbortDiscards, StreamInv, TypeOK, QueueTilesStream
  <2>2. Len(readable) > 0
    BY <2>1, EmptyIffLenZero
  <2>3. Chained(readable)
    BY <2>1, TilesChained
  <2>4. ASSUME NEW k \in 0..Len(readable), StopsAt(k, n)
        PROVE  CopyLoop(readable, n) =
                 [n |-> Copied(k, n), rest |-> Leftover(readable, k, n)]
    <3>1. /\ \A i \in 1..k : CopiedWhole(readable, i, n)
          /\ k < Len(readable) => ~CopiedWhole(readable, k + 1, n)
      BY <2>4 DEF StopsAt, Drained, ReadLimit, CopiedWhole
    <3>2. CopyLoop(readable, n) =
            [n    |-> IF k = Len(readable) THEN readable[k].hi - readable[1].lo ELSE n,
             rest |-> Leftover(readable, k, n)]
      BY <2>1, <2>2, <2>3, <3>1, CopyLoopChained
    <3> QED
      BY <3>2 DEF Copied
  <2> QED
    BY <2>1, <2>4, SomeStop
<1> QED
  BY <1>1, PipeSafe, PTL
=============================================================================
