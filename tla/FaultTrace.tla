----------------------------- MODULE FaultTrace -----------------------------
(***************************************************************************)
(* Network.Trace, while connections are dialed, written to and closed      *)
(* (trace.go, and the end of DialContext in netchaos.go).  A direction of  *)
(* a connection has a recorder, which its writes append to, and a handle   *)
(* in n.traces once registered.  A call of Trace holds traceMu throughout, *)
(* but reads one recorder after the other, and they go on growing.         *)
(***************************************************************************)
EXTENDS Integers, Sequences, FiniteSets, SequencesExt, FiniteSetsExt

CONSTANTS
    Dialers,     \* goroutines that dial
    MaxOrdinals, \* bound: connection ordinals handed out
    MaxEvents,   \* bound: units written, in all directions together
    MaxTraces    \* bound: calls of Trace

ASSUME TraceCaps == MaxOrdinals \in Nat /\ MaxEvents \in Nat /\ MaxTraces \in Nat

VARIABLES
    traceEnabled, \* n.traceEnabled: WithTrace
    nextOrdinal,  \* n.nextOrdinal
    traces,       \* n.traces: handles, in the order of registration
    events,       \* the recorder of each direction: sequence numbers
    ends,         \* the ends that somebody holds and may write to
    dials,        \* the dial each dialer is in
    reader,       \* the call of Trace under way
    returned,     \* what the last call returned
    calls         \* calls of Trace so far

traceVars == <<traceEnabled, nextOrdinal, traces, events, ends, dials, reader,
               returned, calls>>

-----------------------------------------------------------------------------
Sides      == {0, 1}      \* sideDialer, sideAcceptor
Directions == (0..(MaxOrdinals - 1)) \X Sides

NoDial == [at |-> "idle", ordinal |-> 0]

(* owed: history, how many events each direction had when Trace was called.*)
NewRead(at, owed) == [at |-> at, left |-> <<>>, out |-> <<>>, owed |-> owed]

NoRead == NewRead("idle", [d \in Directions |-> 0])

TraceInit ==
    /\ traceEnabled \in BOOLEAN
    /\ nextOrdinal = 0 /\ traces = <<>>
    /\ events = [d \in Directions |-> <<>>]
    /\ ends = {}
    /\ dials = [g \in Dialers |-> NoDial]
    /\ reader = NoRead /\ returned = <<>> /\ calls = 0

(* traceMu is free.                                                        *)
Unlocked == reader.at # "reading"

(* Seeded fault: both ends are handed over before they are registered.     *)
ThenLate == [idle |-> "fill", fill |-> IF traceEnabled THEN "dialer" ELSE "idle",
             dialer |-> "acceptor", acceptor |-> "idle"]

(* What a dial does next: registers its two directions, then fills.        *)
Then == [idle |-> IF traceEnabled THEN "dialer" ELSE "fill",
         dialer |-> "acceptor", acceptor |-> "fill", fill |-> "idle"]

GoOn(g) == dials' = [dials EXCEPT ![g].at = Then[@]]

TakeOrdinal(g) ==
    /\ dials[g].at = "idle" /\ nextOrdinal < MaxOrdinals
    /\ nextOrdinal' = nextOrdinal + 1
    /\ dials' = [dials EXCEPT ![g] = [at |-> Then["idle"], ordinal |-> nextOrdinal]]
    /\ UNCHANGED <<traceEnabled, traces, events, ends, reader, returned, calls>>

(* registerTrace, twice.                                                   *)
Register(ordinal, side) == traces' = Append(traces, <<ordinal, side>>)

RegisterDialer(g) ==
    /\ dials[g].at = "dialer" /\ Unlocked
    /\ Register(dials[g].ordinal, 0)
    /\ GoOn(g)
    /\ UNCHANGED <<traceEnabled, nextOrdinal, events, ends, reader, returned, calls>>

RegisterAcceptor(g) ==
    /\ dials[g].at = "acceptor" /\ Unlocked
    /\ Register(dials[g].ordinal, 1)
    /\ GoOn(g)
    /\ UNCHANGED <<traceEnabled, nextOrdinal, events, ends, reader, returned, calls>>

(* fill, and the return of DialContext: both ends are in somebody's hands. *)
Fill(g) ==
    /\ dials[g].at = "fill"
    /\ ends' = ends \cup {<<dials[g].ordinal, s>> : s \in Sides}
    /\ GoOn(g)
    /\ UNCHANGED <<traceEnabled, nextOrdinal, traces, events, reader, returned, calls>>

-----------------------------------------------------------------------------
(* A unit is evaluated, and recorded if there is a recorder.               *)
Number(d) == Len(events[d])

Written == FoldSet(LAMBDA d, n : n + Len(events[d]), 0, Directions)

Record(d) ==
    /\ d \in ends
    /\ traceEnabled /\ Written < MaxEvents
    /\ events' = [events EXCEPT ![d] = Append(@, Number(d))]
    /\ UNCHANGED <<traceEnabled, nextOrdinal, traces, ends, dials, reader, returned, calls>>

(* Seeded fault: Close takes the end off the registry, as it does from the *)
(* one that Reset uses.                                                    *)
CloseForgets(d) ==
    /\ d \in ends /\ Unlocked
    /\ ends' = ends \ {d}
    /\ traces' = SelectSeq(traces, LAMBDA h : h # d)
    /\ UNCHANGED <<traceEnabled, nextOrdinal, events, dials, reader, returned, calls>>

(* conn.Close: the end is written to no more, its handle stays.            *)
CloseEnd(d) ==
    /\ d \in ends
    /\ ends' = ends \ {d}
    /\ UNCHANGED <<traceEnabled, nextOrdinal, traces, events, dials, reader, returned,
                   calls>>

-----------------------------------------------------------------------------
(* Network.Trace: the call, the section under traceMu, a snapshot of each  *)
(* recorder under its own lock, and the return.                            *)
Before(h, k) == h[1] < k[1] \/ (h[1] = k[1] /\ h[2] < k[2])

(* Seeded fault: the order of registration is taken for the order of       *)
(* dialing.                                                                *)
AsRegistered(handles) == {handles}

(* slices.SortStableFunc: the handles permuted until none is before its    *)
(* predecessor, equal ones still in their order.                           *)
Sorted(handles) ==
    LET I == DOMAIN handles
    IN  {[i \in I |-> handles[p[i]]] :
            p \in {q \in Bijection(I, I) : \A i, j \in I : i < j =>
                      \/ Before(handles[q[i]], handles[q[j]])
                      \/ q[i] < q[j] /\ ~Before(handles[q[j]], handles[q[i]])}}

CallTrace ==
    /\ reader.at = "idle" /\ calls < MaxTraces
    /\ calls' = calls + 1
    /\ reader' = NewRead("called", [d \in Directions |-> Len(events[d])])
    /\ UNCHANGED <<traceEnabled, nextOrdinal, traces, events, ends, dials, returned>>

CloneAndSort ==
    /\ reader.at = "called"
    /\ \E left \in IF traceEnabled THEN Sorted(traces) ELSE {<<>>} :
          reader' = [reader EXCEPT !.at = "reading", !.left = left]
    /\ UNCHANGED <<traceEnabled, nextOrdinal, traces, events, ends, dials, returned,
                   calls>>

Snapshot ==
    /\ reader.at = "reading" /\ reader.left # <<>>
    /\ LET h == Head(reader.left)
       IN  reader' = [reader EXCEPT
              !.left = Tail(@),
              !.out = @ \o [i \in 1..Len(events[h]) |-> <<h[1], h[2], events[h][i]>>]]
    /\ UNCHANGED <<traceEnabled, nextOrdinal, traces, events, ends, dials, returned,
                   calls>>

ReturnTrace ==
    /\ reader.at = "reading" /\ reader.left = <<>>
    /\ returned' = reader.out
    /\ reader' = NoRead
    /\ UNCHANGED <<traceEnabled, nextOrdinal, traces, events, ends, dials, calls>>

TraceNext ==
    \/ \E g \in Dialers : TakeOrdinal(g) \/ RegisterDialer(g) \/ RegisterAcceptor(g)
                          \/ Fill(g)
    \/ \E d \in Directions : Record(d) \/ CloseEnd(d)
    \/ CallTrace \/ CloneAndSort \/ Snapshot \/ ReturnTrace

TraceSpec == TraceInit /\ [][TraceNext]_traceVars

-----------------------------------------------------------------------------
(* The result is in the order of (Ordinal, Side, Seq), with the events of  *)
(* a direction from 0 on and none left out, whichever dial registered      *)
(* first.                                                                  *)
Follows(e, f) ==
    \/ f[1] = e[1] /\ f[2] = e[2] /\ f[3] = e[3] + 1
    \/ Before(<<e[1], e[2]>>, <<f[1], f[2]>>) /\ f[3] = 0

InTraceOrder ==
    LET out == reader.out
    IN  /\ out # <<>> => out[1][3] = 0
        /\ \A i \in 1..(Len(out) - 1) : Follows(out[i], out[i + 1])

(* Whatever was recorded before Trace was called is in what it returns: a  *)
(* direction is registered before anybody can write in it, and it stays.   *)
NothingMissing ==
    reader.at = "reading" /\ reader.left = <<>> =>
        \A d \in Directions : \A n \in 0..(reader.owed[d] - 1) :
            \E i \in 1..Len(reader.out) : reader.out[i] = <<d[1], d[2], n>>

(* A later result extends an earlier one: no event is ever taken back,     *)
(* least of all when the connection is closed.                             *)
TraceGrows == [][ToSet(returned) \subseteq ToSet(returned')]_traceVars
=============================================================================
