-------------------------- MODULE FaultTraceProofs --------------------------
(***************************************************************************)
(* Proofs about FaultTrace, for any number of dialers, connections, events *)
(* and calls of Trace.                                                     *)
(***************************************************************************)
EXTENDS FaultTrace, SequenceTheorems, TLAPS

-----------------------------------------------------------------------------
(* The inductive invariant.                                                *)

DialSteps == {"idle", "dialer", "acceptor", "fill"}
ReadSteps == {"idle", "called", "reading"}

(* An entry of the result: the event number n of direction d.              *)
Entry(d, n) == <<d[1], d[2], n>>
Entries     == (0..(MaxOrdinals - 1)) \X Sides \X Nat

TraceShapes ==
    /\ traceEnabled \in BOOLEAN /\ nextOrdinal \in Nat
    /\ traces \in Seq(Directions) /\ events \in [Directions -> Seq(Nat)]
    /\ ends \subseteq Directions
    /\ dials \in [Dialers -> [at : DialSteps, ordinal : Nat]]
    /\ reader \in [at : ReadSteps, left : Seq(Directions), out : Seq(Entries),
                   owed : [Directions -> Nat]]
    /\ returned \in Seq(Entries)

Busy(g) == dials[g].at # "idle"

(* Every ordinal has one owner.                                            *)
OrdinalsOK ==
    /\ nextOrdinal <= MaxOrdinals
    /\ \A g \in Dialers : Busy(g) => dials[g].ordinal < nextOrdinal
    /\ \A g, h \in Dialers :
          g # h /\ Busy(g) /\ Busy(h) => dials[g].ordinal # dials[h].ordinal

Registered(d) == \E i \in 1..Len(traces) : traces[i] = d

(* Which handles a dial has registered, and that none is registered twice. *)
HandlesOK ==
    /\ \A i \in 1..Len(traces) : traces[i][1] < nextOrdinal
    /\ \A i, j \in 1..Len(traces) : i # j => traces[i] # traces[j]
    /\ \A g \in Dialers : LET o == dials[g].ordinal IN
          /\ dials[g].at = "dialer" => ~Registered(<<o, 0>>) /\ ~Registered(<<o, 1>>)
          /\ dials[g].at = "acceptor" => Registered(<<o, 0>>) /\ ~Registered(<<o, 1>>)
          /\ dials[g].at = "fill" /\ traceEnabled =>
                Registered(<<o, 0>>) /\ Registered(<<o, 1>>)

(* Whoever can write writes to a registered recorder.                      *)
EndsOK == traceEnabled => \A d \in ends : Registered(d)

RecordersOK ==
    \A d \in Directions :
        /\ Len(events[d]) > 0 => traceEnabled /\ Registered(d)
        /\ \A i \in 1..Len(events[d]) : events[d][i] = i - 1

(* What a call of Trace still has to read comes after what it has read,    *)
(* and the two hold everything it owes.                                    *)
ReaderOK ==
    /\ reader.at # "reading" => reader.left = <<>> /\ reader.out = <<>>
    /\ reader.at # "idle" => \A d \in Directions : reader.owed[d] <= Len(events[d])
    /\ \A i, j \in 1..Len(reader.left) : i < j => Before(reader.left[i], reader.left[j])
    /\ \A i \in 1..Len(reader.out), j \in 1..Len(reader.left) :
          Before(<<reader.out[i][1], reader.out[i][2]>>, reader.left[j])
    /\ reader.at = "reading" => \A d \in Directions : reader.owed[d] > 0 =>
          \/ \E j \in 1..Len(reader.left) : reader.left[j] = d
          \/ \A n \in 0..(reader.owed[d] - 1) :
                \E i \in 1..Len(reader.out) : reader.out[i] = Entry(d, n)

(* Nothing is invented, and what was returned is owed to the next call.    *)
ResultsOK ==
    /\ \A i \in 1..Len(reader.out) : \E d \in Directions : \E n \in Nat :
          reader.out[i] = Entry(d, n) /\ n < Len(events[d])
    /\ \A i \in 1..Len(returned) : \E d \in Directions : \E n \in Nat :
          /\ returned[i] = Entry(d, n) /\ n < Len(events[d])
          /\ reader.at # "idle" => n < reader.owed[d]

TraceInv == /\ TraceShapes
            /\ OrdinalsOK /\ HandlesOK /\ EndsOK /\ RecordersOK
            /\ ReaderOK /\ ResultsOK /\ InTraceOrder

-----------------------------------------------------------------------------
(* Directions, and their order.                                            *)

LEMMA DirectionFacts ==
    ASSUME NEW d \in Directions
    PROVE  /\ d[1] \in Nat /\ d[1] < MaxOrdinals /\ d[2] \in {0, 1}
           /\ d = <<d[1], d[2]>>
BY TraceCaps DEF Directions, Sides

LEMMA BeforeTotal ==
    ASSUME NEW d \in Directions, NEW e \in Directions, d # e
    PROVE  Before(d, e) \/ Before(e, d)
<1>1. d[1] # e[1] \/ d[2] # e[2]
  BY DirectionFacts
<1> QED
  BY <1>1, DirectionFacts DEF Before

(* An entry names its direction.                                           *)
LEMMA EntryFacts ==
    ASSUME NEW d \in Directions, NEW n \in Nat
    PROVE  /\ Entry(d, n) \in Entries
           /\ Entry(d, n)[1] = d[1] /\ Entry(d, n)[2] = d[2] /\ Entry(d, n)[3] = n
           /\ <<Entry(d, n)[1], Entry(d, n)[2]>> = d
<1>1. d[1] \in 0..(MaxOrdinals - 1) /\ d[2] \in Sides
  BY TraceCaps DEF Directions
<1> QED
  BY <1>1, DirectionFacts DEF Entry, Entries

(* The sort keeps every handle, and handles that differ end up in order.   *)
LEMMA SortedFacts ==
    ASSUME NEW handles \in Seq(Directions), NEW s \in Sorted(handles),
           \A i, j \in 1..Len(handles) : i # j => handles[i] # handles[j]
    PROVE  /\ s \in Seq(Directions) /\ Len(s) = Len(handles)
           /\ \A i, j \in 1..Len(s) : i < j => Before(s[i], s[j])
           /\ \A i \in 1..Len(handles) : \E j \in 1..Len(s) : s[j] = handles[i]
<1> DEFINE I == 1..Len(handles)
<1>1. DOMAIN handles = I /\ Len(handles) \in Nat
  BY LenProperties
<1>2. PICK q \in Bijection(I, I) :
        /\ s = [i \in I |-> handles[q[i]]]
        /\ \A i, j \in I : i < j =>
              \/ Before(handles[q[i]], handles[q[j]])
              \/ q[i] < q[j] /\ ~Before(handles[q[j]], handles[q[i]])
  BY <1>1 DEF Sorted
<1>3. /\ q \in [I -> I] /\ \A t \in I : \E i \in I : q[i] = t
      /\ \A i, j \in I : q[i] = q[j] => i = j
  BY DEF Bijection, Injection, Surjection, IsInjective
<1>4. \A i \in I : handles[i] \in Directions
  BY ElementOfSeq
<1>5. s \in [I -> Directions]
  BY <1>2, <1>3, <1>4
<1>6. s \in Seq(Directions) /\ Len(s) = Len(handles)
  BY <1>1, <1>5
<1>7. ASSUME NEW i \in I, NEW j \in I, i < j PROVE Before(s[i], s[j])
  <2>1. q[i] \in I /\ q[j] \in I /\ q[i] # q[j]
    <3>1. i # j
      BY <1>7
    <3> QED
      BY <1>3, <3>1
  <2>2. handles[q[i]] # handles[q[j]]
    BY <2>1
  <2>3. handles[q[i]] \in Directions /\ handles[q[j]] \in Directions
    BY <1>4, <2>1
  <2>4. Before(handles[q[i]], handles[q[j]]) \/ Before(handles[q[j]], handles[q[i]])
    BY <2>2, <2>3, BeforeTotal
  <2> QED
    BY <1>2, <1>7, <2>4
<1>8. ASSUME NEW i \in I PROVE \E j \in I : s[j] = handles[i]
  BY <1>2, <1>3
<1> QED
  BY <1>6, <1>7, <1>8

(* A handle is appended.                                                   *)
LEMMA RegisterFacts ==
    ASSUME traces \in Seq(Directions), NEW d \in Directions, traces' = Append(traces, d)
    PROVE  /\ traces' \in Seq(Directions) /\ Len(traces) \in Nat
           /\ Len(traces') = Len(traces) + 1 /\ traces'[Len(traces) + 1] = d
           /\ \A i \in 1..Len(traces) : traces'[i] = traces[i]
           /\ \A e : Registered(e)' <=> Registered(e) \/ e = d
<1>1. /\ traces' \in Seq(Directions) /\ Len(traces) \in Nat
      /\ Len(traces') = Len(traces) + 1 /\ traces'[Len(traces) + 1] = d
      /\ \A i \in 1..Len(traces) : traces'[i] = traces[i]
  BY AppendProperties, LenProperties
<1>2. ASSUME NEW e PROVE Registered(e)' <=> Registered(e) \/ e = d
  <2>1. ASSUME Registered(e)' PROVE Registered(e) \/ e = d
    BY <1>1, <2>1 DEF Registered
  <2>2. ASSUME Registered(e) PROVE Registered(e)'
    BY <1>1, <2>2 DEF Registered
  <2>3. ASSUME e = d PROVE Registered(e)'
    BY <1>1, <2>3 DEF Registered
  <2> QED
    BY <2>1, <2>2, <2>3
<1> QED
  BY <1>1, <1>2

-----------------------------------------------------------------------------
(* Frames.  RegInv is what dials and writers keep true, ReadInv what calls *)
(* of Trace do.                                                            *)
RegInv  == OrdinalsOK /\ HandlesOK /\ EndsOK
ReadInv == ReaderOK /\ ResultsOK /\ InTraceOrder

LEMMA RegFrame ==
    ASSUME RegInv, UNCHANGED <<traceEnabled, nextOrdinal, traces, ends, dials>>
    PROVE  RegInv'
<1>1. \A d : Registered(d)' <=> Registered(d)
  BY DEF Registered
<1>2. OrdinalsOK'
  BY DEF RegInv, OrdinalsOK, Busy
<1>3. HandlesOK'
  BY <1>1 DEF RegInv, HandlesOK
<1>4. EndsOK'
  BY <1>1 DEF RegInv, EndsOK
<1> QED
  BY <1>2, <1>3, <1>4 DEF RegInv

LEMMA RecordersFrame ==
    ASSUME RecordersOK, UNCHANGED <<traceEnabled, events>>,
           \A d \in Directions : Registered(d) => Registered(d)'
    PROVE  RecordersOK'
BY DEF RecordersOK

(* Recorders only grow: nothing that a call of Trace relies on changes.    *)
LEMMA ReadFrame ==
    ASSUME TraceShapes, TraceShapes', ReadInv, UNCHANGED <<reader, returned>>,
           \A d \in Directions : Len(events[d]) <= Len(events'[d])
    PROVE  ReadInv'
<1>1. \A d \in Directions : /\ Len(events[d]) \in Nat /\ Len(events'[d]) \in Nat
                            /\ reader.owed[d] \in Nat
  BY LenProperties DEF TraceShapes
<1>2. InTraceOrder'
  BY DEF ReadInv, InTraceOrder
<1>3. reader'.at # "idle" =>
          \A d \in Directions : reader'.owed[d] <= Len(events'[d])
  <2>1. SUFFICES ASSUME reader.at # "idle", NEW d \in Directions
                 PROVE  reader.owed[d] <= Len(events'[d])
    OBVIOUS
  <2>2. reader.owed[d] <= Len(events[d])
    BY <2>1 DEF ReadInv, ReaderOK
  <2> QED
    BY <1>1, <2>2
<1>4. ReaderOK'
  <2>1. reader' = reader
    OBVIOUS
  <2> QED
    BY <1>3, <2>1 DEF ReadInv, ReaderOK
<1>5. ResultsOK'
  <2>1. ASSUME NEW d \in Directions, NEW n \in Nat, n < Len(events[d])
        PROVE  n < Len(events'[d])
    BY <1>1, <2>1
  <2>2. reader' = reader /\ returned' = returned
    OBVIOUS
  <2>3. ASSUME NEW i \in 1..Len(reader.out)
        PROVE  \E d \in Directions : \E n \in Nat :
                  reader.out[i] = Entry(d, n) /\ n < Len(events'[d])
    <3>1. PICK d \in Directions, n \in Nat :
              reader.out[i] = Entry(d, n) /\ n < Len(events[d])
      BY DEF ReadInv, ResultsOK
    <3> QED
      BY <2>1, <3>1
  <2>4. ASSUME NEW i \in 1..Len(returned)
        PROVE  \E d \in Directions : \E n \in Nat :
                  /\ returned[i] = Entry(d, n) /\ n < Len(events'[d])
                  /\ reader.at # "idle" => n < reader.owed[d]
    <3>1. PICK d \in Directions, n \in Nat :
              /\ returned[i] = Entry(d, n) /\ n < Len(events[d])
              /\ reader.at # "idle" => n < reader.owed[d]
      BY DEF ReadInv, ResultsOK
    <3> QED
      BY <2>1, <3>1
  <2> QED
    BY <2>2, <2>3, <2>4 DEF ResultsOK
<1> QED
  BY <1>2, <1>4, <1>5 DEF ReadInv

(* A step that leaves recorders and readers alone.                         *)
LEMMA DialFrame ==
    ASSUME TraceInv, TraceShapes', RegInv', UNCHANGED <<traceEnabled, events, reader, returned>>,
           \A d \in Directions : Registered(d) => Registered(d)'
    PROVE  TraceInv'
<1>1. RecordersOK'
  BY RecordersFrame DEF TraceInv
<1>2. \A d \in Directions : Len(events[d]) <= Len(events'[d])
  <2>1. \A d \in Directions : Len(events[d]) \in Nat
    BY LenProperties DEF TraceInv, TraceShapes
  <2> QED
    BY <2>1
<1>3. ReadInv'
  BY <1>2, ReadFrame DEF TraceInv, ReadInv
<1> QED
  BY <1>1, <1>3 DEF TraceInv, RegInv, ReadInv

(* A step of a call of Trace.                                              *)
LEMMA CallFrame ==
    ASSUME TraceInv, TraceShapes', ReadInv',
           UNCHANGED <<traceEnabled, nextOrdinal, traces, events, ends, dials>>
    PROVE  TraceInv'
<1>1. RegInv'
  BY RegFrame DEF TraceInv, RegInv
<1>2. RecordersOK'
  BY RecordersFrame DEF TraceInv, Registered
<1> QED
  BY <1>1, <1>2 DEF TraceInv, RegInv, ReadInv

-----------------------------------------------------------------------------
LEMMA InvInit ==
    ASSUME TraceInit
    PROVE  TraceInv
<1>1. /\ reader.at = "idle" /\ reader.left = <<>> /\ reader.out = <<>>
      /\ reader.owed = [d \in Directions |-> 0]
  BY DEF TraceInit, NoRead, NewRead
<1>2. Len(<<>>) = 0
  OBVIOUS
<1>3. \A g \in Dialers : dials[g].at = "idle"
  BY DEF TraceInit, NoDial
<1>4. TraceShapes
  <2>1. NoDial \in [at : DialSteps, ordinal : Nat]
    BY DEF NoDial, DialSteps
  <2>2. reader \in [at : ReadSteps, left : Seq(Directions), out : Seq(Entries),
                    owed : [Directions -> Nat]]
    BY DEF TraceInit, NoRead, NewRead, ReadSteps
  <2> QED
    BY <2>1, <2>2 DEF TraceInit, TraceShapes
<1>5. OrdinalsOK
  BY <1>3, TraceCaps DEF TraceInit, OrdinalsOK, Busy
<1>6. HandlesOK /\ EndsOK
  BY <1>2, <1>3 DEF TraceInit, HandlesOK, EndsOK
<1>7. RecordersOK
  BY <1>2 DEF TraceInit, RecordersOK
<1>8. ReaderOK
  BY <1>1, <1>2 DEF ReaderOK
<1>9. ResultsOK
  BY <1>1, <1>2 DEF TraceInit, ResultsOK
<1>10. InTraceOrder
  BY <1>1, <1>2 DEF InTraceOrder
<1> QED
  BY <1>4, <1>5, <1>6, <1>7, <1>8, <1>9, <1>10 DEF TraceInv

(* What a dial goes on to.                                                 *)
LEMMA GoOnFacts ==
    ASSUME TraceShapes, NEW g \in Dialers, GoOn(g)
    PROVE  /\ dials' \in [Dialers -> [at : DialSteps, ordinal : Nat]]
           /\ dials'[g].at = Then[dials[g].at] /\ dials'[g].ordinal = dials[g].ordinal
           /\ \A h \in Dialers : h # g => dials'[h] = dials[h]
<1>1. \A a \in DialSteps : Then[a] \in DialSteps
  BY DEF Then, DialSteps
<1>2. dials[g] \in [at : DialSteps, ordinal : Nat]
  BY DEF TraceShapes
<1>3. dials' = [dials EXCEPT ![g] = [dials[g] EXCEPT !.at = Then[dials[g].at]]]
  BY DEF GoOn, TraceShapes
<1>4. PICK a \in DialSteps : a = Then[dials[g].at]
  BY <1>1, <1>2
<1>5. PICK x : x = [dials[g] EXCEPT !.at = a]
  OBVIOUS
<1>6. x \in [at : DialSteps, ordinal : Nat] /\ x.at = a /\ x.ordinal = dials[g].ordinal
  BY <1>2, <1>5
<1>7. dials' = [dials EXCEPT ![g] = x]
  BY <1>3, <1>4, <1>5
<1> QED
  BY <1>4, <1>6, <1>7 DEF TraceShapes

LEMMA InvTakeOrdinal ==
    ASSUME TraceInv, NEW g \in Dialers, TakeOrdinal(g)
    PROVE  TraceInv'
<1>1. PICK a \in DialSteps : a = Then["idle"]
  BY DEF Then, DialSteps
<1>2. a = IF traceEnabled THEN "dialer" ELSE "fill"
  BY <1>1 DEF Then
<1>3. /\ nextOrdinal \in Nat /\ nextOrdinal < MaxOrdinals
      /\ nextOrdinal' = nextOrdinal + 1 /\ dials[g].at = "idle"
      /\ UNCHANGED <<traceEnabled, traces, events, ends, reader, returned, calls>>
  BY DEF TraceInv, TraceShapes, TakeOrdinal
<1>4. dials' = [dials EXCEPT ![g] = [at |-> a, ordinal |-> nextOrdinal]]
  BY <1>1 DEF TakeOrdinal
<1>5. /\ dials' \in [Dialers -> [at : DialSteps, ordinal : Nat]]
      /\ dials'[g].at = a /\ dials'[g].ordinal = nextOrdinal
      /\ \A h \in Dialers : h # g => dials'[h] = dials[h]
  BY <1>1, <1>3, <1>4 DEF TraceInv, TraceShapes
<1>6. TraceShapes'
  BY <1>3, <1>5 DEF TraceInv, TraceShapes
<1>7. \A d : Registered(d)' <=> Registered(d)
  BY <1>3 DEF Registered
<1>8. \A h \in Dialers : h # g /\ Busy(h) => /\ dials[h].ordinal < nextOrdinal
                                            /\ dials[h].ordinal \in Nat
  BY DEF TraceInv, OrdinalsOK, TraceShapes
<1>9. OrdinalsOK'
  <2>1. nextOrdinal' <= MaxOrdinals
    BY <1>3, TraceCaps
  <2>2. \A h \in Dialers : Busy(h)' => dials'[h].ordinal < nextOrdinal'
    BY <1>3, <1>5, <1>8 DEF Busy
  <2>3. \A h, k \in Dialers :
           h # k /\ Busy(h)' /\ Busy(k)' => dials'[h].ordinal # dials'[k].ordinal
    BY <1>3, <1>5, <1>8 DEF Busy, TraceInv, OrdinalsOK
  <2> QED
    BY <2>1, <2>2, <2>3 DEF OrdinalsOK
<1>10. ~Registered(<<nextOrdinal, 0>>) /\ ~Registered(<<nextOrdinal, 1>>)
  BY <1>3 DEF Registered, TraceInv, HandlesOK
<1>11. HandlesOK'
  <2>1. \A i \in 1..Len(traces) : traces[i][1] < nextOrdinal'
    <3>1. ASSUME NEW i \in 1..Len(traces) PROVE traces[i][1] < nextOrdinal'
      <4>1. traces[i][1] < nextOrdinal /\ traces[i] \in Directions
        BY ElementOfSeq DEF TraceInv, HandlesOK, TraceShapes
      <4> QED
        BY <1>3, <4>1, DirectionFacts
    <3> QED
      BY <3>1
  <2>2. \A i, j \in 1..Len(traces) : i # j => traces[i] # traces[j]
    BY DEF TraceInv, HandlesOK
  <2>3. ASSUME NEW h \in Dialers
        PROVE  LET o == dials'[h].ordinal IN
          /\ dials'[h].at = "dialer" => ~Registered(<<o, 0>>) /\ ~Registered(<<o, 1>>)
          /\ dials'[h].at = "acceptor" => Registered(<<o, 0>>) /\ ~Registered(<<o, 1>>)
          /\ dials'[h].at = "fill" /\ traceEnabled =>
                Registered(<<o, 0>>) /\ Registered(<<o, 1>>)
    <3>1. CASE h = g
      BY <1>2, <1>5, <1>10, <3>1
    <3>2. CASE h # g
      BY <1>5, <3>2 DEF TraceInv, HandlesOK
    <3> QED
      BY <3>1, <3>2
  <2> QED
    BY <1>3, <1>7, <2>1, <2>2, <2>3 DEF HandlesOK
<1>12. EndsOK'
  BY <1>3, <1>7 DEF TraceInv, EndsOK
<1>13. RegInv'
  BY <1>9, <1>11, <1>12 DEF RegInv
<1> QED
  BY <1>3, <1>6, <1>7, <1>13, DialFrame

(* A dial that goes on keeps its ordinal.                                  *)
LEMMA GoOnKeepsOrdinals ==
    ASSUME TraceInv, NEW g \in Dialers, GoOn(g), Busy(g), UNCHANGED nextOrdinal
    PROVE  OrdinalsOK'
<1>1. \A h \in Dialers : dials'[h].ordinal = dials[h].ordinal /\ (Busy(h)' => Busy(h))
  BY GoOnFacts DEF TraceInv, Busy
<1> QED
  BY <1>1 DEF TraceInv, OrdinalsOK

(* A dial registers the direction that its step names.                     *)
LEMMA InvRegister ==
    ASSUME TraceInv, NEW g \in Dialers, NEW side \in Sides, GoOn(g),
           dials[g].at = IF side = 0 THEN "dialer" ELSE "acceptor",
           traces' = Append(traces, <<dials[g].ordinal, side>>),
           UNCHANGED <<traceEnabled, nextOrdinal, events, ends, reader, returned, calls>>
    PROVE  TraceInv'
<1>1. PICK o \in Nat : o = dials[g].ordinal
  BY DEF TraceInv, TraceShapes
<1>2. Busy(g) /\ o < nextOrdinal /\ nextOrdinal <= MaxOrdinals /\ nextOrdinal \in Nat
  BY <1>1 DEF Busy, TraceInv, OrdinalsOK, TraceShapes
<1>3. PICK d \in Directions : d = <<o, side>>
  <2>1. o \in 0..(MaxOrdinals - 1)
    BY <1>2, TraceCaps
  <2>2. <<o, side>> \in Directions
    BY <2>1 DEF Directions
  <2> QED
    BY <2>2
<1>4. /\ traces' \in Seq(Directions) /\ Len(traces) \in Nat
      /\ Len(traces') = Len(traces) + 1 /\ traces'[Len(traces) + 1] = d
      /\ \A i \in 1..Len(traces) : traces'[i] = traces[i]
      /\ \A e : Registered(e)' <=> Registered(e) \/ e = d
  BY <1>1, <1>3, RegisterFacts DEF TraceInv, TraceShapes
<1>5. /\ dials' \in [Dialers -> [at : DialSteps, ordinal : Nat]]
      /\ dials'[g].at = Then[dials[g].at] /\ dials'[g].ordinal = o
      /\ \A h \in Dialers : h # g => dials'[h] = dials[h]
  BY <1>1, GoOnFacts DEF TraceInv
<1>6. dials'[g].at = IF side = 0 THEN "acceptor" ELSE "fill"
  BY <1>5 DEF Then, Sides
<1>7. TraceShapes'
  BY <1>4, <1>5 DEF TraceInv, TraceShapes
<1>8. OrdinalsOK'
  BY <1>2, GoOnKeepsOrdinals
<1>9. ~Registered(d)
  BY <1>1, <1>3 DEF TraceInv, HandlesOK, Sides
<1>10. HandlesOK'
  <2>1. ASSUME NEW i \in 1..Len(traces') PROVE traces'[i][1] < nextOrdinal
    <3>1. CASE i \in 1..Len(traces)
      BY <1>4, <3>1 DEF TraceInv, HandlesOK
    <3>2. CASE i = Len(traces) + 1
      BY <1>2, <1>3, <1>4, <3>2
    <3> QED
      BY <1>4, <3>1, <3>2
  <2>2. ASSUME NEW i \in 1..Len(traces'), NEW j \in 1..Len(traces'), i # j
        PROVE  traces'[i] # traces'[j]
    <3>1. \A k \in 1..Len(traces) : traces'[k] # d
      BY <1>4, <1>9 DEF Registered
    <3>2. \A k, l \in 1..Len(traces) : k # l => traces'[k] # traces'[l]
      BY <1>4 DEF TraceInv, HandlesOK
    <3> QED
      BY <1>4, <2>2, <3>1, <3>2
  <2>3. ASSUME NEW h \in Dialers, NEW k \in Nat, k = dials'[h].ordinal
        PROVE
          /\ dials'[h].at = "dialer" => ~Registered(<<k, 0>>)' /\ ~Registered(<<k, 1>>)'
          /\ dials'[h].at = "acceptor" => Registered(<<k, 0>>)' /\ ~Registered(<<k, 1>>)'
          /\ dials'[h].at = "fill" /\ traceEnabled =>
                Registered(<<k, 0>>)' /\ Registered(<<k, 1>>)'
    <3>1. CASE h = g /\ side = 0
      <4>1. ~Registered(<<o, 1>>) /\ <<o, 1>> # d /\ d = <<o, 0>>
        BY <1>1, <1>3, <3>1 DEF TraceInv, HandlesOK
      <4>2. Registered(<<o, 0>>)' /\ ~Registered(<<o, 1>>)'
        BY <1>4, <4>1
      <4>3. k = o /\ dials'[h].at = "acceptor"
        BY <1>5, <1>6, <2>3, <3>1
      <4> QED
        BY <4>2, <4>3
    <3>2. CASE h = g /\ side = 1
      <4>1. Registered(<<o, 0>>) /\ d = <<o, 1>>
        BY <1>1, <1>3, <3>2 DEF TraceInv, HandlesOK
      <4>2. Registered(<<o, 0>>)' /\ Registered(<<o, 1>>)'
        BY <1>4, <4>1
      <4>3. k = o /\ dials'[h].at = "fill"
        BY <1>5, <1>6, <2>3, <3>2
      <4> QED
        BY <4>2, <4>3
    <3>3. CASE h # g /\ Busy(h)
      <4>1. dials'[h] = dials[h] /\ k = dials[h].ordinal
        BY <1>5, <2>3, <3>3
      <4>2. k # o
        BY <1>1, <1>2, <3>3, <4>1 DEF TraceInv, OrdinalsOK
      <4>3. <<k, 0>> # d /\ <<k, 1>> # d
        BY <1>3, <4>2
      <4>4. /\ Registered(<<k, 0>>)' <=> Registered(<<k, 0>>)
            /\ Registered(<<k, 1>>)' <=> Registered(<<k, 1>>)
        BY <1>4, <4>3
      <4>5. /\ dials[h].at = "dialer" => ~Registered(<<k, 0>>) /\ ~Registered(<<k, 1>>)
            /\ dials[h].at = "acceptor" => Registered(<<k, 0>>) /\ ~Registered(<<k, 1>>)
            /\ dials[h].at = "fill" /\ traceEnabled =>
                  Registered(<<k, 0>>) /\ Registered(<<k, 1>>)
        BY <4>1 DEF TraceInv, HandlesOK
      <4> QED
        BY <4>1, <4>4, <4>5
    <3>4. CASE h # g /\ ~Busy(h)
      BY <1>5, <3>4 DEF Busy
    <3> QED
      BY <3>1, <3>2, <3>3, <3>4 DEF Sides
  <2>4. \A h \in Dialers : dials'[h].ordinal \in Nat
    BY <1>5
  <2> QED
    BY <2>1, <2>2, <2>3, <2>4 DEF HandlesOK
<1>11. EndsOK'
  BY <1>4 DEF TraceInv, EndsOK
<1>12. RegInv'
  BY <1>8, <1>10, <1>11 DEF RegInv
<1> QED
  BY <1>4, <1>7, <1>12, DialFrame

LEMMA InvRegisters ==
    ASSUME TraceInv, NEW g \in Dialers, RegisterDialer(g) \/ RegisterAcceptor(g)
    PROVE  TraceInv'
<1>1. 0 \in Sides /\ 1 \in Sides /\ 1 # 0
  BY DEF Sides
<1>2. CASE RegisterDialer(g)
  BY <1>1, <1>2, InvRegister DEF RegisterDialer, Register
<1>3. CASE RegisterAcceptor(g)
  BY <1>1, <1>3, InvRegister DEF RegisterAcceptor, Register
<1> QED
  BY <1>2, <1>3

LEMMA InvFill ==
    ASSUME TraceInv, NEW g \in Dialers, Fill(g)
    PROVE  TraceInv'
<1>1. PICK o \in Nat : o = dials[g].ordinal
  BY DEF TraceInv, TraceShapes
<1>2. /\ dials[g].at = "fill" /\ Busy(g) /\ GoOn(g)
      /\ ends' = ends \cup {<<o, s>> : s \in Sides}
      /\ UNCHANGED <<traceEnabled, nextOrdinal, traces, events, reader, returned, calls>>
  BY <1>1 DEF Fill, Busy
<1>3. o < nextOrdinal /\ nextOrdinal <= MaxOrdinals /\ nextOrdinal \in Nat
  BY <1>1, <1>2 DEF TraceInv, OrdinalsOK, TraceShapes
<1>4. {<<o, s>> : s \in Sides} \subseteq Directions
  BY <1>3, TraceCaps DEF Directions
<1>5. /\ dials' \in [Dialers -> [at : DialSteps, ordinal : Nat]]
      /\ dials'[g].at = Then["fill"]
      /\ \A h \in Dialers : h # g => dials'[h] = dials[h]
  BY <1>2, GoOnFacts DEF TraceInv
<1>6. dials'[g].at = "idle"
  BY <1>5 DEF Then
<1>7. TraceShapes'
  BY <1>2, <1>4, <1>5 DEF TraceInv, TraceShapes
<1>8. \A d : Registered(d)' <=> Registered(d)
  BY <1>2 DEF Registered
<1>9. OrdinalsOK'
  BY <1>2, GoOnKeepsOrdinals
<1>10. HandlesOK'
  BY <1>2, <1>5, <1>6, <1>8 DEF TraceInv, HandlesOK
<1>11. EndsOK'
  <2>1. traceEnabled => \A s \in Sides : Registered(<<o, s>>)
    BY <1>1, <1>2 DEF TraceInv, HandlesOK, Sides
  <2> QED
    BY <1>2, <1>8, <2>1 DEF TraceInv, EndsOK
<1>12. RegInv'
  BY <1>9, <1>10, <1>11 DEF RegInv
<1> QED
  BY <1>2, <1>7, <1>8, <1>12, DialFrame

LEMMA InvCloseEnd ==
    ASSUME TraceInv, NEW d \in Directions, CloseEnd(d)
    PROVE  TraceInv'
<1>1. /\ ends' = ends \ {d}
      /\ UNCHANGED <<traceEnabled, nextOrdinal, traces, events, dials, reader, returned>>
  BY DEF CloseEnd
<1>2. TraceShapes'
  BY <1>1 DEF TraceInv, TraceShapes
<1>3. \A e : Registered(e)' <=> Registered(e)
  BY <1>1 DEF Registered
<1>4. OrdinalsOK' /\ HandlesOK' /\ EndsOK'
  <2>1. OrdinalsOK'
    BY <1>1 DEF TraceInv, OrdinalsOK, Busy
  <2>2. HandlesOK'
    BY <1>1, <1>3 DEF TraceInv, HandlesOK
  <2>3. EndsOK'
    BY <1>1, <1>3 DEF TraceInv, EndsOK
  <2> QED
    BY <2>1, <2>2, <2>3
<1>5. RegInv'
  BY <1>4 DEF RegInv
<1> QED
  BY <1>1, <1>2, <1>3, <1>5, DialFrame

LEMMA InvRecord ==
    ASSUME TraceInv, NEW d \in Directions, Record(d)
    PROVE  TraceInv'
<1>1. /\ d \in ends /\ traceEnabled
      /\ events' = [events EXCEPT ![d] = Append(events[d], Len(events[d]))]
      /\ UNCHANGED <<traceEnabled, nextOrdinal, traces, ends, dials, reader, returned>>
  BY DEF Record, Number
<1>2. events \in [Directions -> Seq(Nat)] /\ events[d] \in Seq(Nat)
      /\ Len(events[d]) \in Nat
  BY LenProperties DEF TraceInv, TraceShapes
<1>3. PICK t \in Seq(Nat) : t = Append(events[d], Len(events[d]))
  BY <1>2, AppendProperties
<1>4. /\ Len(t) = Len(events[d]) + 1 /\ t[Len(events[d]) + 1] = Len(events[d])
      /\ \A i \in 1..Len(events[d]) : t[i] = events[d][i]
  BY <1>2, <1>3, AppendProperties
<1>5. /\ events' \in [Directions -> Seq(Nat)] /\ events'[d] = t
      /\ \A e \in Directions : e # d => events'[e] = events[e]
  BY <1>1, <1>2, <1>3
<1>6. TraceShapes'
  BY <1>1, <1>5 DEF TraceInv, TraceShapes
<1>7. RegInv'
  BY <1>1, RegFrame DEF TraceInv, RegInv
<1>8. \A e : Registered(e)' <=> Registered(e)
  BY <1>1 DEF Registered
<1>9. RecordersOK'
  <2>1. ASSUME NEW e \in Directions
        PROVE  /\ Len(events'[e]) > 0 => traceEnabled /\ Registered(e)
               /\ \A i \in 1..Len(events'[e]) : events'[e][i] = i - 1
    <3>1. CASE e = d
      <4>1. Registered(d)
        BY <1>1 DEF TraceInv, EndsOK
      <4>2. \A i \in 1..Len(events[d]) : events[d][i] = i - 1
        BY DEF TraceInv, RecordersOK
      <4>3. ASSUME NEW i \in 1..Len(t) PROVE t[i] = i - 1
        <5>1. CASE i \in 1..Len(events[d])
          BY <1>4, <4>2, <5>1
        <5>2. CASE i = Len(events[d]) + 1
          BY <1>2, <1>4, <5>2
        <5> QED
          BY <1>2, <1>4, <5>1, <5>2
      <4> QED
        BY <1>1, <1>5, <3>1, <4>1, <4>3
    <3>2. CASE e # d
      BY <1>5, <3>2 DEF TraceInv, RecordersOK
    <3> QED
      BY <3>1, <3>2
  <2> QED
    BY <1>1, <1>8, <2>1 DEF RecordersOK
<1>10. \A e \in Directions : Len(events[e]) <= Len(events'[e])
  <2>1. ASSUME NEW e \in Directions PROVE Len(events[e]) <= Len(events'[e])
    <3>1. Len(events[e]) \in Nat
      BY <1>2, LenProperties
    <3> QED
      BY <1>4, <1>5, <3>1
  <2> QED
    BY <2>1
<1>11. ReadInv'
  BY <1>1, <1>6, <1>10, ReadFrame DEF TraceInv, ReadInv
<1> QED
  BY <1>6, <1>7, <1>9, <1>11 DEF TraceInv, RegInv, ReadInv

-----------------------------------------------------------------------------
(* The steps of a call of Trace.                                           *)

LEMMA LengthFacts ==
    ASSUME TraceShapes, NEW d \in Directions
    PROVE  Len(events[d]) \in Nat /\ reader.owed[d] \in Nat
BY LenProperties DEF TraceShapes

LEMMA InvCallTrace ==
    ASSUME TraceInv, CallTrace
    PROVE  TraceInv'
<1>1. /\ reader'.at = "called" /\ reader'.left = <<>> /\ reader'.out = <<>>
      /\ reader'.owed = [d \in Directions |-> Len(events[d])]
      /\ UNCHANGED <<traceEnabled, nextOrdinal, traces, events, ends, dials, returned>>
  BY DEF CallTrace, NewRead
<1>2. \A d \in Directions : Len(events[d]) \in Nat
  BY LengthFacts DEF TraceInv
<1>3. TraceShapes'
  <2>1. reader' \in [at : ReadSteps, left : Seq(Directions), out : Seq(Entries),
                     owed : [Directions -> Nat]]
    BY <1>2 DEF CallTrace, NewRead, ReadSteps
  <2> QED
    BY <1>1, <2>1 DEF TraceInv, TraceShapes
<1>4. InTraceOrder'
  <2>1. Len(reader'.out) = 0 /\ reader'.out = <<>>
    BY <1>1
  <2> QED
    BY <2>1 DEF InTraceOrder
<1>5. ReaderOK'
  BY <1>1, <1>2 DEF ReaderOK
<1>6. ResultsOK'
  <2>1. ASSUME NEW i \in 1..Len(returned)
        PROVE  \E d \in Directions : \E n \in Nat :
                  /\ returned[i] = Entry(d, n) /\ n < Len(events[d])
                  /\ n < reader'.owed[d]
    <3>1. PICK d \in Directions, n \in Nat : returned[i] = Entry(d, n) /\ n < Len(events[d])
      BY DEF TraceInv, ResultsOK
    <3>2. reader'.owed[d] = Len(events[d])
      BY <1>1
    <3> QED
      BY <3>1, <3>2
  <2>2. Len(reader'.out) = 0
    BY <1>1
  <2> QED
    BY <1>1, <2>1, <2>2 DEF ResultsOK
<1>7. ReadInv'
  BY <1>4, <1>5, <1>6 DEF ReadInv
<1> QED
  BY <1>1, <1>3, <1>7, CallFrame

LEMMA InvCloneAndSort ==
    ASSUME TraceInv, CloneAndSort
    PROVE  TraceInv'
<1>1. PICK left \in IF traceEnabled THEN Sorted(traces) ELSE {<<>>} :
          reader' = [reader EXCEPT !.at = "reading", !.left = left]
  BY DEF CloneAndSort
<1>2. /\ reader.at = "called"
      /\ UNCHANGED <<traceEnabled, nextOrdinal, traces, events, ends, dials, returned>>
  BY DEF CloneAndSort
<1>3. /\ left \in Seq(Directions)
      /\ \A i, j \in 1..Len(left) : i < j => Before(left[i], left[j])
      /\ \A d \in Directions : traceEnabled /\ Registered(d) =>
            \E j \in 1..Len(left) : left[j] = d
  <2>1. CASE traceEnabled
    <3>1. traces \in Seq(Directions) /\ left \in Sorted(traces)
      BY <2>1 DEF TraceInv, TraceShapes
    <3>2. \A i, j \in 1..Len(traces) : i # j => traces[i] # traces[j]
      BY DEF TraceInv, HandlesOK
    <3>3. /\ left \in Seq(Directions) /\ Len(left) = Len(traces)
          /\ \A i, j \in 1..Len(left) : i < j => Before(left[i], left[j])
          /\ \A i \in 1..Len(traces) : \E j \in 1..Len(left) : left[j] = traces[i]
      BY <3>1, <3>2, SortedFacts
    <3> QED
      BY <3>3 DEF Registered
  <2>2. CASE ~traceEnabled
    BY <2>2
  <2> QED
    BY <2>1, <2>2
<1>4. /\ reader'.at = "reading" /\ reader'.left = left /\ reader'.out = reader.out
      /\ reader'.owed = reader.owed
      /\ reader' \in [at : ReadSteps, left : Seq(Directions), out : Seq(Entries),
                      owed : [Directions -> Nat]]
  BY <1>1, <1>3 DEF TraceInv, TraceShapes, ReadSteps
<1>5. TraceShapes'
  BY <1>2, <1>4 DEF TraceInv, TraceShapes
<1>6. reader.out = <<>> /\ Len(reader.out) = 0
  BY <1>2 DEF TraceInv, ReaderOK
<1>7. InTraceOrder'
  BY <1>4 DEF TraceInv, InTraceOrder
<1>8. \A d \in Directions : reader.owed[d] <= Len(events[d])
  BY <1>2 DEF TraceInv, ReaderOK
<1>9. ASSUME NEW d \in Directions, reader.owed[d] > 0
      PROVE  \E j \in 1..Len(left) : left[j] = d
  <2>1. Len(events[d]) > 0
    BY <1>8, <1>9, LengthFacts DEF TraceInv
  <2>2. traceEnabled /\ Registered(d)
    BY <2>1 DEF TraceInv, RecordersOK
  <2> QED
    BY <1>3, <2>2
<1>10. ReaderOK'
  BY <1>2, <1>3, <1>4, <1>6, <1>8, <1>9 DEF ReaderOK
<1>11. ResultsOK'
  BY <1>2, <1>4 DEF TraceInv, ResultsOK
<1>12. ReadInv'
  BY <1>7, <1>10, <1>11 DEF ReadInv
<1> QED
  BY <1>2, <1>5, <1>12, CallFrame

LEMMA InvSnapshot ==
    ASSUME TraceInv, Snapshot
    PROVE  TraceInv'
<1>1. PICK left \in Seq(Directions), out \in Seq(Entries), owed \in [Directions -> Nat] :
        /\ left = reader.left /\ out = reader.out /\ owed = reader.owed
        /\ reader.at = "reading" /\ left # <<>>
  BY DEF TraceInv, TraceShapes, Snapshot
<1>2. UNCHANGED <<traceEnabled, nextOrdinal, traces, events, ends, dials, returned>>
  BY DEF Snapshot
<1>3. PICK h \in Directions : h = Head(left)
  BY <1>1, HeadTailProperties
<1>4. PICK m \in Nat : m = Len(events[h])
  BY LengthFacts DEF TraceInv
<1>5. PICK block : block = [i \in 1..m |-> <<h[1], h[2], events[h][i]>>]
  OBVIOUS
<1>6. \A i \in 1..m : events[h][i] = i - 1
  BY <1>4 DEF TraceInv, RecordersOK
<1>7. \A i \in 1..m : block[i] = Entry(h, i - 1) /\ i - 1 \in Nat
  BY <1>5, <1>6 DEF Entry
<1>8. block \in Seq(Entries) /\ Len(block) = m
  <2>1. \A i \in 1..m : block[i] \in Entries
    BY <1>7, EntryFacts
  <2>2. block \in [1..m -> Entries]
    BY <1>5, <2>1
  <2> QED
    BY <2>2
<1>9. PICK rest \in Seq(Directions) :
        /\ rest = Tail(left) /\ Len(rest) = Len(left) - 1
        /\ \A j \in 1..Len(rest) : rest[j] = left[j + 1]
  <2>1. /\ Tail(left) \in Seq(Directions) /\ Len(Tail(left)) = Len(left) - 1
        /\ \A j \in 1..Len(Tail(left)) : Tail(left)[j] = left[j + 1]
    BY <1>1, HeadTailProperties
  <2> QED
    BY <2>1
<1>10. Len(left) \in Nat \ {0} /\ left[1] = h /\ Len(out) \in Nat
  BY <1>1, <1>3, LenProperties, EmptySeq
<1>11. PICK all \in Seq(Entries) :
        /\ all = out \o block /\ Len(all) = Len(out) + m
        /\ \A i \in 1..Len(out) : all[i] = out[i]
        /\ \A i \in 1..m : all[Len(out) + i] = Entry(h, i - 1)
  <2>1. /\ out \o block \in Seq(Entries) /\ Len(out \o block) = Len(out) + m
        /\ \A i \in 1..(Len(out) + m) :
              (out \o block)[i] = IF i <= Len(out) THEN out[i] ELSE block[i - Len(out)]
    BY <1>8, ConcatProperties
  <2>2. \A i \in 1..Len(out) : (out \o block)[i] = out[i]
    BY <1>10, <2>1
  <2>3. ASSUME NEW i \in 1..m PROVE (out \o block)[Len(out) + i] = Entry(h, i - 1)
    <3>1. Len(out) + i \in 1..(Len(out) + m) /\ ~(Len(out) + i <= Len(out))
          /\ (Len(out) + i) - Len(out) = i
      BY <1>10
    <3>2. (out \o block)[Len(out) + i] = block[i]
      BY <2>1, <3>1
    <3> QED
      BY <1>7, <3>2
  <2> QED
    BY <2>1, <2>2, <2>3
<1>12. reader' = [reader EXCEPT !.left = rest, !.out = all]
  BY <1>1, <1>3, <1>4, <1>5, <1>9, <1>11 DEF Snapshot
<1>13. /\ reader'.at = "reading" /\ reader'.left = rest /\ reader'.out = all
       /\ reader'.owed = owed
       /\ reader' \in [at : ReadSteps, left : Seq(Directions), out : Seq(Entries),
                       owed : [Directions -> Nat]]
  BY <1>1, <1>12 DEF TraceInv, TraceShapes
<1>14. TraceShapes'
  BY <1>2, <1>13 DEF TraceInv, TraceShapes
<1>15. /\ \A d \in Directions : owed[d] <= Len(events[d])
       /\ \A i, j \in 1..Len(left) : i < j => Before(left[i], left[j])
       /\ \A i \in 1..Len(out), j \in 1..Len(left) :
             Before(<<out[i][1], out[i][2]>>, left[j])
       /\ \A d \in Directions : owed[d] > 0 =>
             \/ \E j \in 1..Len(left) : left[j] = d
             \/ \A n \in 0..(owed[d] - 1) : \E i \in 1..Len(out) : out[i] = Entry(d, n)
  BY <1>1 DEF TraceInv, ReaderOK
<1>16. ASSUME NEW i \in 1..Len(all)
       PROVE  \/ i \in 1..Len(out) /\ all[i] = out[i]
              \/ \E n \in 0..(m - 1) : i = Len(out) + n + 1 /\ all[i] = Entry(h, n)
  <2>1. CASE i \in 1..Len(out)
    BY <1>11, <2>1
  <2>2. CASE ~(i \in 1..Len(out))
    <3>1. PICK k \in 1..m : i = Len(out) + k
      <4>1. i - Len(out) \in 1..m /\ i = Len(out) + (i - Len(out))
        BY <1>10, <1>11, <2>2
      <4> QED
        BY <4>1
    <3>2. k - 1 \in 0..(m - 1) /\ i = Len(out) + (k - 1) + 1 /\ all[i] = Entry(h, k - 1)
      BY <1>10, <1>11, <3>1
    <3> QED
      BY <3>2
  <2> QED
    BY <2>1, <2>2
<1>17. ReaderOK'
  <2>1. \A j \in 1..Len(rest) : j + 1 \in 1..Len(left) /\ rest[j] = left[j + 1]
    BY <1>9, <1>10
  <2>2. ASSUME NEW i \in 1..Len(rest), NEW j \in 1..Len(rest), i < j
        PROVE  Before(rest[i], rest[j])
    <3>1. i + 1 < j + 1
      BY <2>2
    <3> QED
      BY <1>15, <2>1, <3>1
  <2>3. ASSUME NEW i \in 1..Len(all), NEW j \in 1..Len(rest)
        PROVE  Before(<<all[i][1], all[i][2]>>, rest[j])
    <3>1. CASE i \in 1..Len(out) /\ all[i] = out[i]
      BY <1>15, <2>1, <3>1
    <3>2. CASE \E n \in 0..(m - 1) : all[i] = Entry(h, n)
      <4>1. <<all[i][1], all[i][2]>> = h
        BY <3>2, EntryFacts
      <4>2. 1 \in 1..Len(left) /\ 1 < j + 1
        BY <1>10
      <4>3. Before(left[1], left[j + 1])
        BY <1>15, <2>1, <4>2
      <4> QED
        BY <1>10, <2>1, <4>1, <4>3
    <3> QED
      BY <1>16, <3>1, <3>2
  <2>4. ASSUME NEW d \in Directions, owed[d] > 0
        PROVE  \/ \E j \in 1..Len(rest) : rest[j] = d
               \/ \A n \in 0..(owed[d] - 1) : \E i \in 1..Len(all) : all[i] = Entry(d, n)
    <3>1. CASE d = h
      <4>1. SUFFICES ASSUME NEW n \in 0..(owed[d] - 1)
                     PROVE  \E i \in 1..Len(all) : all[i] = Entry(d, n)
        OBVIOUS
      <4>2. owed[d] <= m /\ owed[d] \in Nat
        BY <1>4, <1>15, <3>1
      <4>3. n + 1 \in 1..m /\ (n + 1) - 1 = n
        BY <4>2
      <4>4. all[Len(out) + (n + 1)] = Entry(h, n)
        BY <1>11, <4>3
      <4>5. Len(out) + (n + 1) \in 1..Len(all)
        BY <1>10, <1>11, <4>3
      <4> QED
        BY <3>1, <4>4, <4>5
    <3>2. CASE d # h /\ \E j \in 1..Len(left) : left[j] = d
      <4>1. PICK j \in 1..Len(left) : left[j] = d
        BY <3>2
      <4>2. j # 1
        BY <1>10, <3>2, <4>1
      <4>3. j - 1 \in 1..Len(rest) /\ (j - 1) + 1 = j
        BY <1>9, <1>10, <4>2
      <4>4. rest[j - 1] = d
        BY <2>1, <4>1, <4>3
      <4> QED
        BY <4>3, <4>4
    <3>3. CASE \A n \in 0..(owed[d] - 1) : \E i \in 1..Len(out) : out[i] = Entry(d, n)
      <4>1. SUFFICES ASSUME NEW n \in 0..(owed[d] - 1)
                     PROVE  \E i \in 1..Len(all) : all[i] = Entry(d, n)
        OBVIOUS
      <4>2. PICK i \in 1..Len(out) : out[i] = Entry(d, n)
        BY <3>3
      <4>3. i \in 1..Len(all) /\ all[i] = out[i]
        BY <1>10, <1>11
      <4> QED
        BY <4>2, <4>3
    <3> QED
      BY <1>15, <2>4, <3>1, <3>2, <3>3
  <2>5. \A d \in Directions : owed[d] <= Len(events'[d])
    BY <1>2, <1>15
  <2> QED
    BY <1>13, <2>2, <2>3, <2>4, <2>5 DEF ReaderOK
<1>18. ResultsOK'
  <2>1. ASSUME NEW i \in 1..Len(all)
        PROVE  \E d \in Directions : \E n \in Nat :
                  all[i] = Entry(d, n) /\ n < Len(events[d])
    <3>1. CASE i \in 1..Len(out) /\ all[i] = out[i]
      BY <1>1, <3>1 DEF TraceInv, ResultsOK
    <3>2. CASE \E n \in 0..(m - 1) : all[i] = Entry(h, n)
      <4>1. PICK n \in 0..(m - 1) : all[i] = Entry(h, n)
        BY <3>2
      <4>2. n \in Nat /\ n < Len(events[h])
        BY <1>4
      <4> QED
        BY <4>1, <4>2
    <3> QED
      BY <1>16, <3>1, <3>2
  <2>2. \A i \in 1..Len(returned) : \E d \in Directions : \E n \in Nat :
          /\ returned[i] = Entry(d, n) /\ n < Len(events[d]) /\ n < owed[d]
    BY <1>1 DEF TraceInv, ResultsOK
  <2> QED
    BY <1>2, <1>13, <2>1, <2>2 DEF ResultsOK
<1>19. InTraceOrder'
  <2>1. /\ out # <<>> => out[1][3] = 0
        /\ \A i \in 1..(Len(out) - 1) : Follows(out[i], out[i + 1])
    BY <1>1 DEF TraceInv, InTraceOrder
  <2>2. ASSUME all # <<>> PROVE all[1][3] = 0
    <3>1. 1 \in 1..Len(all)
      BY <2>2, EmptySeq
    <3>2. CASE 1 \in 1..Len(out) /\ all[1] = out[1]
      <4>1. out # <<>>
        BY <3>2
      <4> QED
        BY <2>1, <3>2, <4>1
    <3>3. CASE \E n \in 0..(m - 1) : 1 = Len(out) + n + 1 /\ all[1] = Entry(h, n)
      <4>1. PICK n \in 0..(m - 1) : 1 = Len(out) + n + 1 /\ all[1] = Entry(h, n)
        BY <3>3
      <4>2. n = 0 /\ n \in Nat
        BY <1>10, <4>1
      <4> QED
        BY <4>1, <4>2, EntryFacts
    <3> QED
      BY <1>16, <3>1, <3>2, <3>3
  <2>3. ASSUME NEW i \in 1..(Len(all) - 1) PROVE Follows(all[i], all[i + 1])
    <3>1. i \in 1..Len(all) /\ i + 1 \in 1..Len(all) /\ i \in Nat
      BY <1>10, <1>11
    <3>2. CASE i + 1 \in 1..Len(out)
      <4>1. i \in 1..(Len(out) - 1) /\ i \in 1..Len(out)
        BY <1>10, <3>1, <3>2
      <4>2. all[i] = out[i] /\ all[i + 1] = out[i + 1]
        BY <1>11, <3>2, <4>1
      <4> QED
        BY <2>1, <4>1, <4>2
    <3>3. CASE i + 1 \notin 1..Len(out) /\ i \in 1..Len(out)
      <4>1. PICK n \in 0..(m - 1) : i + 1 = Len(out) + n + 1 /\ all[i + 1] = Entry(h, n)
        BY <1>16, <3>1, <3>3
      <4>2. n = 0 /\ n \in Nat
        BY <1>10, <3>3, <4>1
      <4>3. /\ <<all[i + 1][1], all[i + 1][2]>> = h /\ all[i + 1][3] = 0
        BY <4>1, <4>2, EntryFacts
      <4>4. all[i] = out[i] /\ 1 \in 1..Len(left)
        BY <1>10, <1>11, <3>3
      <4>5. Before(<<all[i][1], all[i][2]>>, h)
        BY <1>10, <1>15, <3>3, <4>4
      <4> QED
        BY <4>3, <4>5 DEF Follows
    <3>4. CASE i \notin 1..Len(out)
      <4>1. PICK n \in 0..(m - 1) : i = Len(out) + n + 1 /\ all[i] = Entry(h, n)
        BY <1>16, <3>1, <3>4
      <4>2. i + 1 \notin 1..Len(out)
        BY <1>10, <3>1, <3>4
      <4>3. PICK k \in 0..(m - 1) : i + 1 = Len(out) + k + 1 /\ all[i + 1] = Entry(h, k)
        BY <1>16, <3>1, <4>2
      <4>4. k = n + 1 /\ n \in Nat /\ k \in Nat
        BY <1>10, <3>1, <4>1, <4>3
      <4>5. /\ all[i][1] = h[1] /\ all[i][2] = h[2] /\ all[i][3] = n
            /\ all[i + 1][1] = h[1] /\ all[i + 1][2] = h[2] /\ all[i + 1][3] = k
        BY <4>1, <4>3, <4>4, EntryFacts
      <4> QED
        BY <4>4, <4>5 DEF Follows
    <3> QED
      BY <3>2, <3>3, <3>4
  <2> QED
    BY <1>13, <2>2, <2>3 DEF InTraceOrder
<1>20. ReadInv'
  BY <1>17, <1>18, <1>19 DEF ReadInv
<1> QED
  BY <1>2, <1>14, <1>20, CallFrame

LEMMA InvReturnTrace ==
    ASSUME TraceInv, ReturnTrace
    PROVE  TraceInv'
<1>1. /\ reader'.at = "idle" /\ reader'.left = <<>> /\ reader'.out = <<>>
      /\ reader'.owed = [d \in Directions |-> 0] /\ returned' = reader.out
      /\ UNCHANGED <<traceEnabled, nextOrdinal, traces, events, ends, dials>>
  BY DEF ReturnTrace, NoRead, NewRead
<1>2. TraceShapes'
  <2>1. reader' \in [at : ReadSteps, left : Seq(Directions), out : Seq(Entries),
                     owed : [Directions -> Nat]]
    BY DEF ReturnTrace, NoRead, NewRead, ReadSteps
  <2> QED
    BY <1>1, <2>1 DEF TraceInv, TraceShapes
<1>3. Len(reader'.out) = 0 /\ Len(reader'.left) = 0
  BY <1>1
<1>4. InTraceOrder' /\ ReaderOK'
  BY <1>1, <1>3 DEF InTraceOrder, ReaderOK
<1>5. ResultsOK'
  BY <1>1, <1>3 DEF TraceInv, ResultsOK
<1>6. ReadInv'
  BY <1>4, <1>5 DEF ReadInv
<1> QED
  BY <1>1, <1>2, <1>6, CallFrame

LEMMA InvNext ==
    ASSUME TraceInv, [TraceNext]_traceVars
    PROVE  TraceInv'
<1>1. ASSUME NEW g \in Dialers,
             TakeOrdinal(g) \/ RegisterDialer(g) \/ RegisterAcceptor(g) \/ Fill(g)
      PROVE  TraceInv'
  BY <1>1, InvTakeOrdinal, InvRegisters, InvFill
<1>2. ASSUME NEW d \in Directions, Record(d) \/ CloseEnd(d) PROVE TraceInv'
  BY <1>2, InvRecord, InvCloseEnd
<1>3. CASE CallTrace \/ CloneAndSort \/ Snapshot \/ ReturnTrace
  BY <1>3, InvCallTrace, InvCloneAndSort, InvSnapshot, InvReturnTrace
<1>4. CASE UNCHANGED traceVars
  <2>1. TraceShapes'
    BY <1>4 DEF traceVars, TraceInv, TraceShapes
  <2>2. RegInv'
    BY <1>4, RegFrame DEF traceVars, TraceInv, RegInv
  <2> QED
    BY <1>4, <2>1, <2>2, DialFrame DEF traceVars, Registered
<1> QED
  BY <1>1, <1>2, <1>3, <1>4 DEF TraceNext

-----------------------------------------------------------------------------
(* TraceInv holds of every interleaving of dials, writes, closes and calls *)
(* of Trace.                                                               *)
THEOREM TraceInvariance == TraceSpec => []TraceInv
<1>1. TraceInit => TraceInv
  BY InvInit
<1>2. TraceInv /\ [TraceNext]_traceVars => TraceInv'
  BY InvNext
<1> QED
  BY <1>1, <1>2, PTL DEF TraceSpec

(* Network.Trace lists events by ordinal, side and number, without a gap,  *)
(* in whatever order concurrent dials registered.                          *)
THEOREM AlwaysInTraceOrder == TraceSpec => []InTraceOrder
<1>1. TraceInv => InTraceOrder
  BY DEF TraceInv
<1> QED
  BY <1>1, TraceInvariance, PTL

(* Network.Trace returns all that was recorded before it was called,       *)
(* though dials register and writers record while it reads.                *)
THEOREM NothingEverMissing == TraceSpec => []NothingMissing
<1>1. ASSUME TraceInv PROVE NothingMissing
  <2>1. SUFFICES ASSUME reader.at = "reading", reader.left = <<>>, NEW d \in Directions,
                        NEW n \in 0..(reader.owed[d] - 1)
                 PROVE  \E i \in 1..Len(reader.out) : reader.out[i] = <<d[1], d[2], n>>
    BY DEF NothingMissing
  <2>2. reader.owed[d] > 0 /\ Len(reader.left) = 0
    BY <1>1, <2>1, LengthFacts DEF TraceInv
  <2>3. \E i \in 1..Len(reader.out) : reader.out[i] = Entry(d, n)
    BY <1>1, <2>1, <2>2 DEF TraceInv, ReaderOK
  <2> QED
    BY <2>3 DEF Entry
<1> QED
  BY <1>1, TraceInvariance, PTL

(* A later result holds every event of an earlier one, also after the      *)
(* connections are closed.                                                 *)
THEOREM TraceOnlyGrows == TraceSpec => TraceGrows
<1>1. ASSUME TraceInv, [TraceNext]_traceVars
      PROVE  [ToSet(returned) \subseteq ToSet(returned')]_traceVars
  <2>1. CASE ReturnTrace
    <3>1. /\ reader.at = "reading" /\ reader.left = <<>> /\ returned' = reader.out
          /\ reader.out \in Seq(Entries) /\ returned \in Seq(Entries)
      BY <1>1, <2>1 DEF ReturnTrace, TraceInv, TraceShapes
    <3>2. Len(reader.left) = 0
      BY <3>1
    <3>3. DOMAIN returned = 1..Len(returned) /\ DOMAIN reader.out = 1..Len(reader.out)
      BY <3>1, LenProperties
    <3>4. ASSUME NEW i \in 1..Len(returned)
          PROVE  \E j \in 1..Len(reader.out) : reader.out[j] = returned[i]
      <4>1. PICK d \in Directions, n \in Nat : returned[i] = Entry(d, n) /\ n < reader.owed[d]
        BY <1>1, <3>1 DEF TraceInv, ResultsOK
      <4>2. n \in 0..(reader.owed[d] - 1) /\ reader.owed[d] > 0
        BY <1>1, <4>1, LengthFacts DEF TraceInv
      <4> QED
        BY <1>1, <3>1, <3>2, <4>1, <4>2 DEF TraceInv, ReaderOK
    <3> QED
      BY <3>1, <3>3, <3>4 DEF ToSet
  <2>2. CASE UNCHANGED returned
    BY <2>2
  <2>3. ReturnTrace \/ UNCHANGED returned
    BY <1>1 DEF TraceNext, traceVars, TakeOrdinal, RegisterDialer, RegisterAcceptor, Fill,
                Record, CloseEnd, CallTrace, CloneAndSort, Snapshot
  <2> QED
    BY <2>1, <2>2, <2>3
<1> QED
  BY <1>1, TraceInvariance, PTL DEF TraceSpec, TraceGrows
=============================================================================
