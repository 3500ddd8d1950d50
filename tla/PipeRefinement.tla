--------------------------- MODULE PipeRefinement ---------------------------
(***************************************************************************)
(* The pipe implements the stream of Link: every step of Pipe, seen        *)
(* through the refinement mapping Promise, is a step of Link or none.      *)
(***************************************************************************)
EXTENDS PipeSafetyProofs

(* Nothing appended is nothing changed.                                    *)
LEMMA AppendNothing ==
    ASSUME NEW S, NEW s \in Seq(S), NEW x \in [1..0 -> S]
    PROVE  s \o x = s
<1>1. x \in Seq(S) /\ Len(x) = 0
  <2>1. 0 \in Nat
    OBVIOUS
  <2> QED
    BY <2>1, FunctionIsSeq
<1>2. Len(s) \in Nat /\ s \o x \in Seq(S) /\ Len(s \o x) = Len(s)
  BY <1>1
<1>3. \A i \in 1..Len(s) : (s \o x)[i] = s[i]
  BY <1>1
<1> QED
  BY <1>2, <1>3

(* An admitted write sends its unit once, twice or not at all.             *)
LEMMA AdmitSends ==
    ASSUME StreamInv, NEW w \in Writers, NEW n \in WriteSizes, Admit(w, n)
    PROVE  Promise!Send
<1>0. /\ TypeOK /\ n \in Nat /\ trace \in Seq(Events) /\ log \in Seq(Nat \ {0})
      /\ Len(trace) \in Nat /\ NextUnit = Len(trace) + 1
  BY SizeAssumption DEF StreamInv, TypeOK, NextUnit
<1>1. /\ ~closed /\ closed' = closed /\ readClosed' = readClosed
      /\ eofSeen' = eofSeen /\ got' = got
      /\ \/ DeliverPartitioned(n) \/ DeliverDropped(n)
         \/ DeliverNow(n) \/ DeliverLater(n)
  BY DEF Admit, ends
<1>2. \E fate \in {"partitioned", "dropped", "delivered"}, m \in {0, n}, d \in BOOLEAN :
         trace' = Append(trace, Event(fate, m, d))
  <2>1. Draws(faults.duplicate) \subseteq BOOLEAN
    BY DEF Draws
  <2>2. CASE DeliverPartitioned(n) \/ DeliverDropped(n)
    BY <2>1, <2>2 DEF DeliverPartitioned, DeliverDropped
  <2>3. CASE DeliverNow(n) \/ DeliverLater(n)
    <3>1. \E d \in Draws(faults.duplicate) :
             trace' = Append(trace, Event("delivered", n, d))
      BY <2>3 DEF DeliverNow, DeliverLater
    <3> QED
      BY <2>1, <3>1
  <2> QED
    BY <1>1, <2>2, <2>3
<1>3. Len(trace') = Len(trace) + 1
  <2>1. PICK fate \in {"partitioned", "dropped", "delivered"}, m \in {0, n}, d \in BOOLEAN :
           trace' = Append(trace, Event(fate, m, d))
    BY <1>2
  <2>2. Event(fate, m, d) \in Events
    BY <1>0 DEF Event, Events
  <2> QED
    BY <1>0, <2>1, <2>2
<1>4. \E copies \in 0..2 : log' = log \o [b \in 1..(copies * n) |-> Len(trace) + 1]
  <2>1. CASE log' = log
    <3>1. 0 * n = 0
      BY <1>0
    <3>2. [b \in 1..0 |-> Len(trace) + 1] \in [1..0 -> Nat \ {0}]
      OBVIOUS
    <3>3. log = log \o [b \in 1..0 |-> Len(trace) + 1]
      BY <1>0, <3>2, AppendNothing
    <3> QED
      BY <2>1, <3>1, <3>3
  <2>2. CASE log' = Extend(log, NextUnit, n)
    <3>1. 1 * n = n
      BY <1>0
    <3>2. log' = log \o [b \in 1..(1 * n) |-> Len(trace) + 1]
      BY <1>0, <2>2, <3>1, Zenon DEF Extend
    <3> QED
      BY <3>2
  <2>3. CASE log' = Extend(log, NextUnit, 2 * n)
    BY <1>0, <2>3 DEF Extend
  <2> QED
    BY <1>1, <2>1, <2>2, <2>3
    DEF DeliverPartitioned, DeliverDropped, DeliverNow, DeliverLater
<1> QED
  BY <1>1, <1>3, <1>4 DEF Promise!Send

(* A Read that goes for data receives the next bytes; if it finds none and *)
(* the stream has ended, it reports that.                                  *)
LEMMA ReadDataReceives ==
    ASSUME StreamInv, EofIsFinal, EofIsFinal', NEW r \in Readers, NEW n \in Nat,
           ReadData(r, n)
    PROVE  Promise!Receive \/ Promise!ReportEOF
<1>0. /\ TypeOK /\ got \in Seq(Nat \ {0}) /\ log \in Seq(Nat \ {0})
      /\ Len(got) \in Nat /\ Len(log) \in Nat /\ Avail \in Nat
      /\ eofSeen \in BOOLEAN /\ eofSeen' \in BOOLEAN
  <2>1. TypeOK /\ Avail \in Nat
    BY AvailType DEF StreamInv
  <2>2. TypeOK'
    BY ReadDataStream DEF StreamInv
  <2>3. /\ got \in Seq(Nat \ {0}) /\ log \in Seq(Nat \ {0}) /\ eofSeen \in BOOLEAN
    BY <2>1 DEF TypeOK
  <2>4. eofSeen' \in BOOLEAN
    BY <2>2 DEF TypeOK
  <2>5. Len(got) \in Nat /\ Len(log) \in Nat
    BY <2>3
  <2> QED
    BY <2>1, <2>3, <2>4, <2>5
<1>1. /\ ~readClosed /\ readClosed' = readClosed /\ closed' = closed
      /\ trace' = trace /\ log' = log /\ readable # <<>> /\ ~eofSeen
  BY DEF ReadData, EofIsFinal
<1>2. PICK k \in 0..Len(readable) :
        /\ StopsAt(k, n)
        /\ got' = got \o [b \in 1..Copied(k, n) |-> UnitAt(readable[1].lo + b)]
        /\ eofSeen' = eofSeen \/ ~(Copied(k, n) > 0)
  BY DEF ReadData
<1>3. /\ Copied(k, n) \in Nat /\ Len(got) + Copied(k, n) <= Avail
      /\ got' = got \o [b \in 1..Copied(k, n) |-> log[Len(got) + b]]
  BY <1>1, <1>2, ReadDataTiles
<1>4. Avail <= Len(log)
  <2>1. Tiles(DataOf(pending), Avail, Len(log), log)
    BY <1>1 DEF StreamInv, QueueTilesStream
  <2> QED
    BY <2>1 DEF Tiles
<1>5. Copied(k, n) \in 0..(Len(log) - Len(got))
  BY <1>0, <1>3, <1>4
<1>6. CASE eofSeen' = eofSeen
  BY <1>1, <1>3, <1>5, <1>6 DEF Promise!Receive
<1>7. CASE eofSeen' # eofSeen
  <2>1. Copied(k, n) = 0 /\ eofSeen' = TRUE
    BY <1>0, <1>1, <1>2, <1>3, <1>7
  <2>2. [b \in 1..0 |-> log[Len(got) + b]] \in [1..0 -> Nat \ {0}]
    OBVIOUS
  <2>3. got' = got
    BY <1>0, <1>3, <2>1, <2>2, AppendNothing
  <2>4. closed /\ got = log
    BY <1>1, <2>1, <2>3 DEF EofIsFinal
  <2> QED
    BY <1>1, <2>1, <2>3, <2>4 DEF Promise!ReportEOF
<1> QED
  BY <1>6, <1>7

(* A Read that finds nothing reports the end or changes nothing.           *)
LEMMA ReadEmptyReports ==
    ASSUME StreamInv, EofIsFinal', NEW r \in Readers, NEW n \in Nat,
           ReadEmpty(r, n)
    PROVE  Promise!ReportEOF \/ UNCHANGED Promise!linkVars
<1>1. /\ ~readClosed /\ readClosed' = readClosed /\ closed' = closed
      /\ trace' = trace /\ log' = log /\ got' = got
      /\ eofSeen' = eofSeen \/ eofSeen' = TRUE
  BY DEF ReadEmpty, EndOrWait, hist
<1>2. CASE eofSeen' = eofSeen
  BY <1>1, <1>2 DEF Promise!linkVars
<1>3. CASE eofSeen' = TRUE
  <2>1. closed /\ got = log
    BY <1>1, <1>3 DEF EofIsFinal
  <2> QED
    BY <1>1, <1>3, <2>1 DEF Promise!ReportEOF
<1> QED
  BY <1>1, <1>2, <1>3

(* Every step of the pipe is a step of the stream, or leaves it alone.     *)
LEMMA StepRefines ==
    ASSUME PipeInv, PipeInv', [Next]_vars
    PROVE  [Promise!LinkNext]_Promise!linkVars
<1>0. StreamInv /\ EofIsFinal /\ EofIsFinal' /\ TypeOK
  BY DEF PipeInv, StreamInv
<1>1. ASSUME NEW w \in Writers, NEW n \in WriteSizes, Admit(w, n)
      PROVE  Promise!LinkNext
  BY <1>0, <1>1, AdmitSends DEF Promise!LinkNext
<1>2. ASSUME NEW r \in Readers, NEW n \in Nat, ReadData(r, n)
      PROVE  Promise!LinkNext
  BY <1>0, <1>2, ReadDataReceives DEF Promise!LinkNext
<1>3. ASSUME NEW r \in Readers, NEW n \in Nat, ReadEmpty(r, n)
      PROVE  Promise!LinkNext \/ UNCHANGED Promise!linkVars
  BY <1>0, <1>3, ReadEmptyReports DEF Promise!LinkNext
<1>4. CASE Close
  <2>1. Promise!End
    BY <1>4 DEF Close, hist, Promise!End
  <2> QED
    BY <2>1 DEF Promise!LinkNext
<1>5. CASE Abort
  <2>1. Promise!Kill
    BY <1>5 DEF Abort, hist, Promise!Kill
  <2> QED
    BY <2>1 DEF Promise!LinkNext
<1>6. CASE \/ \E w \in Writers, n \in WriteSizes : WriteBlocks(w, n) \/ WriteRefused(w)
           \/ \E r \in Readers : ReadAborted(r)
           \/ TimerFires \/ ReleaseDueLatency \/ Tick
           \/ SetLatency \/ SetPacketLoss \/ SetDuplication
           \/ \E p \in BOOLEAN : PartitionChange(p)
           \/ UNCHANGED vars
  <2>1. /\ trace' = trace /\ log' = log /\ got' = got /\ closed' = closed
        /\ readClosed' = readClosed /\ eofSeen' = eofSeen
    BY <1>6 DEF WriteBlocks, WriteRefused, ReadAborted, TimerFires, ReleaseDueLatency,
                Tick, SetLatency, SetPacketLoss, SetDuplication, PartitionChange,
                ends, hist, vars
  <2> QED
    BY <2>1 DEF Promise!linkVars
<1> QED
  BY <1>0, <1>1, <1>2, <1>3, <1>4, <1>5, <1>6, Steps

(* The pipe with its buffers, timers, faults and blocked calls implements  *)
(* the stream that Link promises, for every value of the constants.        *)
THEOREM Implements == Spec => ImplementsLink
<1>1. Init => Promise!LinkInit
  BY DEF Init, Promise!LinkInit
<1>2. PipeInv /\ PipeInv' /\ [Next]_vars => [Promise!LinkNext]_Promise!linkVars
  BY StepRefines
<1> QED
  BY <1>1, <1>2, PipeSafe, PTL DEF Spec, ImplementsLink, Promise!LinkSpec
=============================================================================
