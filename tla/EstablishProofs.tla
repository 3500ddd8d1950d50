-------------------------- MODULE EstablishProofs ---------------------------
(***************************************************************************)
(* Proofs about Establish, for every finite set of dialers, every set of   *)
(* peers and names, every backlog and every range of ports.                *)
(***************************************************************************)
EXTENDS Establish, FiniteSetTheorems, SequenceTheorems, TLAPS

-----------------------------------------------------------------------------
(* The inductive invariant, in named parts.                                *)

PairNames == (Names \cup {Unnamed} \cup Nat) \X (Peers \cup {""})

ListenerStates ==
    [addr : Peers \X Ports, network : Networks, incoming : Seq(Nat),
     reserved : Nat, closed : BOOLEAN,
     closer : CloserSteps]

ConnStates == [l : Nat, pair : PairNames \cup {<<>>}, dialer : EndStates,
               acceptor : EndStates]

DialStates ==
    [at : Steps, name : Names \cup {Unnamed}, network : {"tcp", "tcp4", "tcp6"},
     peer : Peers \cup {""}, port : 0..MaxPort, l : Nat, ordinal : Nat]

Shapes ==
    /\ lis \in Seq(ListenerStates) /\ conns \in Seq(ConnStates)
    /\ dials \in [Dialers -> DialStates]
    /\ lost \in Seq(Nat) /\ Len(lost) = Len(lis)
    /\ targets \subseteq PairNames \X Nat \X Sides

RegistryOK ==
    /\ registry \in [Peers \X Ports -> 0..Len(lis)]
    /\ nextListenPort \in ListenPortBase..MaxPort
    /\ nextOrdinal = Len(conns)
    /\ partitions \subseteq Pairs

(* A listener is closed from the first step of its Close on.               *)
ClosedOK == \A l \in 1..Len(lis) : lis[l].closed <=> lis[l].closer # "none"

(* A dial past its lookup has a listener; one with an ordinal has that     *)
(* connection of its listener to itself, with neither end handed over.     *)
WithListener == Holding \cup {"reserve"}
WithOrdinal  == {"address", "register", "fill"}

DialsOK ==
    \A d \in Dialers :
        /\ dials[d].at \in WithListener => dials[d].l \in 1..Len(lis)
        /\ dials[d].at \in WithOrdinal =>
              LET c == dials[d].ordinal
              IN  /\ c \in 1..Len(conns) /\ conns[c].l = dials[d].l
                  /\ conns[c].dialer = "new" /\ conns[c].acceptor = "new"

OrdinalsDistinct ==
    \A d, e \in Dialers :
        /\ dials[d].at \in WithOrdinal /\ dials[e].at \in WithOrdinal
        /\ dials[d].ordinal = dials[e].ordinal
        => d = e

(* A dial that closes the end that came too late has it to itself.         *)
LateOK ==
    /\ \A d \in Dialers : dials[d].at = "discard" =>
          /\ dials[d].ordinal \in 1..Len(conns)
          /\ conns[dials[d].ordinal].dialer = "new"
          /\ conns[dials[d].ordinal].acceptor = "late"
    /\ \A d, e \in Dialers :
          /\ dials[d].at = "discard" /\ dials[e].at = "discard"
          /\ dials[d].ordinal = dials[e].ordinal
          => d = e

(* Queue and reservations stay within the channel.                         *)
QueueFits ==
    \A l \in 1..Len(lis) : Len(lis[l].incoming) + lis[l].reserved <= Backlog

(* What is queued is a connection of the listener that its dialer has and  *)
(* nobody accepted, once; and all of those are queued.                     *)
QueuesOK ==
    \A l \in 1..Len(lis) : \A i \in 1..Len(lis[l].incoming) :
        LET c == lis[l].incoming[i]
        IN  /\ c \in 1..Len(conns) /\ conns[c].l = l
            /\ conns[c].acceptor = "new" /\ conns[c].dialer # "new"
            /\ lis[l].closer # "done"

QueuedOnce ==
    \A l \in 1..Len(lis) : \A i, j \in 1..Len(lis[l].incoming) :
        lis[l].incoming[i] = lis[l].incoming[j] => i = j

AllQueued ==
    \A c \in 1..Len(conns) :
        /\ conns[c].l \in 1..Len(lis)
        /\ conns[c].acceptor = "new" /\ conns[c].dialer # "new" =>
              \E i \in 1..Len(lis[conns[c].l].incoming) :
                  lis[conns[c].l].incoming[i] = c

(* A target is an end that is not closed, under the pair its connection    *)
(* was registered with, which happens once.                                *)
TargetsOK ==
    \A t \in targets : /\ t[2] \in 1..Len(conns)
                       /\ t[1] = conns[t[2]].pair
                       /\ conns[t[2]][t[3]] # "closed"

Unregistered ==
    \A d \in Dialers : dials[d].at \in {"address", "register"} =>
        \A t \in targets : t[2] # dials[d].ordinal

(* Both ends of a connection are targets or neither, until one is closed.  *)
PairsOK ==
    \A c \in 1..Len(conns) :
        conns[c].dialer # "closed" /\ conns[c].acceptor # "closed" =>
          (<<conns[c].pair, c, "dialer">> \in targets
             <=> <<conns[c].pair, c, "acceptor">> \in targets)

EstInv ==
    /\ Shapes /\ RegistryOK /\ ClosedOK /\ DialsOK /\ OrdinalsDistinct
    /\ QueueFits /\ ReservationsAccounted /\ QueuesOK /\ QueuedOnce /\ AllQueued
    /\ TargetsOK /\ Unregistered /\ WaitingIsPartitioned
    /\ LateOK /\ PairsOK

-----------------------------------------------------------------------------
(* Updates of a dial, a listener and a connection.                         *)

(* GoTo moves one dial on and leaves the rest of it as it is.              *)
LEMMA GoToFacts ==
    ASSUME Shapes, NEW d \in Dialers, NEW step \in Steps, GoTo(d, step)
    PROVE  /\ dials' \in [Dialers -> DialStates]
           /\ dials'[d].at = step /\ dials'[d].l = dials[d].l
           /\ dials'[d].ordinal = dials[d].ordinal
           /\ dials'[d].name = dials[d].name /\ dials'[d].peer = dials[d].peer
           /\ \A e \in Dialers : e # d => dials'[e] = dials[e]
BY DEF Shapes, GoTo, DialStates

LEMMA DialMoved ==
    ASSUME NEW r \in DialStates, NEW step \in Steps
    PROVE  [r EXCEPT !.at = step] \in DialStates /\ [r EXCEPT !.at = step].at = step
BY DEF DialStates

LEMMA NewDialFacts ==
    ASSUME NEW step \in Steps, NEW name \in Names \cup {Unnamed},
           NEW network \in {"tcp", "tcp4", "tcp6"}, NEW peer \in Peers \cup {""},
           NEW port \in 0..MaxPort
    PROVE  /\ NewDial(step, name, network, peer, port) \in DialStates
           /\ NewDial(step, name, network, peer, port).at = step
BY DEF NewDial, DialStates

LEMMA NoDialFacts == NoDial \in DialStates /\ NoDial.at = "idle"
<1>1. "idle" \in Steps
  BY DEF Steps
<1>2. Anyport \in 0..MaxPort
  BY PortAssumption DEF Anyport
<1> QED
  BY <1>1, <1>2, NewDialFacts DEF NoDial

LEMMA ReturnsFacts ==
    ASSUME Shapes, NEW d \in Dialers, Returns(d)
    PROVE  /\ dials' \in [Dialers -> DialStates]
           /\ dials'[d].at = "idle"
           /\ \A e \in Dialers : e # d => dials'[e] = dials[e]
BY NoDialFacts DEF Shapes, Returns

LEMMA ListenerPut ==
    ASSUME Shapes, NEW l \in 1..Len(lis), NEW r \in ListenerStates,
           lis' = [lis EXCEPT ![l] = r]
    PROVE  /\ lis' \in Seq(ListenerStates) /\ Len(lis') = Len(lis)
           /\ lis'[l] = r
           /\ \A m \in 1..Len(lis) : m # l => lis'[m] = lis[m]
<1>1. lis \in Seq(ListenerStates)
  BY DEF Shapes
<1> QED
  BY <1>1, ExceptSeq

LEMMA ConnPut ==
    ASSUME Shapes, NEW c \in 1..Len(conns), NEW r \in ConnStates,
           conns' = [conns EXCEPT ![c] = r]
    PROVE  /\ conns' \in Seq(ConnStates) /\ Len(conns') = Len(conns)
           /\ conns'[c] = r
           /\ \A b \in 1..Len(conns) : b # c => conns'[b] = conns[b]
<1>1. conns \in Seq(ConnStates)
  BY DEF Shapes
<1> QED
  BY <1>1, ExceptSeq

LEMMA ListenerFields ==
    ASSUME Shapes, NEW l \in 1..Len(lis)
    PROVE  /\ lis[l] \in ListenerStates /\ lis[l].addr \in Peers \X Ports
           /\ lis[l].network \in Networks
           /\ lis[l].incoming \in Seq(Nat) /\ lis[l].reserved \in Nat
           /\ lis[l].closed \in BOOLEAN
           /\ lis[l].closer \in CloserSteps
           /\ Len(lis[l].incoming) \in Nat
<1>1. lis[l] \in ListenerStates
  BY ElementOfSeq DEF Shapes
<1> QED
  BY <1>1, LenProperties DEF ListenerStates

LEMMA ConnFields ==
    ASSUME Shapes, NEW c \in 1..Len(conns)
    PROVE  /\ conns[c] \in ConnStates /\ conns[c].l \in Nat
           /\ conns[c].pair \in PairNames \cup {<<>>}
           /\ conns[c].dialer \in EndStates /\ conns[c].acceptor \in EndStates
<1>1. conns[c] \in ConnStates
  BY ElementOfSeq DEF Shapes
<1> QED
  BY <1>1 DEF ConnStates

LEMMA Lengths ==
    ASSUME Shapes
    PROVE  Len(lis) \in Nat /\ Len(conns) \in Nat
BY LenProperties DEF Shapes

(* The slots held at a listener are finitely many.                         *)
LEMMA HoldersFinite ==
    ASSUME NEW l
    PROVE  /\ IsFiniteSet(Holders(l)) /\ Cardinality(Holders(l)) \in Nat
<1>1. Holders(l) \in SUBSET Dialers
  BY DEF Holders
<1> QED
  BY <1>1, FS_Subset, FS_CardinalityType, DialerAssumption

-----------------------------------------------------------------------------
(* Steps that touch nothing but dials that hold no slot.                   *)

Light(d) ==
    \/ dials'[d] = dials[d]
    \/ /\ dials[d].at \notin Holding /\ dials'[d].at \notin Holding \cup {"discard"}
       /\ dials'[d].at = "reserve" => dials'[d].l \in 1..Len(lis)

LEMMA ConnsKept ==
    ASSUME EstInv, UNCHANGED <<conns, targets>>,
           \A e \in Dialers : dials'[e] = dials[e] \/ dials'[e].at # "discard"
    PROVE  LateOK' /\ PairsOK'
<1>1. LateOK'
  BY DEF EstInv, LateOK
<1>2. PairsOK'
  BY DEF EstInv, PairsOK
<1> QED
  BY <1>1, <1>2

LEMMA LightStep ==
    ASSUME EstInv, dials' \in [Dialers -> DialStates],
           \A d \in Dialers : Light(d), WaitingIsPartitioned',
           partitions' \subseteq Pairs, nextListenPort' \in ListenPortBase..MaxPort,
           UNCHANGED <<registry, lis, nextOrdinal, targets, conns, lost>>
    PROVE  EstInv'
<1>1. Shapes' /\ RegistryOK' /\ ClosedOK' /\ QueueFits' /\ QueuesOK' /\ QueuedOnce'
      /\ AllQueued' /\ TargetsOK'
  BY DEF EstInv, Shapes, RegistryOK, ClosedOK, QueueFits, QueuesOK, QueuedOnce,
         AllQueued, TargetsOK
<1>2. DialsOK'
  BY DEF EstInv, DialsOK, Light, WithListener, WithOrdinal, Holding
<1>3. OrdinalsDistinct'
  BY DEF EstInv, OrdinalsDistinct, Light, WithOrdinal, Holding
<1>4. ReservationsAccounted'
  <2>1. \A l : Holders(l)' = Holders(l)
    BY DEF Light, Holders
  <2> QED
    BY <2>1 DEF EstInv, ReservationsAccounted
<1>5. Unregistered'
  BY DEF EstInv, Unregistered, Light, Holding
<1>6. LateOK' /\ PairsOK'
  BY ConnsKept DEF Light
<1> QED
  BY <1>1, <1>2, <1>3, <1>4, <1>5, <1>6 DEF EstInv

(* What a dial waits for is its own business.                              *)
LEMMA StillWaiting ==
    ASSUME WaitingIsPartitioned, NEW d \in Dialers, dials'[d].at # "wait",
           \A e \in Dialers : e # d => dials'[e] = dials[e],
           UNCHANGED partitions
    PROVE  WaitingIsPartitioned'
BY DEF WaitingIsPartitioned, Pair, LocalName

LEMMA InvDial ==
    ASSUME EstInv, NEW d \in Dialers, Dial(d)
    PROVE  EstInv'
<1>1. PICK name \in Names \cup {Unnamed}, network \in Networks, peer \in Peers,
           port \in Ports \cup {Anyport} :
           dials' = [dials EXCEPT ![d] =
                       NewDial(IF name = Unnamed THEN "lookup" ELSE "check",
                               name, network, peer, port)]
  BY DEF Dial
<1> DEFINE step == IF name = Unnamed THEN "lookup" ELSE "check"
           r    == NewDial(step, name, network, peer, port)
<1>2. r \in DialStates /\ r.at \in {"lookup", "check"}
  <2>1. port \in 0..MaxPort
    BY PortAssumption DEF Ports, Anyport
  <2>2. network \in {"tcp", "tcp4", "tcp6"} /\ peer \in Peers \cup {""}
    BY NetworkAssumption
  <2>3. step \in Steps /\ step \in {"lookup", "check"}
    BY DEF Steps
  <2> HIDE DEF step
  <2>4. r \in DialStates /\ r.at = step
    BY <2>1, <2>2, <2>3 DEF NewDial, DialStates
  <2> QED
    BY <2>3, <2>4
<1> HIDE DEF r
<1>3. /\ dials' \in [Dialers -> DialStates] /\ dials'[d].at \in {"lookup", "check"}
      /\ \A e \in Dialers : e # d => dials'[e] = dials[e]
  BY <1>1, <1>2 DEF EstInv, Shapes, r
<1>4. \A e \in Dialers : Light(e)
  BY <1>3 DEF Light, Dial, Holding
<1>5. WaitingIsPartitioned'
  BY <1>3, StillWaiting DEF EstInv, Dial
<1> QED
  BY <1>3, <1>4, <1>5, LightStep DEF Dial, EstInv, RegistryOK, book

LEMMA InvCheckPartition ==
    ASSUME EstInv, NEW d \in Dialers, CheckPartition(d)
    PROVE  EstInv'
<1>1. PICK step \in {"wait", "lookup"} :
           GoTo(d, step) /\ (step = "wait" => Pair(d) \in partitions)
  BY DEF CheckPartition
<1>2. /\ dials' \in [Dialers -> DialStates]
      /\ dials'[d].at = step /\ Pair(d)' = Pair(d)
      /\ \A e \in Dialers : e # d => dials'[e] = dials[e]
  BY <1>1, GoToFacts DEF EstInv, Steps, Pair, LocalName
<1>3. \A e \in Dialers : Light(e)
  BY <1>2 DEF Light, CheckPartition, Holding
<1>4. WaitingIsPartitioned'
  BY <1>1, <1>2 DEF EstInv, WaitingIsPartitioned, CheckPartition, Pair, LocalName
<1> QED
  BY <1>2, <1>3, <1>4, LightStep DEF CheckPartition, EstInv, RegistryOK, book

LEMMA InvCancel ==
    ASSUME EstInv, NEW d \in Dialers, Cancel(d)
    PROVE  EstInv'
<1>1. /\ dials' \in [Dialers -> DialStates] /\ dials'[d].at = "idle"
      /\ \A e \in Dialers : e # d => dials'[e] = dials[e]
  BY ReturnsFacts DEF EstInv, Cancel
<1>2. \A e \in Dialers : Light(e)
  BY <1>1 DEF Light, Cancel, Holding
<1>3. WaitingIsPartitioned'
  BY <1>1, StillWaiting DEF EstInv, Cancel
<1> QED
  BY <1>1, <1>2, <1>3, LightStep DEF Cancel, EstInv, RegistryOK, book

LEMMA InvLookup ==
    ASSUME EstInv, NEW d \in Dialers, Lookup(d)
    PROVE  EstInv'
<1>1. /\ dials' \in [Dialers -> DialStates]
      /\ \/ dials'[d].at = "idle"
         \/ dials'[d].at = "reserve" /\ dials'[d].l \in 1..Len(lis)
      /\ \A e \in Dialers : e # d => dials'[e] = dials[e]
  <2>1. CASE Returns(d)
    BY <2>1, ReturnsFacts DEF EstInv
  <2>2. CASE \E l \in Matches(d) :
               dials' = [dials EXCEPT ![d].at = "reserve", ![d].l = l,
                                      ![d].port = Anyport]
    <3>1. PICK l \in 1..Len(lis) :
               dials' = [dials EXCEPT ![d].at = "reserve", ![d].l = l,
                                      ![d].port = Anyport]
      BY <2>2 DEF Matches
    <3>2. /\ "reserve" \in Steps /\ l \in Nat /\ dials \in [Dialers -> DialStates]
          /\ Anyport \in 0..MaxPort
      BY <3>1, Lengths, PortAssumption DEF EstInv, Shapes, Steps, Anyport
    <3> DEFINE s == [dials[d] EXCEPT !.at = "reserve", !.l = l, !.port = Anyport]
    <3>3. s \in DialStates /\ s.at = "reserve" /\ s.l = l
      BY <3>2 DEF DialStates
    <3>4. dials' = [dials EXCEPT ![d] = s]
      BY <3>1, <3>2
    <3> HIDE DEF s
    <3> QED
      BY <3>2, <3>3, <3>4
  <2> QED
    BY <2>1, <2>2 DEF Lookup
<1>2. \A e \in Dialers : Light(e)
  BY <1>1 DEF Light, Lookup, Holding
<1>3. WaitingIsPartitioned'
  BY <1>1, StillWaiting DEF EstInv, Lookup
<1> QED
  BY <1>1, <1>2, <1>3, LightStep DEF Lookup, EstInv, RegistryOK, book

(* Partition and Heal: nobody waits any more.                              *)
LEMMA InvWake ==
    ASSUME EstInv, WakeDials, partitions' \subseteq Pairs,
           UNCHANGED <<registry, lis, book, nextOrdinal, targets, conns, lost>>
    PROVE  EstInv'
<1>1. /\ dials' \in [Dialers -> DialStates]
      /\ \A d \in Dialers :
            \/ dials'[d] = dials[d] /\ dials[d].at # "wait"
            \/ dials[d].at = "wait" /\ dials'[d].at = "check"
  <2>1. "check" \in Steps /\ dials \in [Dialers -> DialStates]
    BY DEF EstInv, Shapes, Steps
  <2> QED
    BY <2>1, DialMoved DEF WakeDials
<1>2. \A d \in Dialers : Light(d)
  BY <1>1 DEF Light, Holding
<1>3. WaitingIsPartitioned'
  BY <1>1 DEF WaitingIsPartitioned
<1> QED
  BY <1>1, <1>2, <1>3, LightStep DEF EstInv, RegistryOK, book
-----------------------------------------------------------------------------
(* A dial that takes, keeps or gives back a slot.                          *)

(* The queues are as they were.                                            *)
LEMMA QueuesKept ==
    ASSUME EstInv, Len(lis') = Len(lis), Len(conns') = Len(conns),
           \A m \in 1..Len(lis) : /\ lis'[m].incoming = lis[m].incoming
                                  /\ lis'[m].closer = lis[m].closer
                                  /\ lis'[m].closed = lis[m].closed,
           \A b \in 1..Len(conns) : /\ conns'[b].l = conns[b].l
                                    /\ conns'[b].dialer = conns[b].dialer
                                    /\ conns'[b].acceptor = conns[b].acceptor
    PROVE  ClosedOK' /\ QueuesOK' /\ QueuedOnce' /\ AllQueued'
<1>1. ClosedOK'
  BY DEF EstInv, ClosedOK
<1>2. QueuesOK'
  <2> SUFFICES ASSUME NEW m \in 1..Len(lis'), NEW i \in 1..Len(lis'[m].incoming)
               PROVE  LET c == lis'[m].incoming[i]
                      IN  /\ c \in 1..Len(conns') /\ conns'[c].l = m
                          /\ conns'[c].acceptor = "new" /\ conns'[c].dialer # "new"
                          /\ lis'[m].closer # "done"
    BY DEF QueuesOK
  <2>1. /\ m \in 1..Len(lis) /\ i \in 1..Len(lis[m].incoming)
        /\ lis'[m].incoming[i] = lis[m].incoming[i]
    OBVIOUS
  <2>2. PICK c : c = lis[m].incoming[i]
    OBVIOUS
  <2>3. /\ c \in 1..Len(conns) /\ conns[c].l = m
        /\ conns[c].acceptor = "new" /\ conns[c].dialer # "new"
        /\ lis[m].closer # "done"
    BY <2>1, <2>2 DEF EstInv, QueuesOK
  <2> QED
    BY <2>1, <2>2, <2>3
<1>3. QueuedOnce'
  BY DEF EstInv, QueuedOnce
<1>4. AllQueued'
  <2>1. ASSUME NEW b \in 1..Len(conns)
        PROVE  /\ conns'[b].l \in 1..Len(lis')
               /\ conns'[b].acceptor = "new" /\ conns'[b].dialer # "new" =>
                     \E i \in 1..Len(lis'[conns'[b].l].incoming) :
                         lis'[conns'[b].l].incoming[i] = b
    <3>1. /\ conns[b].l \in 1..Len(lis)
          /\ conns[b].acceptor = "new" /\ conns[b].dialer # "new" =>
                \E i \in 1..Len(lis[conns[b].l].incoming) :
                    lis[conns[b].l].incoming[i] = b
      BY DEF EstInv, AllQueued
    <3>2. /\ lis'[conns'[b].l].incoming = lis[conns[b].l].incoming
      BY <3>1
    <3> QED
      BY <3>1, <3>2
  <2> QED
    BY <2>1 DEF AllQueued
<1> QED
  BY <1>1, <1>2, <1>3, <1>4

(* The account of one listener changes, and that of no other.              *)
LEMMA SlotTaken ==
    ASSUME EstInv, NEW l \in 1..Len(lis), Len(lis') = Len(lis),
           lis'[l].reserved = Cardinality(Holders(l)') + lost'[l],
           \A m \in 1..Len(lis) : m # l => /\ lis'[m] = lis[m] /\ lost'[m] = lost[m]
                                           /\ Holders(m)' = Holders(m)
    PROVE  ReservationsAccounted'
BY DEF EstInv, ReservationsAccounted

LEMMA InvReserve ==
    ASSUME EstInv, NEW d \in Dialers, Reserve(d)
    PROVE  EstInv'
<1>0. PICK l : l = dials[d].l
  OBVIOUS
<1>1. /\ l \in 1..Len(lis) /\ l \in Nat /\ Shapes /\ dials[d].at = "reserve"
      /\ d \notin Holders(l)
  BY <1>0, Lengths DEF EstInv, DialsOK, Reserve, WithListener, Holders, Holding
<1>2. CASE Returns(d) /\ UNCHANGED lis
  <2>1. /\ dials' \in [Dialers -> DialStates] /\ dials'[d].at = "idle"
        /\ \A e \in Dialers : e # d => dials'[e] = dials[e]
    BY <1>2, ReturnsFacts DEF EstInv
  <2>2. \A e \in Dialers : Light(e)
    BY <1>1, <2>1 DEF Light, Holding
  <2>3. WaitingIsPartitioned'
    BY <2>1, StillWaiting DEF EstInv, Reserve
  <2> QED
    BY <1>2, <2>1, <2>2, <2>3, LightStep DEF Reserve, EstInv, RegistryOK, book
<1>3. CASE /\ ~(lis[l].closed \/ Full(l)) /\ GoTo(d, "ordinal")
           /\ lis' = [lis EXCEPT ![l].reserved = @ + 1]
  <2> DEFINE r == [lis[l] EXCEPT !.reserved = @ + 1]
  <2>1. lis[l] \in ListenerStates /\ lis[l].reserved \in Nat
        /\ Len(lis[l].incoming) \in Nat /\ lis[l].closed \in BOOLEAN
    BY <1>1, ListenerFields
  <2>2. /\ r \in ListenerStates /\ r.reserved = lis[l].reserved + 1
        /\ r.incoming = lis[l].incoming /\ r.closer = lis[l].closer
        /\ r.closed = lis[l].closed
    BY <2>1 DEF ListenerStates
  <2>3. lis' = [lis EXCEPT ![l] = r]
    BY <1>3
  <2> HIDE DEF r
  <2>4. /\ lis' \in Seq(ListenerStates) /\ Len(lis') = Len(lis) /\ lis'[l] = r
        /\ \A m \in 1..Len(lis) : m # l => lis'[m] = lis[m]
    BY <1>1, <2>2, <2>3, ListenerPut
  <2>5. "ordinal" \in Steps
    BY DEF Steps
  <2>6. /\ dials' \in [Dialers -> DialStates]
        /\ dials'[d].at = "ordinal" /\ dials'[d].l = l
        /\ \A e \in Dialers : e # d => dials'[e] = dials[e]
    BY <1>0, <1>1, <1>3, <2>5, GoToFacts
  <2>7. UNCHANGED <<registry, nextListenPort, nextOrdinal, partitions, targets,
                    conns, lost>>
    BY DEF Reserve, book
  <2>8. /\ Shapes' /\ RegistryOK'
    BY <1>1, <2>4, <2>6, <2>7 DEF EstInv, Shapes, RegistryOK
  <2>9. \A m \in 1..Len(lis) : /\ lis'[m].incoming = lis[m].incoming
                                /\ lis'[m].closer = lis[m].closer
                                /\ lis'[m].closed = lis[m].closed
    BY <2>2, <2>4
  <2>10. /\ ClosedOK' /\ QueuesOK' /\ QueuedOnce' /\ AllQueued'
    BY <2>4, <2>7, <2>9, QueuesKept
  <2>11. DialsOK' /\ OrdinalsDistinct' /\ TargetsOK' /\ Unregistered'
    <3>1. DialsOK'
      BY <1>1, <2>4, <2>6, <2>7
         DEF EstInv, DialsOK, WithListener, WithOrdinal, Holding
    <3>2. OrdinalsDistinct' /\ Unregistered'
      BY <1>1, <2>6, <2>7 DEF EstInv, OrdinalsDistinct, Unregistered, WithOrdinal
    <3>3. TargetsOK'
      BY <2>7 DEF EstInv, TargetsOK
    <3> QED
      BY <3>1, <3>2, <3>3
  <2>12. QueueFits'
    BY <2>1, <2>2, <2>4, <1>3, BacklogAssumption DEF EstInv, QueueFits, Full
  <2>13. ReservationsAccounted'
    <3>1. Holders(l)' = Holders(l) \cup {d}
      BY <2>6, <1>1 DEF Holders, Holding
    <3>2. \A m : m # l => Holders(m)' = Holders(m)
      BY <2>6, <1>1 DEF Holders, Holding
    <3>3. Cardinality(Holders(l)') = Cardinality(Holders(l)) + 1
      BY <3>1, <1>1, HoldersFinite, FS_AddElement
    <3>4. lost[l] \in Nat
      BY <1>1, ElementOfSeq DEF Shapes
    <3>5. lis[l].reserved = Cardinality(Holders(l)) + lost[l]
      BY <1>1 DEF EstInv, ReservationsAccounted
    <3>6. Cardinality(Holders(l)) \in Nat
      BY HoldersFinite
    <3>7. lis'[l].reserved = Cardinality(Holders(l)') + lost'[l]
      BY <2>2, <2>4, <2>7, <3>3, <3>4, <3>5, <3>6
    <3> QED
      BY <1>1, <2>4, <2>7, <3>2, <3>7, SlotTaken
  <2>14. WaitingIsPartitioned'
    BY <2>6, <2>7, StillWaiting DEF EstInv
  <2>15. LateOK' /\ PairsOK'
    BY <2>6, <2>7, ConnsKept
  <2> QED
    BY <2>8, <2>10, <2>11, <2>12, <2>13, <2>14, <2>15 DEF EstInv
<1> QED
  BY <1>0, <1>2, <1>3 DEF Reserve

LEMMA InvTakeOrdinal ==
    ASSUME EstInv, NEW d \in Dialers, TakeOrdinal(d)
    PROVE  EstInv'
<1>0. PICK l, n : l = dials[d].l /\ n = Len(conns) + 1
  OBVIOUS
<1> DEFINE c == NewConn(l)
<1>1. /\ l \in 1..Len(lis) /\ l \in Nat /\ Shapes /\ dials[d].at = "ordinal"
      /\ Len(conns) \in Nat /\ nextOrdinal = Len(conns) /\ n \in Nat
  BY <1>0, Lengths DEF EstInv, DialsOK, TakeOrdinal, WithListener, Holding, RegistryOK
<1>2. /\ c \in ConnStates /\ c.l = l /\ c.dialer = "new" /\ c.acceptor = "new"
  BY <1>1 DEF NewConn, ConnStates, EndStates
<1>3. conns' = Append(conns, c)
  BY <1>0 DEF TakeOrdinal
<1> HIDE DEF c
<1>4. /\ conns' \in Seq(ConnStates) /\ Len(conns') = n /\ conns'[n] = c
      /\ \A b \in 1..Len(conns) : conns'[b] = conns[b]
  BY <1>0, <1>1, <1>2, <1>3, AppendProperties DEF Shapes
<1>5. /\ dials' \in [Dialers -> DialStates]
      /\ dials'[d].at = "address" /\ dials'[d].l = l /\ dials'[d].ordinal = n
      /\ \A e \in Dialers : e # d => dials'[e] = dials[e]
  <2>1. /\ dials' = [dials EXCEPT ![d].at = "address", ![d].ordinal = n]
        /\ dials \in [Dialers -> DialStates] /\ "address" \in Steps
    BY <1>0, <1>1 DEF TakeOrdinal, Shapes, Steps
  <2> QED
    BY <1>0, <1>1, <2>1 DEF DialStates
<1>6. UNCHANGED <<registry, lis, nextListenPort, partitions, targets, lost>>
      /\ nextOrdinal' = n
  BY <1>0, <1>1 DEF TakeOrdinal, book
<1>7. /\ Shapes' /\ RegistryOK'
  BY <1>1, <1>4, <1>5, <1>6 DEF EstInv, Shapes, RegistryOK
<1>8. \A b \in 1..Len(conns) : b \in 1..Len(conns') /\ b # n
  BY <1>0, <1>1, <1>4
<1>9. \A b \in 1..Len(conns') : b \in 1..Len(conns) \/ b = n
  BY <1>0, <1>1, <1>4
<1>10. n \in 1..Len(conns')
  BY <1>0, <1>1, <1>4
<1>11. ClosedOK' /\ QueueFits' /\ QueuedOnce'
  BY <1>6 DEF EstInv, ClosedOK, QueueFits, QueuedOnce
<1>12. QueuesOK'
  BY <1>4, <1>6, <1>8 DEF EstInv, QueuesOK
<1>13. AllQueued'
  <2>1. \A b \in 1..Len(conns') : conns'[b].l \in 1..Len(lis')
    BY <1>1, <1>2, <1>4, <1>6, <1>9 DEF EstInv, AllQueued
  <2>2. ASSUME NEW b \in 1..Len(conns'), conns'[b].acceptor = "new",
               conns'[b].dialer # "new"
        PROVE  \E i \in 1..Len(lis'[conns'[b].l].incoming) :
                   lis'[conns'[b].l].incoming[i] = b
    <3>1. b \in 1..Len(conns) /\ conns'[b] = conns[b]
      BY <1>2, <1>4, <1>9, <2>2
    <3> QED
      BY <1>6, <2>2, <3>1 DEF EstInv, AllQueued
  <2> QED
    BY <2>1, <2>2 DEF AllQueued
<1>14. DialsOK'
  BY <1>1, <1>2, <1>4, <1>5, <1>6, <1>8, <1>10
     DEF EstInv, DialsOK, WithListener, WithOrdinal, Holding
<1>15. OrdinalsDistinct'
  BY <1>5, <1>8 DEF EstInv, DialsOK, OrdinalsDistinct, WithOrdinal
<1>16. TargetsOK'
  BY <1>4, <1>6, <1>8 DEF EstInv, TargetsOK
<1>17. Unregistered'
  BY <1>5, <1>6, <1>8 DEF EstInv, TargetsOK, Unregistered
<1>18. ReservationsAccounted'
  <2>1. \A m : Holders(m)' = Holders(m)
    BY <1>0, <1>1, <1>5 DEF Holders, Holding
  <2> QED
    BY <2>1, <1>6 DEF EstInv, ReservationsAccounted
<1>19. WaitingIsPartitioned'
  BY <1>5, <1>6, StillWaiting DEF EstInv
<1>20. LateOK'
  BY <1>4, <1>5, <1>8 DEF EstInv, LateOK
<1>21. PairsOK'
  <2>1. \A t \in targets : t[2] # n
    BY <1>8 DEF EstInv, TargetsOK
  <2>2. \A pair, side : <<pair, n, side>> \notin targets
    BY <2>1
  <2> QED
    BY <1>4, <1>6, <1>9, <2>2 DEF EstInv, PairsOK
<1> QED
  BY <1>7, <1>11, <1>12, <1>13, <1>14, <1>15, <1>16, <1>17, <1>18, <1>19, <1>20,
     <1>21 DEF EstInv

LEMMA InvAssignAddress ==
    ASSUME EstInv, NEW d \in Dialers, AssignAddress(d)
    PROVE  EstInv'
<1>0. PICK l : l = dials[d].l
  OBVIOUS
<1>1. /\ l \in 1..Len(lis) /\ Shapes /\ dials[d].at = "address"
      /\ d \in Holders(l) /\ Len(lost) = Len(lis)
  BY <1>0 DEF EstInv, Shapes, DialsOK, AssignAddress, WithListener, Holders, Holding
<1>2. UNCHANGED <<registry, lis, nextListenPort, nextOrdinal, partitions, targets, conns>>
  BY DEF AssignAddress
<1>3. lost[l] \in Nat /\ lost \in Seq(Nat)
  BY <1>1, ElementOfSeq DEF Shapes
<1>4. ASSUME dials' \in [Dialers -> DialStates],
             \A e \in Dialers : e # d => dials'[e] = dials[e],
             \/ dials'[d].at = "idle"
             \/ /\ dials'[d].at = "register" /\ dials'[d].l = l
                /\ dials'[d].ordinal = dials[d].ordinal,
             lost' \in Seq(Nat), Len(lost') = Len(lis), ReservationsAccounted'
      PROVE  EstInv'
  <2>0. Shapes' /\ RegistryOK'
    BY <1>2, <1>4 DEF EstInv, Shapes, RegistryOK
  <2>1. ClosedOK' /\ QueueFits' /\ QueuesOK' /\ QueuedOnce' /\ AllQueued' /\ TargetsOK'
    <3>1. lis' = lis /\ conns' = conns /\ targets' = targets
      BY <1>2
    <3>2. ClosedOK' /\ QueueFits' /\ QueuedOnce'
      BY <3>1 DEF EstInv, ClosedOK, QueueFits, QueuedOnce
    <3>3. QueuesOK' /\ AllQueued'
      BY <3>1 DEF EstInv, QueuesOK, AllQueued
    <3>4. TargetsOK'
      BY <3>1 DEF EstInv, TargetsOK
    <3> QED
      BY <3>2, <3>3, <3>4
  <2>2. DialsOK'
    BY <1>0, <1>1, <1>2, <1>4 DEF EstInv, DialsOK, WithListener, WithOrdinal, Holding
  <2>3. OrdinalsDistinct'
    BY <1>1, <1>4 DEF EstInv, OrdinalsDistinct, WithOrdinal
  <2>4. Unregistered'
    BY <1>1, <1>2, <1>4 DEF EstInv, Unregistered
  <2>5. WaitingIsPartitioned'
    BY <1>2, <1>4, StillWaiting DEF EstInv
  <2>6. LateOK' /\ PairsOK'
    BY <1>2, <1>4, ConnsKept
  <2> QED
    BY <1>4, <2>0, <2>1, <2>2, <2>3, <2>4, <2>5, <2>6 DEF EstInv
<1>5. CASE Returns(d) /\ lost' = [lost EXCEPT ![l] = @ + 1]
  <2>1. /\ dials' \in [Dialers -> DialStates] /\ dials'[d].at = "idle"
        /\ \A e \in Dialers : e # d => dials'[e] = dials[e]
    BY <1>1, <1>5, ReturnsFacts
  <2>2. lost[l] + 1 \in Nat /\ l \in 1..Len(lost)
    BY <1>1, <1>3
  <2>3. /\ lost' \in Seq(Nat) /\ Len(lost') = Len(lis) /\ lost'[l] = lost[l] + 1
        /\ \A m \in 1..Len(lis) : m # l => lost'[m] = lost[m]
    BY <1>1, <1>3, <1>5, <2>2, ExceptSeq
  <2>4. Holders(l)' = Holders(l) \ {d}
    BY <2>1 DEF Holders, Holding
  <2>5. \A m : m # l => Holders(m)' = Holders(m)
    BY <1>0, <2>1 DEF Holders, Holding
  <2>6. Cardinality(Holders(l)') = Cardinality(Holders(l)) - 1
    BY <2>4, <1>1, HoldersFinite, FS_RemoveElement
  <2>7. /\ lis[l].reserved = Cardinality(Holders(l)) + lost[l]
        /\ Cardinality(Holders(l)) \in Nat
    BY <1>1, HoldersFinite DEF EstInv, ReservationsAccounted
  <2>8. lis'[l].reserved = Cardinality(Holders(l)') + lost'[l]
    <3>1. PICK k \in Nat : k = Cardinality(Holders(l))
      BY <2>7
    <3>2. Cardinality(Holders(l)') = k - 1 /\ lis'[l].reserved = k + lost[l]
      BY <1>2, <2>6, <2>7, <3>1
    <3> QED
      BY <1>3, <2>3, <3>2
  <2>9. ReservationsAccounted'
    BY <1>1, <1>2, <2>3, <2>5, <2>8, SlotTaken
  <2> QED
    BY <1>4, <2>1, <2>3, <2>9
<1>6. CASE GoTo(d, "register") /\ UNCHANGED lost
  <2>1. /\ dials' \in [Dialers -> DialStates]
        /\ dials'[d].at = "register" /\ dials'[d].l = l
        /\ dials'[d].ordinal = dials[d].ordinal
        /\ \A e \in Dialers : e # d => dials'[e] = dials[e]
    <3>1. "register" \in Steps
      BY DEF Steps
    <3> QED
      BY <1>0, <1>1, <1>6, <3>1, GoToFacts
  <2>2. \A m : Holders(m)' = Holders(m)
    BY <1>0, <1>1, <2>1 DEF Holders, Holding
  <2>3. ReservationsAccounted'
    BY <1>2, <1>6, <2>2 DEF EstInv, ReservationsAccounted
  <2> QED
    BY <1>1, <1>3, <1>4, <1>6, <2>1, <2>3
<1> QED
  BY <1>0, <1>5, <1>6 DEF AssignAddress

LEMMA InvRegisterReset ==
    ASSUME EstInv, NEW d \in Dialers, RegisterReset(d)
    PROVE  EstInv'
<1>0. PICK c, pair : c = dials[d].ordinal /\ pair = Pair(d)
  OBVIOUS
<1>1. /\ c \in 1..Len(conns) /\ Shapes /\ dials[d].at = "register"
      /\ conns[c].dialer = "new" /\ conns[c].acceptor = "new"
      /\ dials[d].l \in 1..Len(lis) /\ conns[c].l = dials[d].l
  BY <1>0 DEF EstInv, DialsOK, RegisterReset, WithOrdinal, WithListener, Holding
<1>2. pair \in PairNames /\ c \in Nat
  BY <1>0, <1>1, Lengths DEF Pair, LocalName, PairNames, Shapes, DialStates
<1>3. UNCHANGED <<registry, lis, nextListenPort, nextOrdinal, partitions, lost>>
  BY DEF RegisterReset, book
<1> DEFINE r == [conns[c] EXCEPT !.pair = pair]
<1>4. /\ r \in ConnStates /\ r.l = conns[c].l /\ r.pair = pair
      /\ r.dialer = conns[c].dialer /\ r.acceptor = conns[c].acceptor
  BY <1>1, <1>2, ConnFields DEF ConnStates
<1>5. conns' = [conns EXCEPT ![c] = r]
  BY <1>0 DEF RegisterReset
<1> HIDE DEF r
<1>6. /\ conns' \in Seq(ConnStates) /\ Len(conns') = Len(conns) /\ conns'[c] = r
      /\ \A b \in 1..Len(conns) : b # c => conns'[b] = conns[b]
  BY <1>1, <1>4, <1>5, ConnPut
<1>7. /\ dials' \in [Dialers -> DialStates]
      /\ dials'[d].at = "fill" /\ dials'[d].l = dials[d].l /\ dials'[d].ordinal = c
      /\ \A e \in Dialers : e # d => dials'[e] = dials[e]
  <2>1. "fill" \in Steps
    BY DEF Steps
  <2> QED
    BY <1>0, <1>1, <2>1, GoToFacts DEF RegisterReset
<1>8. targets' = targets \cup {<<pair, c, s>> : s \in Sides}
  BY <1>0 DEF RegisterReset
<1>9. Shapes' /\ RegistryOK'
  BY <1>1, <1>2, <1>3, <1>6, <1>7, <1>8 DEF EstInv, Shapes, RegistryOK
<1>10. ClosedOK' /\ QueuesOK' /\ QueuedOnce' /\ AllQueued'
  <2>1. \A b \in 1..Len(conns) : /\ conns'[b].l = conns[b].l
                                 /\ conns'[b].dialer = conns[b].dialer
                                 /\ conns'[b].acceptor = conns[b].acceptor
    BY <1>4, <1>6
  <2> QED
    BY <1>3, <1>6, <2>1, QueuesKept
<1>11. QueueFits'
  BY <1>3 DEF EstInv, QueueFits
<1>12. DialsOK'
  <2>1. \A e \in Dialers : e # d /\ dials[e].at \in WithOrdinal => dials[e].ordinal # c
    BY <1>0, <1>1 DEF EstInv, OrdinalsDistinct, WithOrdinal
  <2>2. ASSUME NEW e \in Dialers, e # d
        PROVE  /\ dials'[e].at \in WithListener => dials'[e].l \in 1..Len(lis')
               /\ dials'[e].at \in WithOrdinal =>
                     LET b == dials'[e].ordinal
                     IN  /\ b \in 1..Len(conns') /\ conns'[b].l = dials'[e].l
                         /\ conns'[b].dialer = "new" /\ conns'[b].acceptor = "new"
    BY <1>3, <1>6, <1>7, <2>1, <2>2 DEF EstInv, DialsOK
  <2>3. /\ dials'[d].l \in 1..Len(lis') /\ c \in 1..Len(conns')
        /\ conns'[c].l = dials'[d].l
        /\ conns'[c].dialer = "new" /\ conns'[c].acceptor = "new"
    BY <1>1, <1>3, <1>4, <1>6, <1>7
  <2> QED
    BY <1>7, <2>2, <2>3 DEF DialsOK
<1>13. OrdinalsDistinct'
  BY <1>0, <1>1, <1>7 DEF EstInv, OrdinalsDistinct, WithOrdinal
<1>14. ReservationsAccounted'
  <2>1. \A m : Holders(m)' = Holders(m)
    BY <1>1, <1>7 DEF Holders, Holding
  <2> QED
    BY <2>1, <1>3 DEF EstInv, ReservationsAccounted
<1>15. TargetsOK'
  <2>1. \A t \in targets : t[2] # c
    BY <1>0, <1>1 DEF EstInv, Unregistered
  <2>2. ASSUME NEW t \in targets
        PROVE  /\ t[2] \in 1..Len(conns') /\ t[1] = conns'[t[2]].pair
               /\ conns'[t[2]][t[3]] # "closed"
    BY <2>1, <1>6 DEF EstInv, TargetsOK
  <2>3. ASSUME NEW s \in Sides
        PROVE  /\ c \in 1..Len(conns') /\ pair = conns'[c].pair
               /\ conns'[c][s] # "closed"
    BY <1>1, <1>4, <1>6 DEF Sides
  <2> QED
    BY <1>8, <2>2, <2>3 DEF TargetsOK
<1>16. Unregistered'
  <2>1. \A e \in Dialers : e # d /\ dials[e].at \in WithOrdinal => dials[e].ordinal # c
    BY <1>0, <1>1 DEF EstInv, OrdinalsDistinct, WithOrdinal
  <2> QED
    BY <1>7, <1>8, <2>1 DEF EstInv, Unregistered, WithOrdinal
<1>17. WaitingIsPartitioned'
  BY <1>3, <1>7, StillWaiting DEF EstInv
<1>18. LateOK'
  BY <1>4, <1>6, <1>7 DEF EstInv, LateOK
<1>19. PairsOK'
  <2>1. ASSUME NEW b \in 1..Len(conns), b # c, NEW side
        PROVE  <<conns[b].pair, b, side>> \in targets'
                 <=> <<conns[b].pair, b, side>> \in targets
    BY <1>8, <2>1
  <2>2. /\ <<pair, c, "dialer">> \in targets' /\ <<pair, c, "acceptor">> \in targets'
    BY <1>8 DEF Sides
  <2> QED
    BY <1>4, <1>6, <2>1, <2>2 DEF EstInv, PairsOK
<1> QED
  BY <1>9, <1>10, <1>11, <1>12, <1>13, <1>14, <1>15, <1>16, <1>17, <1>18, <1>19
     DEF EstInv

-----------------------------------------------------------------------------
(* A connection is handed over or closed.                                  *)

(* Whoever closes an end takes it off the registry.                        *)
LEMMA TargetsKept ==
    ASSUME EstInv, NEW c \in 1..Len(conns), Len(conns') = Len(conns),
           \A b \in 1..Len(conns) : b # c => conns'[b] = conns[b],
           conns'[c].pair = conns[c].pair, targets' \subseteq targets,
           \A s \in Sides : \/ conns'[c][s] # "closed"
                            \/ <<conns[c].pair, c, s>> \notin targets'
                            \/ conns'[c][s] = conns[c][s]
    PROVE  TargetsOK'
<1>1. ASSUME NEW t \in targets'
      PROVE  /\ t[2] \in 1..Len(conns') /\ t[1] = conns'[t[2]].pair
             /\ conns'[t[2]][t[3]] # "closed"
  <2>1. /\ t[2] \in 1..Len(conns) /\ t[1] = conns[t[2]].pair
        /\ conns[t[2]][t[3]] # "closed"
    BY DEF EstInv, TargetsOK
  <2>2. t = <<t[1], t[2], t[3]>> /\ t[3] \in Sides
    BY DEF EstInv, Shapes
  <2>3. CASE t[2] # c
    BY <2>1, <2>3
  <2>4. CASE t[2] = c
    BY <2>1, <2>2, <2>4
  <2> QED
    BY <2>3, <2>4
<1> QED
  BY <1>1 DEF TargetsOK

(* An end that is not being discarded changes; the dials do not, or have   *)
(* nothing to discard.                                                     *)
LEMMA LateKept ==
    ASSUME EstInv, Len(conns') = Len(conns),
           \A e \in Dialers : dials'[e] = dials[e] \/ dials'[e].at = "idle",
           \A b \in 1..Len(conns) :
               conns[b].dialer = "new" /\ conns[b].acceptor = "late" =>
                   \/ conns'[b].dialer = "new" /\ conns'[b].acceptor = "late"
                   \/ \A e \in Dialers : dials'[e].at = "discard" => dials[e].ordinal # b
    PROVE  LateOK'
BY DEF EstInv, LateOK

(* A target goes only with the end its Close has come to.                  *)
LEMMA PairsKept ==
    ASSUME EstInv, NEW c \in 1..Len(conns), Len(conns') = Len(conns),
           \A b \in 1..Len(conns) : b # c => conns'[b] = conns[b],
           conns'[c].pair = conns[c].pair,
           \A s \in Sides : conns[c][s] = "closed" => conns'[c][s] = "closed",
           \/ targets' = targets
           \/ \E s \in Sides : /\ targets' = targets \ {<<conns[c].pair, c, s>>}
                                /\ conns'[c][s] = "closed"
    PROVE  PairsOK'
<1> SUFFICES ASSUME NEW b \in 1..Len(conns),
                    conns'[b].dialer # "closed", conns'[b].acceptor # "closed"
             PROVE  <<conns'[b].pair, b, "dialer">> \in targets'
                      <=> <<conns'[b].pair, b, "acceptor">> \in targets'
  BY DEF PairsOK
<1>1. conns'[b].pair = conns[b].pair
  OBVIOUS
<1>2. conns[b].dialer # "closed" /\ conns[b].acceptor # "closed"
  BY DEF Sides
<1>3. <<conns[b].pair, b, "dialer">> \in targets
        <=> <<conns[b].pair, b, "acceptor">> \in targets
  BY <1>2 DEF EstInv, PairsOK
<1>4. CASE targets' = targets
  BY <1>1, <1>3, <1>4
<1>5. ASSUME NEW s \in Sides, targets' = targets \ {<<conns[c].pair, c, s>>},
             conns'[c][s] = "closed"
      PROVE  <<conns'[b].pair, b, "dialer">> \in targets'
               <=> <<conns'[b].pair, b, "acceptor">> \in targets'
  <2>1. b # c
    BY <1>5 DEF Sides
  <2> QED
    BY <1>1, <1>3, <1>5, <2>1
<1> QED
  BY <1>4, <1>5

LEMMA UnregisteredKept ==
    ASSUME EstInv, targets' \subseteq targets,
           \A e \in Dialers : dials'[e] = dials[e] \/ dials'[e].at \in {"idle", "discard"}
    PROVE  Unregistered'
BY DEF EstInv, Unregistered

(* A connection that nobody dials any more does not matter to the dials.   *)
LEMMA DialsKept ==
    ASSUME EstInv, NEW c \in 1..Len(conns), Len(conns') = Len(conns),
           Len(lis') = Len(lis),
           \A b \in 1..Len(conns) : b # c => conns'[b] = conns[b],
           \A e \in Dialers :
               \/ dials'[e].at \in {"idle", "discard"}
               \/ /\ dials'[e] = dials[e]
                  /\ dials[e].at \in WithOrdinal => dials[e].ordinal # c
    PROVE  DialsOK' /\ OrdinalsDistinct'
<1>1. ASSUME NEW e \in Dialers
      PROVE  /\ dials'[e].at \in WithListener => dials'[e].l \in 1..Len(lis')
             /\ dials'[e].at \in WithOrdinal =>
                   LET b == dials'[e].ordinal
                   IN  /\ b \in 1..Len(conns') /\ conns'[b].l = dials'[e].l
                       /\ conns'[b].dialer = "new" /\ conns'[b].acceptor = "new"
  <2>1. CASE dials'[e].at \in {"idle", "discard"}
    BY <2>1 DEF WithListener, WithOrdinal, Holding
  <2>2. CASE dials'[e] = dials[e] /\ (dials[e].at \in WithOrdinal => dials[e].ordinal # c)
    BY <2>2 DEF EstInv, DialsOK
  <2> QED
    BY <2>1, <2>2
<1>2. DialsOK'
  BY <1>1 DEF DialsOK
<1>3. OrdinalsDistinct'
  BY DEF EstInv, OrdinalsDistinct, WithOrdinal
<1> QED
  BY <1>2, <1>3

(* A connection that was handed over is no dial's own.                     *)
LEMMA HandedOver ==
    ASSUME EstInv, NEW c, conns[c].dialer # "new" \/ conns[c].acceptor # "new",
           NEW e \in Dialers, dials[e].at \in WithOrdinal
    PROVE  dials[e].ordinal # c
BY DEF EstInv, DialsOK

LEMMA HeadQueued ==
    ASSUME EstInv, NEW l \in 1..Len(lis), NEW q, q = lis[l].incoming, q # <<>>,
           NEW c, c = Head(q)
    PROVE  /\ q \in Seq(Nat) /\ Len(q) \in Nat \ {0} /\ 1 \in 1..Len(q) /\ c = q[1]
           /\ Len(Tail(q)) = Len(q) - 1 /\ Tail(q) \in Seq(Nat)
           /\ \A i \in 1..Len(Tail(q)) : Tail(q)[i] = q[i + 1]
           /\ c \in 1..Len(conns) /\ conns[c].l = l
           /\ conns[c].acceptor = "new" /\ conns[c].dialer # "new"
<1>1. q \in Seq(Nat)
  BY ListenerFields DEF EstInv
<1>2. Len(q) \in Nat \ {0} /\ c = q[1]
  BY <1>1, EmptySeq
<1>3. 1 \in 1..Len(q)
  BY <1>2
<1>4. /\ Len(Tail(q)) = Len(q) - 1 /\ Tail(q) \in Seq(Nat)
      /\ \A i \in 1..Len(Tail(q)) : Tail(q)[i] = q[i + 1]
  BY <1>1, HeadTailProperties
<1>5. /\ q[1] \in 1..Len(conns) /\ conns[q[1]].l = l
      /\ conns[q[1]].acceptor = "new" /\ conns[q[1]].dialer # "new"
  BY <1>3 DEF EstInv, QueuesOK
<1> QED
  BY <1>1, <1>2, <1>3, <1>4, <1>5

(* Accept, and the drain of Close: the head of the queue goes.             *)
LEMMA HeadTaken ==
    ASSUME EstInv, NEW l \in 1..Len(lis), lis[l].incoming # <<>>,
           NEW c, c = Head(lis[l].incoming),
           Len(lis') = Len(lis), Len(conns') = Len(conns),
           lis'[l].incoming = Tail(lis[l].incoming),
           lis'[l].closer = "none" <=> lis[l].closer = "none",
           lis'[l].closer # "done", lis'[l].closed = lis[l].closed,
           lis'[l].reserved = lis[l].reserved,
           \A m \in 1..Len(lis) : m # l => lis'[m] = lis[m],
           \A b \in 1..Len(conns) : b # c => conns'[b] = conns[b],
           conns'[c].l = conns[c].l, conns'[c].acceptor # "new"
    PROVE  /\ c \in 1..Len(conns) /\ conns[c].dialer # "new"
           /\ conns[c].acceptor = "new"
           /\ ClosedOK' /\ QueueFits' /\ QueuesOK' /\ QueuedOnce' /\ AllQueued'
<1>0. PICK q : q = lis[l].incoming
  OBVIOUS
<1>1. /\ q \in Seq(Nat) /\ Len(q) \in Nat \ {0} /\ c = q[1]
      /\ Len(Tail(q)) = Len(q) - 1
      /\ \A i \in 1..Len(Tail(q)) : Tail(q)[i] = q[i + 1]
  BY <1>0, HeadQueued
<1>2. 1 \in 1..Len(q) /\ lis[l].reserved \in Nat
  BY <1>1, ListenerFields DEF EstInv
<1>3. /\ c \in 1..Len(conns) /\ conns[c].l = l
      /\ conns[c].acceptor = "new" /\ conns[c].dialer # "new"
  BY <1>0, HeadQueued
<1>4. ASSUME NEW i \in 1..Len(Tail(q))
      PROVE  i + 1 \in 1..Len(q) /\ Tail(q)[i] # c
  <2>1. i + 1 \in 1..Len(q) /\ i + 1 # 1 /\ Tail(q)[i] = q[i + 1]
    BY <1>1
  <2>2. q[i + 1] # q[1]
    BY <1>0, <1>2, <2>1 DEF EstInv, QueuedOnce
  <2> QED
    BY <1>1, <2>1, <2>2
<1>5. ASSUME NEW i \in 1..Len(q), q[i] # c
      PROVE  \E j \in 1..Len(Tail(q)) : Tail(q)[j] = q[i]
  <2>0. PICK n \in Nat : n = Len(q) /\ Len(Tail(q)) = n - 1
    BY <1>1
  <2>1. i - 1 \in 1..Len(Tail(q)) /\ (i - 1) + 1 = i
    <3>1. i # 1
      BY <1>1, <1>5
    <3>2. i \in 1..n
      BY <2>0
    <3>3. i - 1 \in 1..(n - 1) /\ (i - 1) + 1 = i
      BY <3>1, <3>2
    <3> QED
      BY <2>0, <3>3
  <2>2. Tail(q)[i - 1] = q[(i - 1) + 1]
    BY <1>1, <2>1
  <2> QED
    BY <2>1, <2>2
<1>6. ClosedOK'
  BY DEF EstInv, ClosedOK
<1>7. QueueFits'
  <2>1. Len(q) + lis[l].reserved <= Backlog
    BY <1>0 DEF EstInv, QueueFits
  <2>2. Len(lis'[l].incoming) + lis'[l].reserved <= Backlog
    BY <1>0, <1>1, <1>2, <2>1, BacklogAssumption
  <2> QED
    BY <2>2 DEF EstInv, QueueFits
<1>8. QueuedOnce'
  <2>1. ASSUME NEW i \in 1..Len(Tail(q)), NEW j \in 1..Len(Tail(q)), Tail(q)[i] = Tail(q)[j]
        PROVE  i = j
    <3>1. /\ i + 1 \in 1..Len(q) /\ j + 1 \in 1..Len(q) /\ q[i + 1] = q[j + 1]
      BY <1>1, <1>4, <2>1
    <3>2. i + 1 = j + 1
      BY <1>0, <3>1 DEF EstInv, QueuedOnce
    <3> QED
      BY <3>2
  <2> SUFFICES ASSUME NEW m \in 1..Len(lis'), NEW i \in 1..Len(lis'[m].incoming),
                      NEW j \in 1..Len(lis'[m].incoming),
                      lis'[m].incoming[i] = lis'[m].incoming[j]
               PROVE  i = j
    BY DEF QueuedOnce
  <2>2. CASE m = l
    <3>1. /\ i \in 1..Len(Tail(q)) /\ j \in 1..Len(Tail(q)) /\ Tail(q)[i] = Tail(q)[j]
      BY <1>0, <2>2
    <3> QED
      BY <2>1, <3>1
  <2>3. CASE m # l
    <3>1. /\ m \in 1..Len(lis) /\ i \in 1..Len(lis[m].incoming)
          /\ j \in 1..Len(lis[m].incoming) /\ lis[m].incoming[i] = lis[m].incoming[j]
      BY <2>3
    <3> QED
      BY <3>1 DEF EstInv, QueuedOnce
  <2> QED
    BY <2>2, <2>3
<1>9. QueuesOK'
  <2> SUFFICES ASSUME NEW m \in 1..Len(lis'), NEW i \in 1..Len(lis'[m].incoming)
               PROVE  LET b == lis'[m].incoming[i]
                      IN  /\ b \in 1..Len(conns') /\ conns'[b].l = m
                          /\ conns'[b].acceptor = "new" /\ conns'[b].dialer # "new"
                          /\ lis'[m].closer # "done"
    BY DEF QueuesOK
  <2>1. PICK b : b = lis'[m].incoming[i]
    OBVIOUS
  <2>2. /\ b \in 1..Len(conns) /\ conns[b].l = m
        /\ conns[b].acceptor = "new" /\ conns[b].dialer # "new"
        /\ lis[m].closer # "done" /\ b # c
    <3>1. CASE m = l
      <4>1. i \in 1..Len(Tail(q)) /\ b = q[i + 1] /\ i + 1 \in 1..Len(q) /\ b # c
        BY <1>0, <1>1, <1>4, <2>1, <3>1
      <4> QED
        BY <1>0, <3>1, <4>1 DEF EstInv, QueuesOK
    <3>2. CASE m # l
      <4>1. m \in 1..Len(lis) /\ i \in 1..Len(lis[m].incoming) /\ b = lis[m].incoming[i]
        BY <2>1, <3>2
      <4>2. /\ b \in 1..Len(conns) /\ conns[b].l = m
            /\ conns[b].acceptor = "new" /\ conns[b].dialer # "new"
            /\ lis[m].closer # "done"
        BY <4>1 DEF EstInv, QueuesOK
      <4> QED
        BY <1>3, <3>2, <4>2
    <3> QED
      BY <3>1, <3>2
  <2> QED
    BY <2>1, <2>2
<1>10. AllQueued'
  <2> SUFFICES ASSUME NEW b \in 1..Len(conns')
               PROVE  /\ conns'[b].l \in 1..Len(lis')
                      /\ conns'[b].acceptor = "new" /\ conns'[b].dialer # "new" =>
                            \E i \in 1..Len(lis'[conns'[b].l].incoming) :
                                lis'[conns'[b].l].incoming[i] = b
    BY DEF AllQueued
  <2>1. CASE b = c
    BY <1>3, <2>1
  <2>2. CASE b # c
    <3>1. /\ conns'[b] = conns[b] /\ conns[b].l \in 1..Len(lis)
          /\ conns[b].acceptor = "new" /\ conns[b].dialer # "new" =>
                \E i \in 1..Len(lis[conns[b].l].incoming) : lis[conns[b].l].incoming[i] = b
      BY <2>2 DEF EstInv, AllQueued
    <3>2. CASE conns[b].l = l
      <4>1. SUFFICES ASSUME conns[b].acceptor = "new", conns[b].dialer # "new"
                     PROVE  \E i \in 1..Len(Tail(q)) : Tail(q)[i] = b
        <5>1. lis'[conns'[b].l].incoming = Tail(q) /\ conns'[b].l \in 1..Len(lis')
          BY <1>0, <3>1, <3>2
        <5> QED
          BY <3>1, <5>1
      <4>2. PICK i \in 1..Len(q) : q[i] = b
        BY <1>0, <3>1, <3>2, <4>1
      <4> QED
        BY <1>5, <2>2, <4>2
    <3>3. CASE conns[b].l # l
      BY <3>1, <3>3
    <3> QED
      BY <3>2, <3>3
  <2> QED
    BY <2>1, <2>2
<1> QED
  BY <1>3, <1>6, <1>7, <1>8, <1>9, <1>10

(* A connection in no queue changes, and is still none that has to be.     *)
LEMMA UnqueuedClosed ==
    ASSUME EstInv, NEW c \in 1..Len(conns),
           Len(lis') = Len(lis), Len(conns') = Len(conns),
           \A m \in 1..Len(lis) : /\ lis'[m].incoming = lis[m].incoming
                                  /\ lis'[m].closer = lis[m].closer
                                  /\ lis'[m].closed = lis[m].closed,
           \A b \in 1..Len(conns) : b # c => conns'[b] = conns[b],
           \A m \in 1..Len(lis) : \A i \in 1..Len(lis[m].incoming) :
               lis[m].incoming[i] # c,
           conns'[c].l = conns[c].l, conns'[c].acceptor # "new"
    PROVE  ClosedOK' /\ QueuesOK' /\ QueuedOnce' /\ AllQueued'
<1>1. ClosedOK'
  BY DEF EstInv, ClosedOK
<1>2. QueuesOK'
  <2> SUFFICES ASSUME NEW m \in 1..Len(lis'), NEW i \in 1..Len(lis'[m].incoming)
               PROVE  LET b == lis'[m].incoming[i]
                      IN  /\ b \in 1..Len(conns') /\ conns'[b].l = m
                          /\ conns'[b].acceptor = "new" /\ conns'[b].dialer # "new"
                          /\ lis'[m].closer # "done"
    BY DEF QueuesOK
  <2>1. /\ m \in 1..Len(lis) /\ i \in 1..Len(lis[m].incoming)
        /\ lis'[m].incoming[i] = lis[m].incoming[i]
    OBVIOUS
  <2>2. PICK b : b = lis[m].incoming[i]
    OBVIOUS
  <2>3. /\ b \in 1..Len(conns) /\ conns[b].l = m /\ b # c
        /\ conns[b].acceptor = "new" /\ conns[b].dialer # "new"
        /\ lis[m].closer # "done"
    BY <2>1, <2>2 DEF EstInv, QueuesOK
  <2> QED
    BY <2>1, <2>2, <2>3
<1>3. QueuedOnce'
  BY DEF EstInv, QueuedOnce
<1>4. AllQueued'
  <2> SUFFICES ASSUME NEW b \in 1..Len(conns')
               PROVE  /\ conns'[b].l \in 1..Len(lis')
                      /\ conns'[b].acceptor = "new" /\ conns'[b].dialer # "new" =>
                            \E i \in 1..Len(lis'[conns'[b].l].incoming) :
                                lis'[conns'[b].l].incoming[i] = b
    BY DEF AllQueued
  <2>1. /\ conns[b].l \in 1..Len(lis)
        /\ conns[b].acceptor = "new" /\ conns[b].dialer # "new" =>
              \E i \in 1..Len(lis[conns[b].l].incoming) :
                  lis[conns[b].l].incoming[i] = b
    BY DEF EstInv, AllQueued
  <2>2. conns'[b].l = conns[b].l
    OBVIOUS
  <2>3. lis'[conns'[b].l].incoming = lis[conns[b].l].incoming
    BY <2>1, <2>2
  <2> QED
    BY <2>1, <2>2, <2>3
<1> QED
  BY <1>1, <1>2, <1>3, <1>4

(* A connection of its dialer's goes to the end of its listener's queue.   *)
LEMMA Enqueued ==
    ASSUME EstInv, NEW l \in 1..Len(lis), NEW c \in 1..Len(conns), c \in Nat,
           Len(lis') = Len(lis), Len(conns') = Len(conns), lis[l].closer # "done",
           lis'[l].incoming = Append(lis[l].incoming, c),
           lis'[l].closer = lis[l].closer, lis'[l].closed = lis[l].closed,
           \A m \in 1..Len(lis) : m # l => lis'[m] = lis[m],
           \A b \in 1..Len(conns) : b # c => conns'[b] = conns[b],
           \A m \in 1..Len(lis) : \A i \in 1..Len(lis[m].incoming) :
               lis[m].incoming[i] # c,
           conns'[c].l = l, conns'[c].acceptor = "new", conns'[c].dialer # "new"
    PROVE  ClosedOK' /\ QueuesOK' /\ QueuedOnce' /\ AllQueued'
<1>0. PICK q, z : q = lis[l].incoming /\ z = Append(q, c)
  OBVIOUS
<1>1. /\ Len(q) \in Nat /\ Len(z) = Len(q) + 1 /\ z[Len(q) + 1] = c
      /\ \A i \in 1..Len(q) : z[i] = q[i]
  <2>1. q \in Seq(Nat)
    BY <1>0, ListenerFields DEF EstInv
  <2> QED
    BY <1>0, <2>1, AppendProperties, LenProperties
<1>2. \A i \in 1..Len(z) : \/ i \in 1..Len(q) /\ z[i] = q[i] /\ z[i] # c
                           \/ i = Len(q) + 1 /\ z[i] = c
  BY <1>0, <1>1
<1>3. lis'[l].incoming = z
  BY <1>0
<1>4. ClosedOK'
  BY DEF EstInv, ClosedOK
<1>5. QueuedOnce'
  <2> SUFFICES ASSUME NEW m \in 1..Len(lis'), NEW i \in 1..Len(lis'[m].incoming),
                      NEW j \in 1..Len(lis'[m].incoming),
                      lis'[m].incoming[i] = lis'[m].incoming[j]
               PROVE  i = j
    BY DEF QueuedOnce
  <2>1. CASE m = l
    <3>1. i \in 1..Len(z) /\ j \in 1..Len(z) /\ z[i] = z[j]
      BY <1>3, <2>1
    <3>2. CASE i \in 1..Len(q) /\ j \in 1..Len(q)
      <4>1. q[i] = q[j]
        BY <1>1, <3>1, <3>2
      <4> QED
        BY <1>0, <3>2, <4>1 DEF EstInv, QueuedOnce
    <3> QED
      BY <1>2, <3>1, <3>2
  <2>2. CASE m # l
    <3>1. /\ m \in 1..Len(lis) /\ i \in 1..Len(lis[m].incoming)
          /\ j \in 1..Len(lis[m].incoming) /\ lis[m].incoming[i] = lis[m].incoming[j]
      BY <2>2
    <3> QED
      BY <3>1 DEF EstInv, QueuedOnce
  <2> QED
    BY <2>1, <2>2
<1>6. QueuesOK'
  <2> SUFFICES ASSUME NEW m \in 1..Len(lis'), NEW i \in 1..Len(lis'[m].incoming)
               PROVE  LET b == lis'[m].incoming[i]
                      IN  /\ b \in 1..Len(conns') /\ conns'[b].l = m
                          /\ conns'[b].acceptor = "new" /\ conns'[b].dialer # "new"
                          /\ lis'[m].closer # "done"
    BY DEF QueuesOK
  <2>1. PICK b : b = lis'[m].incoming[i]
    OBVIOUS
  <2>2. CASE b = c
    <3>1. ASSUME m # l PROVE FALSE
      <4>1. /\ m \in 1..Len(lis) /\ i \in 1..Len(lis[m].incoming)
            /\ lis[m].incoming[i] = c
        BY <2>1, <2>2, <3>1
      <4> QED
        BY <4>1
    <3> QED
      BY <2>1, <2>2, <3>1
  <2>3. CASE b # c
    <3>1. /\ i \in 1..Len(lis[m].incoming) /\ b = lis[m].incoming[i] /\ m \in 1..Len(lis)
          /\ lis'[m].closer = lis[m].closer
      <4>1. CASE m = l
        BY <1>0, <1>2, <1>3, <2>1, <2>3, <4>1
      <4>2. CASE m # l
        BY <2>1, <4>2
      <4> QED
        BY <4>1, <4>2
    <3>2. /\ b \in 1..Len(conns) /\ conns[b].l = m
          /\ conns[b].acceptor = "new" /\ conns[b].dialer # "new"
          /\ lis[m].closer # "done"
      BY <3>1 DEF EstInv, QueuesOK
    <3> QED
      BY <2>1, <2>3, <3>1, <3>2
  <2> QED
    BY <2>2, <2>3
<1>7. AllQueued'
  <2> SUFFICES ASSUME NEW b \in 1..Len(conns')
               PROVE  /\ conns'[b].l \in 1..Len(lis')
                      /\ conns'[b].acceptor = "new" /\ conns'[b].dialer # "new" =>
                            \E i \in 1..Len(lis'[conns'[b].l].incoming) :
                                lis'[conns'[b].l].incoming[i] = b
    BY DEF AllQueued
  <2>1. CASE b = c
    <3>1. Len(q) + 1 \in 1..Len(z)
      BY <1>1
    <3> QED
      BY <1>1, <1>3, <2>1, <3>1
  <2>2. CASE b # c
    <3>1. /\ conns'[b] = conns[b] /\ conns[b].l \in 1..Len(lis)
          /\ conns[b].acceptor = "new" /\ conns[b].dialer # "new" =>
                \E i \in 1..Len(lis[conns[b].l].incoming) :
                    lis[conns[b].l].incoming[i] = b
      BY <2>2 DEF EstInv, AllQueued
    <3>2. CASE conns[b].l = l
      <4>1. SUFFICES ASSUME conns[b].acceptor = "new", conns[b].dialer # "new"
                     PROVE  \E i \in 1..Len(z) : z[i] = b
        <5>1. lis'[conns'[b].l].incoming = z /\ conns'[b].l \in 1..Len(lis')
          BY <1>3, <3>1, <3>2
        <5> QED
          BY <3>1, <5>1
      <4>2. PICK i \in 1..Len(q) : q[i] = b
        BY <1>0, <3>1, <3>2, <4>1
      <4>3. i \in 1..Len(z)
        BY <1>1
      <4> QED
        BY <1>1, <4>2, <4>3
    <3>3. CASE conns[b].l # l
      BY <3>1, <3>3
    <3> QED
      BY <3>2, <3>3
  <2> QED
    BY <2>1, <2>2
<1> QED
  BY <1>4, <1>5, <1>6, <1>7

(* What Accept and Drain have in common.                                   *)
LEMMA InvHeadTaken ==
    ASSUME EstInv, NEW l \in 1..Len(lis), lis[l].incoming # <<>>,
           NEW c, c = Head(lis[l].incoming), NEW end \in {"open", "dropped"},
           NEW r \in ListenerStates, lis' = [lis EXCEPT ![l] = r],
           r.incoming = Tail(lis[l].incoming), r.reserved = lis[l].reserved,
           r.closed = lis[l].closed, r.closer # "done",
           r.closer = "none" <=> lis[l].closer = "none",
           conns' = [conns EXCEPT ![c].acceptor = end],
           UNCHANGED <<registry, book, nextOrdinal, partitions, targets, dials, lost>>
    PROVE  EstInv'
<1>1. Shapes
  BY DEF EstInv
<1>4. /\ lis' \in Seq(ListenerStates) /\ Len(lis') = Len(lis) /\ lis'[l] = r
      /\ \A m \in 1..Len(lis) : m # l => lis'[m] = lis[m]
  BY <1>1, ListenerPut
<1>5. c \in 1..Len(conns)
  BY HeadQueued
<1> DEFINE s == [conns[c] EXCEPT !.acceptor = end]
<1>6. /\ s \in ConnStates /\ s.l = conns[c].l /\ s.pair = conns[c].pair
      /\ s.dialer = conns[c].dialer /\ s.acceptor = end
  <2>1. end \in EndStates
    BY DEF EndStates
  <2> QED
    BY <1>1, <1>5, <2>1, ConnFields DEF ConnStates
<1>7. conns' = [conns EXCEPT ![c] = s]
  OBVIOUS
<1> HIDE DEF s
<1>8. /\ conns' \in Seq(ConnStates) /\ Len(conns') = Len(conns) /\ conns'[c] = s
      /\ \A b \in 1..Len(conns) : b # c => conns'[b] = conns[b]
  BY <1>1, <1>5, <1>6, <1>7, ConnPut
<1>9. end # "new" /\ end # "closed"
  OBVIOUS
<1>10. /\ conns[c].dialer # "new" /\ conns[c].acceptor = "new"
       /\ ClosedOK' /\ QueueFits' /\ QueuesOK' /\ QueuedOnce' /\ AllQueued'
  BY <1>4, <1>6, <1>8, <1>9, HeadTaken
<1>11. Shapes' /\ RegistryOK'
  BY <1>1, <1>4, <1>8 DEF EstInv, Shapes, RegistryOK, book
<1>12. DialsOK' /\ OrdinalsDistinct'
  <2>1. \A e \in Dialers : dials[e].at \in WithOrdinal => dials[e].ordinal # c
    BY <1>10, HandedOver
  <2> QED
    BY <1>4, <1>5, <1>8, <2>1, DialsKept
<1>13. ReservationsAccounted'
  <2>1. \A m : Holders(m)' = Holders(m)
    BY DEF Holders
  <2>2. \A m \in 1..Len(lis) : lis'[m].reserved = lis[m].reserved
    BY <1>4
  <2> QED
    BY <1>4, <2>1, <2>2 DEF EstInv, ReservationsAccounted
<1>14. TargetsOK' /\ PairsOK'
  <2>1. \A side \in Sides : \/ conns'[c][side] # "closed"
                            \/ conns'[c][side] = conns[c][side]
    BY <1>6, <1>8, <1>9 DEF Sides
  <2>2. \A side \in Sides : conns[c][side] = "closed" => conns'[c][side] = "closed"
    BY <1>6, <1>8, <1>10 DEF Sides
  <2> QED
    BY <1>5, <1>6, <1>8, <2>1, <2>2, TargetsKept, PairsKept
<1>15. Unregistered'
  BY UnregisteredKept
<1>16. WaitingIsPartitioned'
  BY DEF EstInv, WaitingIsPartitioned, Pair, LocalName
<1>17. LateOK'
  BY <1>8, <1>10, LateKept
<1> QED
  BY <1>10, <1>11, <1>12, <1>13, <1>14, <1>15, <1>16, <1>17 DEF EstInv

LEMMA InvAccept ==
    ASSUME EstInv, NEW l \in 1..Len(lis), Accept(l)
    PROVE  EstInv'
<1>1. PICK c : c = Head(lis[l].incoming)
  OBVIOUS
<1>2. PICK end \in {"open", "dropped"} : end = "open"
  OBVIOUS
<1>3. PICK q \in Seq(Nat) : q = Tail(lis[l].incoming)
  BY <1>1, HeadQueued DEF Accept
<1> DEFINE r == [lis[l] EXCEPT !.incoming = q]
<1>4. lis[l] \in ListenerStates /\ lis[l].closer # "done"
  <2>1. lis[l].incoming \in Seq(Nat) /\ lis[l].incoming # <<>>
    BY ListenerFields DEF EstInv, Accept
  <2>2. 1 \in 1..Len(lis[l].incoming)
    BY <2>1, EmptySeq
  <2> QED
    BY <2>2, ListenerFields DEF EstInv, QueuesOK
<1>5. /\ r \in ListenerStates /\ r.incoming = q /\ r.reserved = lis[l].reserved
      /\ r.closed = lis[l].closed /\ r.closer = lis[l].closer
  BY <1>4 DEF ListenerStates
<1>6. lis' = [lis EXCEPT ![l] = r]
  BY <1>3 DEF Accept
<1> HIDE DEF r
<1>7. r.incoming = Tail(lis[l].incoming) /\ r.closer # "done"
  BY <1>3, <1>4, <1>5
<1>8. /\ lis[l].incoming # <<>> /\ conns' = [conns EXCEPT ![c].acceptor = end]
      /\ UNCHANGED <<registry, book, nextOrdinal, partitions, targets, dials, lost>>
  BY <1>1, <1>2 DEF Accept
<1> QED
  BY <1>1, <1>5, <1>6, <1>7, <1>8, InvHeadTaken

LEMMA InvFill ==
    ASSUME EstInv, NEW d \in Dialers, Fill(d)
    PROVE  EstInv'
<1>0. PICK l, c : l = dials[d].l /\ c = dials[d].ordinal
  OBVIOUS
<1>1. /\ l \in 1..Len(lis) /\ Shapes /\ dials[d].at = "fill" /\ d \in Holders(l)
      /\ c \in 1..Len(conns) /\ conns[c].l = l
      /\ conns[c].dialer = "new" /\ conns[c].acceptor = "new"
  BY <1>0 DEF EstInv, DialsOK, Fill, WithListener, WithOrdinal, Holders, Holding
<1>2. /\ dials' \in [Dialers -> DialStates]
      /\ \/ dials'[d].at = "idle"
         \/ lis[l].closed /\ dials'[d].at = "discard" /\ dials'[d].ordinal = c
      /\ \A e \in Dialers : e # d => dials'[e] = dials[e]
  <2>1. CASE Returns(d)
    BY <1>1, <2>1, ReturnsFacts
  <2>2. CASE GoTo(d, "discard") /\ lis[l].closed
    <3>1. "discard" \in Steps
      BY DEF Steps
    <3> QED
      BY <1>0, <1>1, <2>2, <3>1, GoToFacts
  <2> QED
    BY <1>0, <2>1, <2>2 DEF Fill
<1>3. UNCHANGED <<registry, nextListenPort, nextOrdinal, partitions, lost>>
  BY DEF Fill, book
<1>4. /\ lis[l] \in ListenerStates /\ lis[l].incoming \in Seq(Nat)
      /\ lis[l].reserved \in Nat /\ c \in Nat /\ Len(lis[l].incoming) \in Nat
      /\ lis[l].closed \in BOOLEAN
  BY <1>1, ListenerFields, Lengths
<1>5. /\ Holders(l)' = Holders(l) \ {d}
      /\ \A m : m # l => Holders(m)' = Holders(m)
  BY <1>0, <1>2 DEF Holders, Holding
<1>6. /\ Cardinality(Holders(l)') = Cardinality(Holders(l)) - 1
      /\ Cardinality(Holders(l)) \in Nat \ {0} /\ lost[l] \in Nat
      /\ lis[l].reserved = Cardinality(Holders(l)) + lost[l]
  <2>1. /\ IsFiniteSet(Holders(l)) /\ Cardinality(Holders(l)) \in Nat
    BY HoldersFinite
  <2>2. Cardinality(Holders(l) \ {d}) = Cardinality(Holders(l)) - 1
    BY <1>1, <2>1, FS_RemoveElement
  <2>3. Cardinality(Holders(l)) # 0
    BY <1>1, <2>1, FS_EmptySet
  <2>4. lost[l] \in Nat
    BY <1>1, ElementOfSeq DEF Shapes
  <2> QED
    BY <1>1, <1>5, <2>1, <2>2, <2>3, <2>4 DEF EstInv, ReservationsAccounted
<1>7. PICK k \in Nat : k = lis[l].reserved - 1
  <2>1. lis[l].reserved \in Nat /\ lis[l].reserved # 0
    BY <1>4, <1>6
  <2> QED
    BY <2>1
<1>8. k = Cardinality(Holders(l)') + lost[l]
  <2>1. PICK h \in Nat : h = Cardinality(Holders(l))
    BY <1>6
  <2> QED
    BY <1>6, <1>7, <2>1
<1>9. \A e \in Dialers : \/ dials'[e].at \in {"idle", "discard"}
                         \/ /\ dials'[e] = dials[e]
                            /\ dials[e].at \in WithOrdinal => dials[e].ordinal # c
  BY <1>0, <1>1, <1>2 DEF EstInv, OrdinalsDistinct, WithOrdinal
<1>10. \A e \in Dialers : dials'[e] = dials[e] \/ dials'[e].at \in {"idle", "discard"}
  BY <1>2
<1>11. WaitingIsPartitioned'
  BY <1>2, <1>3, StillWaiting DEF EstInv
(* c is in no queue yet.                                                   *)
<1>12. \A m \in 1..Len(lis) : \A i \in 1..Len(lis[m].incoming) : lis[m].incoming[i] # c
  BY <1>1 DEF EstInv, QueuesOK
<1>13. CASE /\ lis[l].closed
            /\ lis' = [lis EXCEPT ![l].reserved = @ - 1]
            /\ conns' = [conns EXCEPT ![c].acceptor = "late"]
  <2> DEFINE r == [lis[l] EXCEPT !.reserved = k]
             s == [conns[c] EXCEPT !.acceptor = "late"]
  <2>1. /\ r \in ListenerStates /\ r.reserved = k /\ r.incoming = lis[l].incoming
        /\ r.closer = lis[l].closer /\ r.closed = lis[l].closed
    BY <1>4 DEF ListenerStates
  <2>2. lis' = [lis EXCEPT ![l] = r]
    BY <1>7, <1>13
  <2> HIDE DEF r
  <2>3. /\ lis' \in Seq(ListenerStates) /\ Len(lis') = Len(lis) /\ lis'[l] = r
        /\ \A m \in 1..Len(lis) : m # l => lis'[m] = lis[m]
    BY <1>1, <2>1, <2>2, ListenerPut
  <2>4. /\ s \in ConnStates /\ s.l = conns[c].l /\ s.pair = conns[c].pair
        /\ s.dialer = "new" /\ s.acceptor = "late"
    BY <1>1, ConnFields DEF ConnStates, EndStates
  <2>5. conns' = [conns EXCEPT ![c] = s]
    BY <1>13
  <2> HIDE DEF s
  <2>6. /\ conns' \in Seq(ConnStates) /\ Len(conns') = Len(conns) /\ conns'[c] = s
        /\ \A b \in 1..Len(conns) : b # c => conns'[b] = conns[b]
    BY <1>1, <2>4, <2>5, ConnPut
  <2>7. targets' = targets
    BY DEF Fill
  <2>8. Shapes' /\ RegistryOK'
    BY <1>1, <1>2, <1>3, <2>3, <2>6, <2>7 DEF EstInv, Shapes, RegistryOK
  <2>9. \A m \in 1..Len(lis) : /\ lis'[m].incoming = lis[m].incoming
                                /\ lis'[m].closer = lis[m].closer
                                /\ lis'[m].closed = lis[m].closed
    BY <2>1, <2>3
  <2>10. ClosedOK' /\ QueuesOK' /\ QueuedOnce' /\ AllQueued'
    BY <1>1, <1>12, <2>3, <2>4, <2>6, <2>9, UnqueuedClosed
  <2>11. QueueFits'
    <3>1. Len(lis[l].incoming) + lis[l].reserved <= Backlog
      BY <1>1 DEF EstInv, QueueFits
    <3>2. Len(lis[l].incoming) + k <= Backlog
      BY <1>4, <1>7, <3>1, BacklogAssumption
    <3> QED
      BY <2>1, <2>3, <3>2 DEF EstInv, QueueFits
  <2>12. ReservationsAccounted'
    BY <1>1, <1>3, <1>5, <1>8, <2>1, <2>3, SlotTaken
  <2>13. DialsOK' /\ OrdinalsDistinct'
    BY <1>1, <1>9, <2>3, <2>6, DialsKept
  <2>14. TargetsOK' /\ PairsOK'
    <3>1. \A side \in Sides : conns'[c][side] # "closed" /\ conns[c][side] # "closed"
      BY <1>1, <2>4, <2>6 DEF Sides
    <3> QED
      BY <1>1, <2>4, <2>6, <2>7, <3>1, TargetsKept, PairsKept
  <2>15. Unregistered'
    BY <1>10, <2>7, UnregisteredKept
  <2>16. LateOK'
    <3>1. \A e \in Dialers : dials[e].at = "discard" => dials[e].ordinal # c
      BY <1>1 DEF EstInv, LateOK
    <3> QED
      BY <1>1, <1>2, <2>4, <2>6, <3>1 DEF EstInv, LateOK
  <2> QED
    BY <1>11, <2>8, <2>10, <2>11, <2>12, <2>13, <2>14, <2>15, <2>16 DEF EstInv
<1>14. CASE /\ ~lis[l].closed
            /\ lis' = [lis EXCEPT ![l].reserved = @ - 1,
                                  ![l].incoming = Append(@, c)]
            /\ conns' = [conns EXCEPT ![c].dialer = "open"]
  <2> DEFINE q == Append(lis[l].incoming, c)
             r == [lis[l] EXCEPT !.reserved = k, !.incoming = q]
             s == [conns[c] EXCEPT !.dialer = "open"]
  <2>0. q \in Seq(Nat) /\ Len(q) = Len(lis[l].incoming) + 1
    BY <1>4, AppendProperties
  <2>1. /\ r \in ListenerStates /\ r.reserved = k /\ r.incoming = q
        /\ r.closer = lis[l].closer /\ r.closed = lis[l].closed
    <3> HIDE DEF q
    <3> QED
      BY <1>4, <2>0 DEF ListenerStates
  <2>2. lis' = [lis EXCEPT ![l] = r]
    <3>1. lis' = [lis EXCEPT ![l] = [lis[l] EXCEPT !.reserved = @ - 1,
                                                  !.incoming = Append(@, c)]]
      BY <1>14
    <3> QED
      BY <1>7, <3>1
  <2> HIDE DEF r
  <2>3. /\ lis' \in Seq(ListenerStates) /\ Len(lis') = Len(lis) /\ lis'[l] = r
        /\ \A m \in 1..Len(lis) : m # l => lis'[m] = lis[m]
    BY <1>1, <2>1, <2>2, ListenerPut
  <2>4. /\ s \in ConnStates /\ s.l = conns[c].l /\ s.pair = conns[c].pair
        /\ s.dialer = "open" /\ s.acceptor = "new"
    BY <1>1, ConnFields DEF ConnStates, EndStates
  <2>5. conns' = [conns EXCEPT ![c] = s]
    BY <1>14
  <2> HIDE DEF s
  <2>6. /\ conns' \in Seq(ConnStates) /\ Len(conns') = Len(conns) /\ conns'[c] = s
        /\ \A b \in 1..Len(conns) : b # c => conns'[b] = conns[b]
    BY <1>1, <2>4, <2>5, ConnPut
  <2>7. targets' = targets
    BY DEF Fill
  <2>8. Shapes' /\ RegistryOK'
    BY <1>1, <1>2, <1>3, <2>3, <2>6, <2>7 DEF EstInv, Shapes, RegistryOK
  <2>9. lis[l].closer = "none"
    BY <1>1, <1>14 DEF EstInv, ClosedOK
  <2>10. ClosedOK' /\ QueuesOK' /\ QueuedOnce' /\ AllQueued'
    BY <1>1, <1>4, <1>12, <2>1, <2>3, <2>4, <2>6, <2>9, Enqueued
  <2>11. QueueFits'
    <3>1. Len(lis[l].incoming) + lis[l].reserved <= Backlog
      BY <1>1 DEF EstInv, QueueFits
    <3>2. Len(q) + k <= Backlog
      BY <1>4, <1>7, <2>0, <3>1, BacklogAssumption
    <3> QED
      BY <2>1, <2>3, <3>2 DEF EstInv, QueueFits
  <2>12. ReservationsAccounted'
    BY <1>1, <1>3, <1>5, <1>8, <2>1, <2>3, SlotTaken
  <2>13. DialsOK' /\ OrdinalsDistinct'
    BY <1>1, <1>9, <2>3, <2>6, DialsKept
  <2>14. TargetsOK' /\ PairsOK'
    <3>1. \A side \in Sides : conns'[c][side] # "closed" /\ conns[c][side] # "closed"
      BY <1>1, <2>4, <2>6 DEF Sides
    <3> QED
      BY <1>1, <2>4, <2>6, <2>7, <3>1, TargetsKept, PairsKept
  <2>15. Unregistered'
    BY <1>10, <2>7, UnregisteredKept
  <2>16. LateOK'
    <3>1. \A e \in Dialers : dials'[e] = dials[e] \/ dials'[e].at = "idle"
      BY <1>2, <1>14
    <3> QED
      BY <1>1, <2>6, <3>1, LateKept
  <2> QED
    BY <1>11, <2>8, <2>10, <2>11, <2>12, <2>13, <2>14, <2>15, <2>16 DEF EstInv
<1> QED
  BY <1>0, <1>4, <1>13, <1>14 DEF Fill

(* The end that came too late is closed, and the dialer gets its own.      *)
LEMMA InvFillForgets ==
    ASSUME EstInv, NEW d \in Dialers, FillForgets(d)
    PROVE  EstInv'
<1>0. PICK c : c = dials[d].ordinal
  OBVIOUS
<1>1. /\ Shapes /\ dials[d].at = "discard" /\ c \in 1..Len(conns)
      /\ conns[c].dialer = "new" /\ conns[c].acceptor = "late"
  BY <1>0 DEF EstInv, LateOK, FillForgets
<1>2. /\ dials' \in [Dialers -> DialStates] /\ dials'[d].at = "idle"
      /\ \A e \in Dialers : e # d => dials'[e] = dials[e]
  BY <1>1, ReturnsFacts DEF FillForgets
<1>3. /\ UNCHANGED <<registry, lis, nextListenPort, nextOrdinal, partitions, lost>>
      /\ targets' = targets \ {<<conns[c].pair, c, "acceptor">>}
  BY <1>0 DEF FillForgets, Forget, book
<1> DEFINE s == [conns[c] EXCEPT !.dialer = "open", !.acceptor = "closed"]
<1>4. /\ s \in ConnStates /\ s.l = conns[c].l /\ s.pair = conns[c].pair
      /\ s.dialer = "open" /\ s.acceptor = "closed"
  BY <1>1, ConnFields DEF ConnStates, EndStates
<1>5. conns' = [conns EXCEPT ![c] = s]
  BY <1>0 DEF FillForgets
<1> HIDE DEF s
<1>6. /\ conns' \in Seq(ConnStates) /\ Len(conns') = Len(conns) /\ conns'[c] = s
      /\ \A b \in 1..Len(conns) : b # c => conns'[b] = conns[b]
  BY <1>1, <1>4, <1>5, ConnPut
<1>7. Shapes' /\ RegistryOK'
  BY <1>1, <1>2, <1>3, <1>6 DEF EstInv, Shapes, RegistryOK
<1>8. \A m \in 1..Len(lis) : \A i \in 1..Len(lis[m].incoming) : lis[m].incoming[i] # c
  BY <1>1 DEF EstInv, QueuesOK
<1>9. ClosedOK' /\ QueuesOK' /\ QueuedOnce' /\ AllQueued'
  BY <1>1, <1>3, <1>4, <1>6, <1>8, UnqueuedClosed
<1>10. QueueFits'
  BY <1>3 DEF EstInv, QueueFits
<1>11. DialsOK' /\ OrdinalsDistinct'
  <2>1. \A e \in Dialers : dials[e].at \in WithOrdinal => dials[e].ordinal # c
    BY <1>1, HandedOver
  <2> QED
    BY <1>1, <1>2, <1>3, <1>6, <2>1, DialsKept
<1>12. ReservationsAccounted'
  <2>1. \A m : Holders(m)' = Holders(m)
    BY <1>1, <1>2 DEF Holders, Holding
  <2> QED
    BY <1>3, <2>1 DEF EstInv, ReservationsAccounted
<1>13. TargetsOK' /\ PairsOK'
  <2>1. \A side \in Sides : \/ conns'[c][side] # "closed"
                            \/ <<conns[c].pair, c, side>> \notin targets'
    BY <1>3, <1>4, <1>6 DEF Sides
  <2>2. \A side \in Sides : conns[c][side] # "closed"
    BY <1>1 DEF Sides
  <2>3. \E side \in Sides : /\ targets' = targets \ {<<conns[c].pair, c, side>>}
                            /\ conns'[c][side] = "closed"
    BY <1>3, <1>4, <1>6 DEF Sides
  <2>4. targets' \subseteq targets
    BY <1>3
  <2>5. TargetsOK'
    BY <1>1, <1>4, <1>6, <2>1, <2>4, TargetsKept
  <2>6. PairsOK'
    BY <1>1, <1>4, <1>6, <2>2, <2>3, PairsKept
  <2> QED
    BY <2>5, <2>6
<1>14. Unregistered'
  BY <1>2, <1>3, UnregisteredKept
<1>15. LateOK'
  <2>1. \A e \in Dialers : e # d /\ dials[e].at = "discard" => dials[e].ordinal # c
    BY <1>0, <1>1 DEF EstInv, LateOK
  <2>2. \A e \in Dialers : dials'[e].at = "discard" => dials[e].ordinal # c
    BY <1>2, <2>1
  <2> QED
    BY <1>2, <1>6, <2>2, LateKept
<1>16. WaitingIsPartitioned'
  BY <1>2, <1>3, StillWaiting DEF EstInv
<1> QED
  BY <1>7, <1>9, <1>10, <1>11, <1>12, <1>13, <1>14, <1>15, <1>16 DEF EstInv

-----------------------------------------------------------------------------
(* Closing.                                                                *)

(* A step of one listener's Close that touches neither queue nor slots.    *)
LEMMA InvCloser ==
    ASSUME EstInv, NEW l \in 1..Len(lis), NEW r \in ListenerStates,
           lis' = [lis EXCEPT ![l] = r],
           r.incoming = lis[l].incoming, r.reserved = lis[l].reserved,
           r.closed <=> r.closer # "none",
           r.closer = "done" => r.incoming = <<>>,
           registry' \in [Peers \X Ports -> 0..Len(lis)],
           UNCHANGED <<book, nextOrdinal, partitions, targets, conns, dials, lost>>
    PROVE  EstInv'
<1>1. /\ lis' \in Seq(ListenerStates) /\ Len(lis') = Len(lis) /\ lis'[l] = r
      /\ \A m \in 1..Len(lis) : m # l => lis'[m] = lis[m]
  BY ListenerPut DEF EstInv
<1>2. \A m \in 1..Len(lis) : /\ lis'[m].incoming = lis[m].incoming
                             /\ lis'[m].reserved = lis[m].reserved
  BY <1>1
<1>3. UNCHANGED <<nextListenPort, nextOrdinal, partitions, targets, conns, dials, lost>>
  BY DEF book
<1>4. Shapes' /\ RegistryOK'
  BY <1>1, <1>3 DEF EstInv, Shapes, RegistryOK
<1>5. ClosedOK'
  BY <1>1 DEF EstInv, ClosedOK
<1>6. QueueFits' /\ QueuedOnce'
  BY <1>1, <1>2 DEF EstInv, QueueFits, QueuedOnce
<1>7. QueuesOK'
  <2> SUFFICES ASSUME NEW m \in 1..Len(lis'), NEW i \in 1..Len(lis'[m].incoming)
               PROVE  LET b == lis'[m].incoming[i]
                      IN  /\ b \in 1..Len(conns') /\ conns'[b].l = m
                          /\ conns'[b].acceptor = "new" /\ conns'[b].dialer # "new"
                          /\ lis'[m].closer # "done"
    BY DEF QueuesOK
  <2>1. PICK b : b = lis'[m].incoming[i]
    OBVIOUS
  <2>2. m \in 1..Len(lis) /\ i \in 1..Len(lis[m].incoming) /\ b = lis[m].incoming[i]
    BY <1>1, <1>2, <2>1
  <2>3. /\ b \in 1..Len(conns) /\ conns[b].l = m
        /\ conns[b].acceptor = "new" /\ conns[b].dialer # "new"
        /\ lis[m].closer # "done"
    BY <2>2 DEF EstInv, QueuesOK
  <2>4. lis'[m].closer # "done"
    <3>1. CASE m = l
      <4>1. r.incoming # <<>>
        BY <1>2, <2>2, <3>1
      <4> QED
        BY <1>1, <3>1, <4>1
    <3>2. CASE m # l
      BY <1>1, <2>2, <2>3, <3>2
    <3> QED
      BY <3>1, <3>2
  <2> QED
    BY <1>3, <2>1, <2>3, <2>4
<1>8. AllQueued'
  <2> SUFFICES ASSUME NEW b \in 1..Len(conns)
               PROVE  /\ conns[b].l \in 1..Len(lis')
                      /\ conns[b].acceptor = "new" /\ conns[b].dialer # "new" =>
                            \E i \in 1..Len(lis'[conns[b].l].incoming) :
                                lis'[conns[b].l].incoming[i] = b
    BY <1>3 DEF AllQueued
  <2>1. /\ conns[b].l \in 1..Len(lis)
        /\ conns[b].acceptor = "new" /\ conns[b].dialer # "new" =>
              \E i \in 1..Len(lis[conns[b].l].incoming) :
                  lis[conns[b].l].incoming[i] = b
    BY DEF EstInv, AllQueued
  <2>2. lis'[conns[b].l].incoming = lis[conns[b].l].incoming
    BY <1>2, <2>1
  <2> QED
    BY <1>1, <2>1, <2>2
<1>9. DialsOK' /\ OrdinalsDistinct'
  BY <1>1, <1>3 DEF EstInv, DialsOK, OrdinalsDistinct
<1>10. TargetsOK' /\ Unregistered'
  BY <1>3 DEF EstInv, TargetsOK, Unregistered
<1>11. ReservationsAccounted'
  <2>1. \A m : Holders(m)' = Holders(m)
    BY <1>3 DEF Holders
  <2> QED
    BY <1>1, <1>2, <1>3, <2>1 DEF EstInv, ReservationsAccounted
<1>12. WaitingIsPartitioned'
  BY <1>3 DEF EstInv, WaitingIsPartitioned, Pair, LocalName
<1>13. LateOK' /\ PairsOK'
  BY <1>3, ConnsKept
<1> QED
  BY <1>4, <1>5, <1>6, <1>7, <1>8, <1>9, <1>10, <1>11, <1>12, <1>13 DEF EstInv

LEMMA CloserMoves == /\ "deregister" \in CloserSteps
                     /\ "drain" \in CloserSteps /\ "discard" \in CloserSteps
                     /\ "done" \in CloserSteps
BY DEF CloserSteps

LEMMA InvCloseListener ==
    ASSUME EstInv, NEW l \in 1..Len(lis), CloseListener(l)
    PROVE  EstInv'
<1> DEFINE r == [lis[l] EXCEPT !.closed = TRUE, !.closer = "deregister"]
<1>1. lis[l] \in ListenerStates
  BY ListenerFields DEF EstInv
<1>2. /\ r \in ListenerStates /\ r.incoming = lis[l].incoming
      /\ r.reserved = lis[l].reserved /\ r.closed = TRUE /\ r.closer = "deregister"
  BY <1>1, CloserMoves DEF ListenerStates
<1>3. lis' = [lis EXCEPT ![l] = r]
  BY DEF CloseListener
<1> HIDE DEF r
<1>4. /\ registry' \in [Peers \X Ports -> 0..Len(lis)]
      /\ UNCHANGED <<book, nextOrdinal, partitions, targets, conns, dials, lost>>
  BY DEF CloseListener, EstInv, RegistryOK
<1> QED
  BY <1>2, <1>3, <1>4, InvCloser

LEMMA InvDeregister ==
    ASSUME EstInv, NEW l \in 1..Len(lis), Deregister(l)
    PROVE  EstInv'
<1> DEFINE r == [lis[l] EXCEPT !.closer = "drain"]
<1>1. lis[l] \in ListenerStates /\ Len(lis) \in Nat /\ lis[l].closed
  BY ListenerFields, Lengths DEF EstInv, ClosedOK, Deregister
<1>2. /\ r \in ListenerStates /\ r.incoming = lis[l].incoming
      /\ r.reserved = lis[l].reserved /\ r.closed = lis[l].closed /\ r.closer = "drain"
  BY <1>1, CloserMoves DEF ListenerStates
<1>3. lis' = [lis EXCEPT ![l] = r]
  BY DEF Deregister
<1> HIDE DEF r
<1>4. /\ registry' \in [Peers \X Ports -> 0..Len(lis)]
      /\ UNCHANGED <<book, nextOrdinal, partitions, targets, conns, dials, lost>>
  <2>1. 0 \in 0..Len(lis)
    BY <1>1
  <2> QED
    BY <2>1 DEF Deregister, EstInv, RegistryOK
<1> QED
  BY <1>1, <1>2, <1>3, <1>4, InvCloser

LEMMA InvDrain ==
    ASSUME EstInv, NEW l \in 1..Len(lis), Drain(l)
    PROVE  EstInv'
<1>1. CASE lis[l].incoming = <<>>
  <2> DEFINE r == [lis[l] EXCEPT !.closer = "done"]
  <2>1. lis[l] \in ListenerStates /\ lis[l].closed
    BY ListenerFields DEF EstInv, ClosedOK, Drain
  <2>2. /\ r \in ListenerStates /\ r.incoming = lis[l].incoming
        /\ r.reserved = lis[l].reserved /\ r.closed = lis[l].closed /\ r.closer = "done"
    BY <2>1, CloserMoves DEF ListenerStates
  <2>3. lis' = [lis EXCEPT ![l] = r]
    BY <1>1 DEF Drain
  <2> HIDE DEF r
  <2>4. /\ registry' \in [Peers \X Ports -> 0..Len(lis)]
        /\ UNCHANGED <<book, nextOrdinal, partitions, targets, conns, dials, lost>>
    BY <1>1 DEF Drain, EstInv, RegistryOK
  <2> QED
    BY <1>1, <2>1, <2>2, <2>3, <2>4, InvCloser
<1>2. CASE lis[l].incoming # <<>>
  <2>1. PICK c : c = Head(lis[l].incoming)
    OBVIOUS
  <2>2. PICK end \in {"open", "dropped"} : end = "dropped"
    OBVIOUS
  <2>3. PICK q \in Seq(Nat) : q = Tail(lis[l].incoming)
    BY <1>2, <2>1, HeadQueued
  <2> DEFINE r == [lis[l] EXCEPT !.incoming = q, !.closer = "discard"]
  <2>4. lis[l] \in ListenerStates /\ lis[l].closer = "drain"
    BY ListenerFields DEF EstInv, Drain
  <2>5. /\ r \in ListenerStates /\ r.incoming = q /\ r.reserved = lis[l].reserved
        /\ r.closed = lis[l].closed /\ r.closer = "discard"
    BY <2>4, CloserMoves DEF ListenerStates
  <2>6. /\ lis' = [lis EXCEPT ![l] = r]
        /\ conns' = [conns EXCEPT ![c].acceptor = end]
        /\ UNCHANGED <<registry, book, nextOrdinal, partitions, targets, dials, lost>>
    BY <1>2, <2>1, <2>2, <2>3 DEF Drain
  <2> HIDE DEF r
  <2>7. r.closer # "done" /\ (r.closer = "none" <=> lis[l].closer = "none")
    BY <2>4, <2>5
  <2> QED
    BY <1>2, <2>1, <2>2, <2>3, <2>5, <2>6, <2>7, InvHeadTaken
<1> QED
  BY <1>1, <1>2

(* A step of the Close of one end, by its holder or the listener's Close.  *)
LEMMA InvEndMoves ==
    ASSUME EstInv, NEW c \in 1..Len(conns), NEW side \in Sides,
           NEW to \in {"closing", "closed"},
           conns[c][side] \in {"open", "closing", "dropped"},
           conns' = [conns EXCEPT ![c][side] = to],
           \/ to = "closing" /\ targets' = targets
           \/ to = "closed" /\ targets' = targets \ {<<conns[c].pair, c, side>>},
           lis' \in Seq(ListenerStates), Len(lis') = Len(lis),
           \A m \in 1..Len(lis) :
               /\ lis'[m].incoming = lis[m].incoming
               /\ lis'[m].reserved = lis[m].reserved
               /\ lis'[m].closed = lis[m].closed
               /\ lis'[m].closer = "none" <=> lis[m].closer = "none"
               /\ lis'[m].closer = "done" <=> lis[m].closer = "done",
           UNCHANGED <<registry, book, nextOrdinal, partitions, dials, lost>>
    PROVE  EstInv'
<1> DEFINE s == [conns[c] EXCEPT ![side] = to]
<1>1. Shapes /\ conns[c] \in ConnStates /\ to \in EndStates
  BY ConnFields DEF EstInv, EndStates
<1>2. /\ s \in ConnStates /\ s.l = conns[c].l /\ s.pair = conns[c].pair
      /\ s[side] = to /\ \A o \in Sides : o # side => s[o] = conns[c][o]
  BY <1>1 DEF ConnStates, Sides
<1>3. conns' = [conns EXCEPT ![c] = s]
  OBVIOUS
<1> HIDE DEF s
<1>4. /\ conns' \in Seq(ConnStates) /\ Len(conns') = Len(conns) /\ conns'[c] = s
      /\ \A b \in 1..Len(conns) : b # c => conns'[b] = conns[b]
  BY <1>1, <1>2, <1>3, ConnPut
<1>5. /\ UNCHANGED <<registry, nextListenPort, nextOrdinal, partitions, dials, lost>>
      /\ targets' \subseteq targets
  BY DEF book
<1>6. Shapes' /\ RegistryOK'
  BY <1>1, <1>4, <1>5 DEF EstInv, Shapes, RegistryOK
<1>7. /\ ClosedOK' /\ QueueFits' /\ QueuedOnce'
  <2>1. ClosedOK'
    BY Zenon DEF EstInv, ClosedOK
  <2>2. QueueFits'
    BY Zenon DEF EstInv, QueueFits
  <2>3. QueuedOnce'
    BY Zenon DEF EstInv, QueuedOnce
  <2> QED
    BY <2>1, <2>2, <2>3
<1>8. /\ (s.acceptor = "new" <=> conns[c].acceptor = "new")
      /\ (s.dialer = "new" <=> conns[c].dialer = "new")
  BY <1>2 DEF Sides
<1>9. \A b \in 1..Len(conns) : /\ conns'[b].l = conns[b].l
                               /\ (conns'[b].acceptor = "new" <=> conns[b].acceptor = "new")
                               /\ (conns'[b].dialer = "new" <=> conns[b].dialer = "new")
  BY <1>2, <1>4, <1>8
<1>10. QueuesOK'
  <2> SUFFICES ASSUME NEW m \in 1..Len(lis'), NEW i \in 1..Len(lis'[m].incoming)
               PROVE  LET b == lis'[m].incoming[i]
                      IN  /\ b \in 1..Len(conns') /\ conns'[b].l = m
                          /\ conns'[b].acceptor = "new" /\ conns'[b].dialer # "new"
                          /\ lis'[m].closer # "done"
    BY DEF QueuesOK
  <2>1. PICK b : b = lis[m].incoming[i]
    OBVIOUS
  <2>2. /\ m \in 1..Len(lis) /\ i \in 1..Len(lis[m].incoming)
        /\ lis'[m].incoming[i] = b
    BY <2>1
  <2>3. /\ b \in 1..Len(conns) /\ conns[b].l = m
        /\ conns[b].acceptor = "new" /\ conns[b].dialer # "new"
        /\ lis[m].closer # "done"
    BY <2>1, <2>2 DEF EstInv, QueuesOK
  <2> QED
    BY <1>4, <1>9, <2>2, <2>3
<1>11. AllQueued'
  <2> SUFFICES ASSUME NEW b \in 1..Len(conns')
               PROVE  /\ conns'[b].l \in 1..Len(lis')
                      /\ conns'[b].acceptor = "new" /\ conns'[b].dialer # "new" =>
                            \E i \in 1..Len(lis'[conns'[b].l].incoming) :
                                lis'[conns'[b].l].incoming[i] = b
    BY DEF AllQueued
  <2>1. /\ conns[b].l \in 1..Len(lis)
        /\ conns[b].acceptor = "new" /\ conns[b].dialer # "new" =>
              \E i \in 1..Len(lis[conns[b].l].incoming) :
                  lis[conns[b].l].incoming[i] = b
    BY <1>4 DEF EstInv, AllQueued
  <2>2. lis'[conns'[b].l].incoming = lis[conns[b].l].incoming
    BY <1>4, <1>9, <2>1
  <2> QED
    BY <1>4, <1>9, <2>1, <2>2
<1>12. DialsOK' /\ OrdinalsDistinct'
  <2>1. conns[c].dialer # "new" \/ conns[c].acceptor # "new"
    BY DEF Sides
  <2>2. \A e \in Dialers : dials[e].at \in WithOrdinal => dials[e].ordinal # c
    BY <2>1, HandedOver
  <2> QED
    BY <1>4, <1>5, <2>2, DialsKept
<1>13. ReservationsAccounted'
  <2>1. \A m : Holders(m)' = Holders(m)
    BY <1>5 DEF Holders
  <2> QED
    BY <1>5, <2>1 DEF EstInv, ReservationsAccounted
<1>14. TargetsOK'
  <2>1. \A o \in Sides : \/ conns'[c][o] # "closed"
                         \/ <<conns[c].pair, c, o>> \notin targets'
                         \/ conns'[c][o] = conns[c][o]
    <3> SUFFICES ASSUME NEW o \in Sides
                 PROVE  \/ conns'[c][o] # "closed"
                        \/ <<conns[c].pair, c, o>> \notin targets'
                        \/ conns'[c][o] = conns[c][o]
      OBVIOUS
    <3>1. CASE o = side
      BY <1>2, <1>4, <3>1
    <3>2. CASE o # side
      BY <1>2, <1>4, <3>2
    <3> QED
      BY <3>1, <3>2
  <2> QED
    BY <1>2, <1>4, <1>5, <2>1, TargetsKept
<1>15. PairsOK'
  <2>1. \A o \in Sides : conns[c][o] = "closed" => conns'[c][o] = "closed"
    BY <1>2, <1>4
  <2>2. \/ targets' = targets
        \/ \E o \in Sides : /\ targets' = targets \ {<<conns[c].pair, c, o>>}
                             /\ conns'[c][o] = "closed"
    BY <1>2, <1>4
  <2> QED
    BY <1>2, <1>4, <2>1, <2>2, PairsKept
<1>16. Unregistered'
  BY <1>5, UnregisteredKept
<1>17. WaitingIsPartitioned'
  BY <1>5 DEF EstInv, WaitingIsPartitioned, Pair, LocalName
<1>18. LateOK'
  <2>1. ~(conns[c].dialer = "new" /\ conns[c].acceptor = "late")
    BY DEF Sides
  <2> QED
    BY <1>4, <1>5, <2>1, LateKept
<1> QED
  BY <1>6, <1>7, <1>10, <1>11, <1>12, <1>13, <1>14, <1>15, <1>16, <1>17, <1>18
     DEF EstInv

LEMMA InvCloseConn ==
    ASSUME EstInv, NEW c \in 1..Len(conns), NEW side \in Sides, CloseConn(c, side)
    PROVE  EstInv'
<1>1. PICK to \in {"closing", "closed"} : to = "closing"
  OBVIOUS
<1>2. lis \in Seq(ListenerStates)
  BY DEF EstInv, Shapes
<1> QED
  BY <1>1, <1>2, InvEndMoves DEF CloseConn

LEMMA InvForgetConn ==
    ASSUME EstInv, NEW c \in 1..Len(conns), NEW side \in Sides, ForgetConn(c, side)
    PROVE  EstInv'
<1>1. PICK to \in {"closing", "closed"} : to = "closed"
  OBVIOUS
<1>2. lis \in Seq(ListenerStates)
  BY DEF EstInv, Shapes
<1> QED
  BY <1>1, <1>2, InvEndMoves DEF ForgetConn, Forget

LEMMA InvDrainForgets ==
    ASSUME EstInv, NEW l \in 1..Len(lis), DrainForgets(l)
    PROVE  EstInv'
<1>1. PICK c \in 1..Len(conns) :
         /\ conns[c].acceptor = "dropped"
         /\ conns' = [conns EXCEPT ![c].acceptor = "closed"]
         /\ Forget(c, "acceptor")
  BY DEF DrainForgets
<1>2. PICK to \in {"closing", "closed"}, side \in Sides :
         to = "closed" /\ side = "acceptor"
  BY DEF Sides
<1> DEFINE r == [lis[l] EXCEPT !.closer = "drain"]
<1>3. Shapes /\ lis[l] \in ListenerStates /\ lis[l].closer = "discard"
  BY ListenerFields DEF EstInv, DrainForgets
<1>4. /\ r \in ListenerStates /\ r.incoming = lis[l].incoming
      /\ r.reserved = lis[l].reserved /\ r.closed = lis[l].closed /\ r.closer = "drain"
  BY <1>3, CloserMoves DEF ListenerStates
<1>5. lis' = [lis EXCEPT ![l] = r]
  BY DEF DrainForgets
<1> HIDE DEF r
<1>6. /\ lis' \in Seq(ListenerStates) /\ Len(lis') = Len(lis) /\ lis'[l] = r
      /\ \A m \in 1..Len(lis) : m # l => lis'[m] = lis[m]
  BY <1>3, <1>4, <1>5, ListenerPut
<1>7. \A m \in 1..Len(lis) :
         /\ lis'[m].incoming = lis[m].incoming
         /\ lis'[m].reserved = lis[m].reserved
         /\ lis'[m].closed = lis[m].closed
         /\ lis'[m].closer = "none" <=> lis[m].closer = "none"
         /\ lis'[m].closer = "done" <=> lis[m].closer = "done"
  BY <1>3, <1>4, <1>6
<1>8. /\ conns[c][side] = "dropped" /\ conns' = [conns EXCEPT ![c][side] = to]
      /\ targets' = targets \ {<<conns[c].pair, c, side>>}
  BY <1>1, <1>2 DEF Forget
<1>9. UNCHANGED <<registry, book, nextOrdinal, partitions, dials, lost>>
  BY DEF DrainForgets
<1> QED
  BY <1>2, <1>6, <1>7, <1>8, <1>9, InvEndMoves

LEMMA InvReset ==
    ASSUME EstInv, NEW pair, Reset(pair)
    PROVE  EstInv'
<1>1. /\ targets' \subseteq targets
      /\ UNCHANGED <<registry, lis, nextListenPort, nextOrdinal, partitions, conns,
                     dials, lost>>
  BY DEF Reset, book
<1>2. Shapes' /\ RegistryOK'
  BY <1>1 DEF EstInv, Shapes, RegistryOK
<1>3. ClosedOK' /\ QueueFits' /\ QueuedOnce'
  BY <1>1 DEF EstInv, ClosedOK, QueueFits, QueuedOnce
<1>4. QueuesOK' /\ AllQueued'
  BY <1>1 DEF EstInv, QueuesOK, AllQueued
<1>5. DialsOK' /\ OrdinalsDistinct' /\ WaitingIsPartitioned'
  BY <1>1 DEF EstInv, DialsOK, OrdinalsDistinct, WaitingIsPartitioned, Pair, LocalName
<1>6. TargetsOK' /\ Unregistered'
  BY <1>1 DEF EstInv, TargetsOK, Unregistered
<1>7. ReservationsAccounted'
  <2>1. \A m : Holders(m)' = Holders(m)
    BY <1>1 DEF Holders
  <2> QED
    BY <1>1, <2>1 DEF EstInv, ReservationsAccounted
<1>8. LateOK'
  BY <1>1 DEF EstInv, LateOK
<1>9. PairsOK'
  <2>1. \A t : t \in targets' <=> t \in targets /\ t[1] # pair
    BY DEF Reset
  <2>2. ASSUME NEW c \in 1..Len(conns), NEW side
        PROVE  <<conns[c].pair, c, side>> \in targets' <=>
                 <<conns[c].pair, c, side>> \in targets /\ conns[c].pair # pair
    BY <2>1
  <2> QED
    BY <1>1, <2>2 DEF EstInv, PairsOK
<1> QED
  BY <1>2, <1>3, <1>4, <1>5, <1>6, <1>7, <1>8, <1>9 DEF EstInv

-----------------------------------------------------------------------------
(* Listen.                                                                 *)

(* The rotation stays among the ports it is for.                           *)
LEMMA RotateInRange ==
    ASSUME NEW port \in ListenPortBase..MaxPort, NEW steps \in Nat
    PROVE  Rotate(port, steps) \in ListenPortBase..MaxPort
<1>1. PICK n, a : n = MaxPort - ListenPortBase + 1 /\ a = port - ListenPortBase + steps
  OBVIOUS
<1>2. n \in Nat \ {0} /\ a \in Nat
  BY <1>1, PortAssumption
<1>3. a % n \in 0..(n - 1)
  BY <1>2
<1>4. Rotate(port, steps) = ListenPortBase + (a % n)
  BY <1>1 DEF Rotate
<1> QED
  BY <1>1, <1>2, <1>3, <1>4, PortAssumption

LEMMA InvBind ==
    ASSUME EstInv, NEW peer \in Peers, NEW port \in Ports, NEW network \in Networks,
           Bind(peer, port, network), nextListenPort' \in ListenPortBase..MaxPort
    PROVE  EstInv'
<1>1. UNCHANGED <<nextOrdinal, partitions, targets, conns, dials>>
  BY DEF Bind
<1>2. WaitingIsPartitioned'
  BY <1>1 DEF EstInv, WaitingIsPartitioned, Pair, LocalName
<1>3. CASE UNCHANGED <<registry, lis, lost>>
  <2>1. \A d \in Dialers : Light(d)
    BY <1>1 DEF Light
  <2> QED
    BY <1>1, <1>2, <1>3, <2>1, LightStep DEF EstInv, Shapes, RegistryOK
<1>4. CASE /\ lis' = Append(lis, [addr |-> <<peer, port>>, network |-> network,
                                  incoming |-> <<>>, reserved |-> 0,
                                  closed |-> FALSE, closer |-> "none"])
           /\ registry' = [registry EXCEPT ![<<peer, port>>] = Len(lis) + 1]
           /\ lost' = Append(lost, 0)
  <2> DEFINE r == [addr |-> <<peer, port>>, network |-> network,
                   incoming |-> <<>>, reserved |-> 0,
                   closed |-> FALSE, closer |-> "none"]
  <2>0. PICK n : n = Len(lis) + 1
    OBVIOUS
  <2>1. /\ r \in ListenerStates /\ r.incoming = <<>> /\ r.reserved = 0
        /\ r.closed = FALSE /\ r.closer = "none"
    <3>1. <<>> \in Seq(Nat) /\ "none" \in CloserSteps /\ <<peer, port>> \in Peers \X Ports
      BY EmptySeq DEF CloserSteps
    <3> QED
      BY <3>1 DEF ListenerStates
  <2>2. lis' = Append(lis, r)
    BY <1>4
  <2> HIDE DEF r
  <2>3. Shapes /\ Len(lis) \in Nat /\ n \in Nat /\ Len(lost) = Len(lis)
    BY <2>0, Lengths DEF EstInv, Shapes
  <2>4. /\ lis' \in Seq(ListenerStates) /\ Len(lis') = n /\ lis'[n] = r
        /\ \A m \in 1..Len(lis) : lis'[m] = lis[m]
    BY <2>0, <2>1, <2>2, <2>3, AppendProperties DEF Shapes
  <2>5. /\ lost' \in Seq(Nat) /\ Len(lost') = n /\ lost'[n] = 0
        /\ \A m \in 1..Len(lis) : lost'[m] = lost[m]
    BY <1>4, <2>0, <2>3, AppendProperties DEF Shapes
  <2>6. /\ n \in 1..Len(lis') /\ \A m \in 1..Len(lis) : m \in 1..Len(lis') /\ m # n
        /\ \A m \in 1..Len(lis') : m \in 1..Len(lis) \/ m = n
    BY <2>0, <2>3, <2>4
  <2>7. Shapes'
    BY <1>1, <2>3, <2>4, <2>5 DEF Shapes
  <2>8. RegistryOK'
    <3>1. n \in 0..Len(lis') /\ 0..Len(lis) \subseteq 0..Len(lis')
      BY <2>0, <2>3, <2>4
    <3>2. <<peer, port>> \in Peers \X Ports
      OBVIOUS
    <3>3. registry' \in [Peers \X Ports -> 0..Len(lis')]
      BY <1>4, <2>0, <3>1, <3>2 DEF EstInv, RegistryOK
    <3> QED
      BY <1>1, <3>3 DEF EstInv, RegistryOK
  <2>9. Len(r.incoming) = 0
    BY <2>1, EmptySeq
  <2>10. ClosedOK'
    BY <2>1, <2>4, <2>6 DEF EstInv, ClosedOK
  <2>11. QueueFits'
    BY <2>1, <2>4, <2>6, <2>9, BacklogAssumption DEF EstInv, QueueFits
  <2>12. QueuedOnce'
    BY <2>4, <2>6, <2>9 DEF EstInv, QueuedOnce
  <2>13. QueuesOK'
    <3> SUFFICES ASSUME NEW m \in 1..Len(lis'), NEW i \in 1..Len(lis'[m].incoming)
                 PROVE  LET b == lis'[m].incoming[i]
                        IN  /\ b \in 1..Len(conns) /\ conns[b].l = m
                            /\ conns[b].acceptor = "new" /\ conns[b].dialer # "new"
                            /\ lis'[m].closer # "done"
      BY <1>1 DEF QueuesOK
    <3>1. m # n
      BY <2>4, <2>9
    <3>2. m \in 1..Len(lis) /\ lis'[m] = lis[m]
      BY <2>4, <2>6, <3>1
    <3> QED
      BY <3>2 DEF EstInv, QueuesOK
  <2>14. AllQueued'
    <3> SUFFICES ASSUME NEW b \in 1..Len(conns)
                 PROVE  /\ conns[b].l \in 1..Len(lis')
                        /\ conns[b].acceptor = "new" /\ conns[b].dialer # "new" =>
                              \E i \in 1..Len(lis'[conns[b].l].incoming) :
                                  lis'[conns[b].l].incoming[i] = b
      BY <1>1 DEF AllQueued
    <3>1. /\ conns[b].l \in 1..Len(lis)
          /\ conns[b].acceptor = "new" /\ conns[b].dialer # "new" =>
                \E i \in 1..Len(lis[conns[b].l].incoming) :
                    lis[conns[b].l].incoming[i] = b
      BY DEF EstInv, AllQueued
    <3>2. lis'[conns[b].l] = lis[conns[b].l]
      BY <2>4, <3>1
    <3> QED
      BY <2>6, <3>1, <3>2
  <2>15. DialsOK' /\ OrdinalsDistinct'
    BY <1>1, <2>6 DEF EstInv, DialsOK, OrdinalsDistinct
  <2>16. TargetsOK' /\ Unregistered'
    BY <1>1 DEF EstInv, TargetsOK, Unregistered
  <2>17. ReservationsAccounted'
    <3>1. \A m : Holders(m)' = Holders(m)
      BY <1>1 DEF Holders
    <3>2. Holders(n) = {}
      BY <2>6 DEF EstInv, DialsOK, Holders, WithListener
    <3>3. lis'[n].reserved = Cardinality(Holders(n)') + lost'[n]
      <4>1. Holders(n)' = {}
        BY <3>1, <3>2
      <4>2. Cardinality(Holders(n)') = 0
        BY <4>1, FS_EmptySet
      <4> QED
        BY <2>1, <2>4, <2>5, <4>2
    <3>4. ASSUME NEW m \in 1..Len(lis)
          PROVE  lis'[m].reserved = Cardinality(Holders(m)') + lost'[m]
      BY <2>4, <2>5, <3>1 DEF EstInv, ReservationsAccounted
    <3> QED
      BY <2>6, <3>3, <3>4 DEF ReservationsAccounted
  <2>18. LateOK' /\ PairsOK'
    BY <1>1, ConnsKept
  <2> QED
    BY <1>2, <2>7, <2>8, <2>10, <2>11, <2>12, <2>13, <2>14, <2>15, <2>16, <2>17,
       <2>18 DEF EstInv
<1> QED
  BY <1>3, <1>4 DEF Bind

LEMMA InvListen ==
    ASSUME EstInv, Listen
    PROVE  EstInv'
<1>1. PICK peer \in Peers, network \in Networks :
           \/ \E port \in Ports : ListenOn(peer, port, network)
           \/ ListenAnywhere(peer, network)
  BY DEF Listen
<1>2. nextListenPort \in ListenPortBase..MaxPort
  BY DEF EstInv, RegistryOK
<1>3. CASE \E port \in Ports : ListenOn(peer, port, network)
  <2>1. PICK port \in Ports : ListenOn(peer, port, network)
    BY <1>3
  <2>2. Bind(peer, port, network) /\ nextListenPort' \in ListenPortBase..MaxPort
    BY <1>2, <2>1 DEF ListenOn
  <2> QED
    BY <2>2, InvBind
<1>4. CASE ListenAnywhere(peer, network)
  <2>1. PICK steps \in 0..(MaxPort - ListenPortBase) :
             /\ nextListenPort' = Rotate(nextListenPort, steps + 1)
             /\ Bind(peer, Rotate(nextListenPort, steps), network)
    BY <1>4 DEF ListenAnywhere
  <2>2. steps \in Nat /\ steps + 1 \in Nat
    BY <2>1
  <2>3. /\ Rotate(nextListenPort, steps + 1) \in ListenPortBase..MaxPort
        /\ Rotate(nextListenPort, steps) \in ListenPortBase..MaxPort
    BY <1>2, <2>2, RotateInRange
  <2>4. PICK port : port = Rotate(nextListenPort, steps)
    OBVIOUS
  <2>5. port \in Ports
    BY <2>3, <2>4, PortAssumption DEF Ports
  <2> QED
    BY <2>1, <2>3, <2>4, <2>5, InvBind
<1> QED
  BY <1>1, <1>3, <1>4

-----------------------------------------------------------------------------
(* The invariant, and what follows from it.                                *)

LEMMA InvInit ==
    ASSUME EstInit
    PROVE  EstInv
<1>1. /\ lis = <<>> /\ conns = <<>> /\ lost = <<>> /\ targets = {} /\ partitions = {}
      /\ nextOrdinal = 0 /\ Len(lis) = 0 /\ Len(conns) = 0 /\ Len(lost) = 0
  BY EmptySeq DEF EstInit
<1>2. dials \in [Dialers -> DialStates] /\ \A d \in Dialers : dials[d].at = "idle"
  BY NoDialFacts DEF EstInit
<1>3. Shapes
  BY <1>1, <1>2, EmptySeq DEF Shapes
<1>4. RegistryOK
  BY <1>1, PortAssumption DEF EstInit, RegistryOK
<1>5. ClosedOK /\ QueueFits /\ ReservationsAccounted /\ QueuesOK /\ QueuedOnce /\ AllQueued
  BY <1>1 DEF ClosedOK, QueueFits, ReservationsAccounted, QueuesOK, QueuedOnce, AllQueued
<1>6. DialsOK /\ OrdinalsDistinct /\ TargetsOK /\ Unregistered /\ WaitingIsPartitioned
  BY <1>1, <1>2 DEF DialsOK, OrdinalsDistinct, TargetsOK, Unregistered,
                    WaitingIsPartitioned, WithListener, WithOrdinal, Holding
<1>7. LateOK /\ PairsOK
  BY <1>1, <1>2 DEF LateOK, PairsOK
<1> QED
  BY <1>3, <1>4, <1>5, <1>6, <1>7 DEF EstInv

LEMMA InvNext ==
    ASSUME EstInv, [EstNext]_estVars
    PROVE  EstInv'
<1>1. CASE Listen
  BY <1>1, InvListen
<1>2. ASSUME NEW d \in Dialers, Dial(d) \/ Cancel(d) \/ DialStep(d)
      PROVE  EstInv'
  BY <1>2, InvDial, InvCancel, InvCheckPartition, InvLookup, InvReserve,
     InvTakeOrdinal, InvAssignAddress, InvRegisterReset, InvFill, InvFillForgets
     DEF DialStep
<1>3. ASSUME NEW l \in 1..Len(lis),
             Accept(l) \/ CloseListener(l) \/ CloserStep(l)
      PROVE  EstInv'
  BY <1>3, InvAccept, InvCloseListener, InvDeregister, InvDrain, InvDrainForgets
     DEF CloserStep
<1>4. ASSUME NEW c \in 1..Len(conns), NEW side \in Sides,
             CloseConn(c, side) \/ ForgetConn(c, side)
      PROVE  EstInv'
  BY <1>4, InvCloseConn, InvForgetConn
<1>5. ASSUME NEW pair \in Pairs, Partition(pair) \/ Heal(pair)
      PROVE  EstInv'
  <2>1. WakeDials /\ partitions' \subseteq Pairs
    BY <1>5 DEF Partition, Heal, EstInv, RegistryOK
  <2>2. UNCHANGED <<registry, lis, book, nextOrdinal, targets, conns, lost>>
    BY <1>5 DEF Partition, Heal
  <2> QED
    BY <2>1, <2>2, InvWake
<1>6. ASSUME NEW pair \in Pairs, Reset(pair)
      PROVE  EstInv'
  BY <1>6, InvReset
<1>7. CASE UNCHANGED estVars
  <2>1. /\ UNCHANGED <<registry, lis, nextOrdinal, targets, conns, lost, dials>>
        /\ partitions' = partitions /\ nextListenPort' = nextListenPort
    BY <1>7 DEF estVars, book
  <2>2. \A d \in Dialers : Light(d)
    BY <2>1 DEF Light
  <2>3. WaitingIsPartitioned'
    BY <2>1 DEF EstInv, WaitingIsPartitioned, Pair, LocalName
  <2> QED
    BY <2>1, <2>2, <2>3, LightStep DEF EstInv, Shapes, RegistryOK
<1> QED
  BY <1>1, <1>2, <1>3, <1>4, <1>5, <1>6, <1>7 DEF EstNext

(* The invariant holds in every reachable state, however many dialers,     *)
(* listeners and connections there are.                                    *)
THEOREM EstInvariance == EstSpec => []EstInv
<1>1. EstInit => EstInv
  BY InvInit
<1>2. EstInv /\ [EstNext]_estVars => EstInv'
  BY InvNext
<1> QED
  BY <1>1, <1>2, PTL DEF EstSpec

(* Every variable keeps its type: a queue only has connections that exist, *)
(* the rotation of listenPortBase stays within maxPort, ordinals are dense.*)
THEOREM EstTypeCorrect == EstSpec => []EstTypeOK
<1>1. ASSUME EstInv PROVE EstTypeOK
  <2>1. Shapes /\ RegistryOK
    BY <1>1 DEF EstInv
  <2>2. ASSUME NEW l \in 1..Len(lis)
        PROVE  /\ lis[l].addr \in Peers \X Ports /\ lis[l].network \in Networks
               /\ lis[l].incoming \in Seq(1..Len(conns))
               /\ lis[l].reserved \in Nat /\ lis[l].closed \in BOOLEAN
               /\ lis[l].closer \in CloserSteps /\ lost[l] \in Nat
    <3>1. lost[l] \in Nat
      BY <2>1, ElementOfSeq DEF Shapes
    <3>2. PICK q : q = lis[l].incoming
      OBVIOUS
    <3>3. q \in Seq(Nat) /\ Len(q) \in Nat /\ q \in [1..Len(q) -> Nat]
      BY <2>1, <3>2, ListenerFields, LenProperties
    <3>4. \A i \in 1..Len(q) : q[i] \in 1..Len(conns)
      BY <1>1, <3>2 DEF EstInv, QueuesOK
    <3>5. q \in [1..Len(q) -> 1..Len(conns)]
      BY <3>3, <3>4
    <3>6. q \in Seq(1..Len(conns))
      BY <3>3, <3>5
    <3> QED
      BY <2>1, <3>1, <3>2, <3>6, ListenerFields
  <2>3. ASSUME NEW c \in 1..Len(conns)
        PROVE  /\ conns[c].l \in 1..Len(lis) /\ conns[c].dialer \in EndStates
               /\ conns[c].acceptor \in EndStates
    BY <1>1, <2>1, ConnFields DEF EstInv, AllQueued
  <2>4. \A d \in Dialers : dials[d].at \in Steps
    BY <2>1 DEF Shapes, DialStates
  <2>5. Len(lost) = Len(lis)
    BY <2>1 DEF Shapes
  <2> QED
    BY <2>1, <2>2, <2>3, <2>4, <2>5 DEF EstTypeOK, RegistryOK, EndStates
<1> QED
  BY <1>1, EstInvariance, PTL

(* A slot is reserved for each dial between reserve and fill, and for each *)
(* that peerIPLocked made fail there, and for no other.                    *)
THEOREM ReservationsAlwaysAccounted == EstSpec => []ReservationsAccounted
<1>1. EstInv => ReservationsAccounted
  BY DEF EstInv
<1> QED
  BY <1>1, EstInvariance, PTL

(* fill, which sends on l.incoming with l.mu held, always finds room.      *)
THEOREM FillNeverBlocks == EstSpec => []FillHasRoom
<1>1. ASSUME EstInv PROVE FillHasRoom
  <2>1. ASSUME NEW l \in 1..Len(lis)
        PROVE  lis[l].reserved >= Cardinality(Holders(l))
    <3>1. /\ lis[l].reserved = Cardinality(Holders(l)) + lost[l]
          /\ Cardinality(Holders(l)) \in Nat
      BY <1>1, HoldersFinite DEF EstInv, ReservationsAccounted
    <3>2. lost[l] \in Nat
      BY <1>1, ElementOfSeq DEF EstInv, Shapes
    <3> QED
      BY <3>1, <3>2
  <2> QED
    BY <1>1, <2>1 DEF EstInv, FillHasRoom, QueueFits
<1> QED
  BY <1>1, EstInvariance, PTL

(* A connection whose dialer has it is accepted or closed at the other     *)
(* end, or waits once in the queue of a listener that is not done closing. *)
THEOREM NeverStranded == EstSpec => []NoneStranded
<1>1. ASSUME EstInv PROVE NoneStranded
  <2> SUFFICES ASSUME NEW c \in 1..Len(conns)
               PROVE  /\ Cardinality(Queued(c)) =
                           IF conns[c].acceptor = "new" /\ conns[c].dialer # "new"
                           THEN 1 ELSE 0
                      /\ \A p \in Queued(c) : p[1] = conns[c].l
                                            /\ lis[p[1]].closer # "done"
    BY DEF NoneStranded
  <2>1. ASSUME NEW p \in Queued(c)
        PROVE  /\ p[1] = conns[c].l /\ lis[p[1]].closer # "done"
               /\ conns[c].acceptor = "new" /\ conns[c].dialer # "new"
               /\ p[1] \in 1..Len(lis) /\ p[2] \in 1..Len(lis[p[1]].incoming)
               /\ lis[p[1]].incoming[p[2]] = c /\ p = <<p[1], p[2]>>
    <3>1. /\ p[1] \in 1..Len(lis) /\ p[2] \in 1..Backlog
          /\ p[2] <= Len(lis[p[1]].incoming)
          /\ lis[p[1]].incoming[p[2]] = c /\ p = <<p[1], p[2]>>
      BY DEF Queued
    <3>2. p[2] \in 1..Len(lis[p[1]].incoming)
      BY <1>1, <3>1, ListenerFields, BacklogAssumption DEF EstInv
    <3> QED
      BY <1>1, <3>1, <3>2 DEF EstInv, QueuesOK
  <2>2. CASE ~(conns[c].acceptor = "new" /\ conns[c].dialer # "new")
    <3>1. Queued(c) = {}
      BY <2>1, <2>2
    <3> QED
      BY <2>2, <3>1, FS_EmptySet
  <2>3. CASE conns[c].acceptor = "new" /\ conns[c].dialer # "new"
    <3>1. PICK l : l = conns[c].l
      OBVIOUS
    <3>2. PICK i \in 1..Len(lis[l].incoming) : lis[l].incoming[i] = c
      BY <1>1, <2>3, <3>1 DEF EstInv, AllQueued
    <3>3. l \in 1..Len(lis) /\ Len(lis[l].incoming) \in Nat /\ lis[l].reserved \in Nat
          /\ Len(lis[l].incoming) + lis[l].reserved <= Backlog
      BY <1>1, <3>1, ListenerFields DEF EstInv, AllQueued, QueueFits
    <3>4. i \in 1..Backlog /\ i <= Len(lis[l].incoming)
      BY <3>2, <3>3, BacklogAssumption
    <3>5. <<l, i>> \in Queued(c)
      BY <3>2, <3>3, <3>4 DEF Queued
    <3>6. ASSUME NEW p \in Queued(c) PROVE p = <<l, i>>
      <4>1. /\ p[1] = l /\ p[2] \in 1..Len(lis[l].incoming)
            /\ lis[l].incoming[p[2]] = c /\ p = <<p[1], p[2]>>
        BY <2>1, <3>1
      <4>2. p[2] = i
        BY <1>1, <3>2, <3>3, <4>1 DEF EstInv, QueuedOnce
      <4> QED
        BY <4>1, <4>2
    <3>7. Queued(c) = {<<l, i>>}
      BY <3>5, <3>6
    <3>8. Cardinality(Queued(c)) = 1
      BY <3>7, FS_Singleton
    <3> QED
      BY <2>1, <2>3, <3>8
  <2> QED
    BY <2>2, <2>3
<1> QED
  BY <1>1, EstInvariance, PTL

(* Once deregisterReset has taken an end out nothing puts it back, and     *)
(* until then Network.Reset finds both ends of a connection or neither.    *)
THEOREM ResetRegistryStaysSound == EstSpec => []ResetRegistrySound
<1>1. EstInv => ResetRegistrySound
  BY DEF EstInv, TargetsOK, PairsOK, ResetRegistrySound
<1> QED
  BY <1>1, EstInvariance, PTL

(* No dial waits for a Heal that has been.                                 *)
THEOREM NoHealMissed == EstSpec => []WaitingIsPartitioned
<1>1. EstInv => WaitingIsPartitioned
  BY DEF EstInv
<1> QED
  BY <1>1, EstInvariance, PTL

-----------------------------------------------------------------------------
(* The listeners implement the queues of AcceptQueue.                      *)

PhaseNames == {"open", "closed", "gone"}

(* The mapped state has the lengths of lis and conns.                      *)
LEMMA MappedShapes ==
    ASSUME Shapes
    PROVE  /\ Waiting \in Seq(Seq(Nat)) /\ Len(Waiting) = Len(lis)
           /\ Phases \in Seq(PhaseNames) /\ Len(Phases) = Len(lis)
           /\ AcceptorEnds \in Seq(EndStates) /\ Len(AcceptorEnds) = Len(conns)
           /\ DOMAIN Waiting = 1..Len(lis) /\ DOMAIN AcceptorEnds = 1..Len(conns)
<1>1. PICK n, k : n = Len(lis) /\ k = Len(conns) /\ n \in Nat /\ k \in Nat
  BY Lengths
<1>2. Waiting \in [1..n -> Seq(Nat)]
  BY <1>1, ListenerFields DEF Waiting
<1>3. Phases \in [1..n -> PhaseNames]
  BY <1>1 DEF Phases, PhaseOf, PhaseNames
<1>4. AcceptorEnds \in [1..k -> EndStates]
  BY <1>1, ConnFields DEF AcceptorEnds, Seen, EndStates
<1> HIDE DEF Waiting, Phases, AcceptorEnds
<1>5. Waiting \in Seq(Seq(Nat)) /\ Len(Waiting) = n
  BY <1>1, <1>2
<1>6. Phases \in Seq(PhaseNames) /\ Len(Phases) = n
  BY <1>1, <1>3
<1>7. AcceptorEnds \in Seq(EndStates) /\ Len(AcceptorEnds) = k
  BY <1>1, <1>4
<1> QED
  BY <1>1, <1>2, <1>4, <1>5, <1>6, <1>7

(* One listener's queue, one listener's phase and one connection's end are *)
(* set, and every other stays.                                             *)
LEMMA WaitingPut ==
    ASSUME NEW l \in 1..Len(lis), Len(lis') = Len(lis),
           \A m \in 1..Len(lis) : m # l => lis'[m].incoming = lis[m].incoming
    PROVE  Waiting' = [Waiting EXCEPT ![l] = lis'[l].incoming]
BY DEF Waiting

LEMMA PhasesPut ==
    ASSUME NEW l \in 1..Len(lis), Len(lis') = Len(lis),
           \A m \in 1..Len(lis) : m # l => lis'[m] = lis[m]
    PROVE  Phases' = [Phases EXCEPT ![l] = PhaseOf(lis'[l])]
BY DEF Phases, PhaseOf

LEMMA EndPut ==
    ASSUME NEW c \in 1..Len(conns), Len(conns') = Len(conns),
           \A b \in 1..Len(conns) : b # c => conns'[b] = conns[b]
    PROVE  AcceptorEnds' = [AcceptorEnds EXCEPT ![c] = Seen(conns'[c].acceptor)]
BY DEF AcceptorEnds

LEMMA WaitingKept ==
    ASSUME Len(lis') = Len(lis),
           \A m \in 1..Len(lis) : lis'[m].incoming = lis[m].incoming
    PROVE  Waiting' = Waiting
BY DEF Waiting

LEMMA PhasesKept ==
    ASSUME Len(lis') = Len(lis),
           \A m \in 1..Len(lis) : /\ lis'[m].closed = lis[m].closed
                                  /\ lis'[m].closer = lis[m].closer
    PROVE  Phases' = Phases
BY DEF Phases, PhaseOf

LEMMA EndsKept ==
    ASSUME Len(conns') = Len(conns),
           \A b \in 1..Len(conns) : Seen(conns'[b].acceptor) = Seen(conns[b].acceptor)
    PROVE  AcceptorEnds' = AcceptorEnds
BY DEF AcceptorEnds

LEMMA AppendIs ==
    ASSUME NEW S, NEW s \in Seq(S), NEW e \in S, NEW t \in Seq(S),
           Len(t) = Len(s) + 1, \A i \in 1..Len(s) : t[i] = s[i], t[Len(t)] = e
    PROVE  t = Append(s, e)
<1>1. PICK u : u = Append(s, e)
  OBVIOUS
<1>2. /\ u \in Seq(S) /\ Len(u) = Len(s) + 1 /\ u[Len(s) + 1] = e
      /\ \A i \in 1..Len(s) : u[i] = s[i]
  BY <1>1, AppendProperties
<1>3. Len(s) \in Nat
  BY LenProperties
<1>4. \A i \in 1..Len(t) : t[i] = u[i]
  <2> SUFFICES ASSUME NEW i \in 1..Len(t) PROVE t[i] = u[i]
    OBVIOUS
  <2>1. i \in 1..Len(s) \/ i = Len(s) + 1
    BY <1>3
  <2> QED
    BY <1>2, <2>1
<1>5. t = u
  BY <1>2, <1>4, SeqEqual
<1> QED
  BY <1>1, <1>5

-----------------------------------------------------------------------------
LEMMA QueueStutters ==
    ASSUME UNCHANGED <<lis, conns>>
    PROVE  UNCHANGED Promise!queueVars
<1>1. Waiting' = Waiting
  BY WaitingKept
<1>2. Phases' = Phases
  BY PhasesKept
<1>3. AcceptorEnds' = AcceptorEnds
  BY EndsKept
<1> QED
  BY <1>1, <1>2, <1>3 DEF Promise!queueVars

(* Listen adds a listener with an empty queue, if it succeeds.             *)
LEMMA BindAdds ==
    ASSUME EstInv, EstInv', NEW peer, NEW port, NEW network, Bind(peer, port, network)
    PROVE  Promise!NewListener \/ UNCHANGED Promise!queueVars
<1>1. CASE UNCHANGED lis
  <2>1. UNCHANGED conns
    BY DEF Bind
  <2> QED
    BY <1>1, <2>1, QueueStutters
<1>2. CASE ~UNCHANGED lis
  <2> DEFINE r == [addr |-> <<peer, port>>, network |-> network,
                   incoming |-> <<>>, reserved |-> 0,
                   closed |-> FALSE, closer |-> "none"]
  <2>1. lis' = Append(lis, r) /\ UNCHANGED conns
    BY <1>2 DEF Bind
  <2>2. r.incoming = <<>> /\ PhaseOf(r) = "open"
    BY DEF PhaseOf
  <2> HIDE DEF r
  <2>3. PICK n \in Nat : n = Len(lis)
    BY Lengths DEF EstInv
  <2>4. /\ Len(lis') = n + 1 /\ lis'[n + 1] = r
        /\ \A l \in 1..n : lis'[l] = lis[l]
    BY <2>1, <2>3, AppendProperties DEF EstInv, Shapes
  <2>5. /\ Waiting \in Seq(Seq(Nat)) /\ Len(Waiting) = n
        /\ Phases \in Seq(PhaseNames) /\ Len(Phases) = n
    BY <2>3, MappedShapes DEF EstInv
  <2>6. /\ Waiting' \in Seq(Seq(Nat)) /\ Len(Waiting') = n + 1
        /\ Phases' \in Seq(PhaseNames) /\ Len(Phases') = n + 1
    <3>1. (Shapes => /\ Waiting \in Seq(Seq(Nat)) /\ Len(Waiting) = Len(lis)
                     /\ Phases \in Seq(PhaseNames) /\ Len(Phases) = Len(lis))'
      BY MappedShapes, PTL
    <3> QED
      BY <2>4, <3>1 DEF EstInv
  <2>7. /\ n + 1 \in 1..(n + 1) /\ \A l \in 1..n : l \in 1..(n + 1)
    OBVIOUS
  <2>8. /\ \A l \in 1..n : Waiting'[l] = Waiting[l] /\ Phases'[l] = Phases[l]
        /\ Waiting'[n + 1] = <<>> /\ Phases'[n + 1] = "open"
    BY <2>2, <2>3, <2>4, <2>7 DEF Waiting, Phases
  <2>9. <<>> \in Seq(Nat) /\ "open" \in PhaseNames
    BY DEF PhaseNames
  <2>10. PICK w, v, p, q : w = Waiting /\ v = Waiting' /\ p = Phases /\ q = Phases'
    OBVIOUS
  <2>11. v = Append(w, <<>>)
    <3>1. PICK S : S = Seq(Nat)
      OBVIOUS
    <3> QED
      BY <2>5, <2>6, <2>8, <2>9, <2>10, <3>1, AppendIs
  <2>12. q = Append(p, "open")
    BY <2>5, <2>6, <2>8, <2>9, <2>10, AppendIs
  <2>13. AcceptorEnds' = AcceptorEnds
    BY <2>1, EndsKept
  <2> QED
    BY <2>10, <2>11, <2>12, <2>13 DEF Promise!NewListener
<1> QED
  BY <1>1, <1>2

(* A dial takes an ordinal: the connection is new to every queue.          *)
LEMMA OrdinalAdds ==
    ASSUME EstInv, EstInv', NEW d \in Dialers, TakeOrdinal(d)
    PROVE  Promise!NewConnection
<1> DEFINE s == NewConn(dials[d].l)
<1>1. conns' = Append(conns, s) /\ UNCHANGED lis
  BY DEF TakeOrdinal
<1>2. s.acceptor = "new"
  BY DEF NewConn
<1> HIDE DEF s
<1>3. PICK n \in Nat : n = Len(conns)
  BY Lengths DEF EstInv
<1>4. /\ Len(conns') = n + 1 /\ conns'[n + 1] = s
      /\ \A c \in 1..n : conns'[c] = conns[c]
  BY <1>1, <1>3, AppendProperties DEF EstInv, Shapes
<1>5. AcceptorEnds \in Seq(EndStates) /\ Len(AcceptorEnds) = n
  BY <1>3, MappedShapes DEF EstInv
<1>6. AcceptorEnds' \in Seq(EndStates) /\ Len(AcceptorEnds') = n + 1
  <2>1. (Shapes => AcceptorEnds \in Seq(EndStates) /\ Len(AcceptorEnds) = Len(conns))'
    BY MappedShapes, PTL
  <2> QED
    BY <1>4, <2>1 DEF EstInv
<1>7. /\ n + 1 \in 1..(n + 1) /\ \A c \in 1..n : c \in 1..(n + 1)
  OBVIOUS
<1>8. /\ \A c \in 1..n : AcceptorEnds'[c] = AcceptorEnds[c]
      /\ AcceptorEnds'[n + 1] = "new"
  BY <1>2, <1>3, <1>4, <1>7 DEF AcceptorEnds, Seen
<1>9. "new" \in EndStates
  BY DEF EndStates
<1>10. PICK p, q : p = AcceptorEnds /\ q = AcceptorEnds'
  OBVIOUS
<1>11. q = Append(p, "new")
  BY <1>5, <1>6, <1>8, <1>9, <1>10, AppendIs
<1>12. Waiting' = Waiting /\ Phases' = Phases
  BY <1>1, WaitingKept, PhasesKept
<1> QED
  BY <1>10, <1>11, <1>12 DEF Promise!NewConnection

(* reserve, and the part of Close that deregisters, touch no queue.        *)
LEMMA ReserveStutters ==
    ASSUME EstInv, NEW d \in Dialers, Reserve(d)
    PROVE  UNCHANGED Promise!queueVars
<1>1. PICK l : l = dials[d].l
  OBVIOUS
<1>2. l \in 1..Len(lis) /\ Shapes /\ UNCHANGED conns
  BY <1>1 DEF EstInv, DialsOK, Reserve, WithListener
<1>3. CASE UNCHANGED lis
  BY <1>2, <1>3, QueueStutters
<1>4. CASE lis' = [lis EXCEPT ![l].reserved = @ + 1]
  <2> DEFINE r == [lis[l] EXCEPT !.reserved = @ + 1]
  <2>1. lis[l] \in ListenerStates /\ lis[l].reserved + 1 \in Nat
    BY <1>2, ListenerFields
  <2>2. /\ r \in ListenerStates /\ r.incoming = lis[l].incoming
        /\ r.closed = lis[l].closed /\ r.closer = lis[l].closer
    BY <2>1 DEF ListenerStates
  <2>3. lis' = [lis EXCEPT ![l] = r]
    BY <1>4
  <2> HIDE DEF r
  <2>4. /\ Len(lis') = Len(lis) /\ lis'[l] = r
        /\ \A m \in 1..Len(lis) : m # l => lis'[m] = lis[m]
    BY <1>2, <2>2, <2>3, ListenerPut
  <2>5. \A m \in 1..Len(lis) : /\ lis'[m].incoming = lis[m].incoming
                               /\ lis'[m].closed = lis[m].closed
                               /\ lis'[m].closer = lis[m].closer
    BY <2>2, <2>4
  <2>6. Waiting' = Waiting /\ Phases' = Phases
    BY <2>4, <2>5, WaitingKept, PhasesKept
  <2>7. AcceptorEnds' = AcceptorEnds
    BY <1>2, EndsKept
  <2> QED
    BY <2>6, <2>7 DEF Promise!queueVars
<1> QED
  BY <1>1, <1>3, <1>4 DEF Reserve

LEMMA DeregisterStutters ==
    ASSUME EstInv, NEW l \in 1..Len(lis), Deregister(l)
    PROVE  UNCHANGED Promise!queueVars
<1> DEFINE r == [lis[l] EXCEPT !.closer = "drain"]
<1>1. /\ Shapes /\ lis[l] \in ListenerStates /\ lis[l].closed
      /\ lis[l].closer = "deregister" /\ UNCHANGED conns
  BY ListenerFields DEF EstInv, ClosedOK, Deregister
<1>2. /\ r \in ListenerStates /\ r.incoming = lis[l].incoming
      /\ r.closed = lis[l].closed /\ r.closer = "drain"
  BY <1>1, CloserMoves DEF ListenerStates
<1>3. lis' = [lis EXCEPT ![l] = r]
  BY DEF Deregister
<1> HIDE DEF r
<1>4. /\ Len(lis') = Len(lis) /\ lis'[l] = r
      /\ \A m \in 1..Len(lis) : m # l => lis'[m] = lis[m]
  BY <1>1, <1>2, <1>3, ListenerPut
<1>5. \A m \in 1..Len(lis) : lis'[m].incoming = lis[m].incoming
  BY <1>2, <1>4
<1>6. \A m \in 1..Len(lis) : PhaseOf(lis'[m]) = PhaseOf(lis[m])
  BY <1>1, <1>2, <1>4 DEF PhaseOf
<1>7. Phases' = Phases
  BY <1>4, <1>6 DEF Phases
<1>8. Waiting' = Waiting
  BY <1>4, <1>5, WaitingKept
<1>9. AcceptorEnds' = AcceptorEnds
  BY <1>1, EndsKept
<1> QED
  BY <1>7, <1>8, <1>9 DEF Promise!queueVars

LEMMA RegisterStutters ==
    ASSUME EstInv, EstInv', NEW d \in Dialers, RegisterReset(d)
    PROVE  UNCHANGED Promise!queueVars
<1>1. PICK c, p : c = dials[d].ordinal /\ p = Pair(d)
  OBVIOUS
<1>2. /\ c \in 1..Len(conns) /\ Shapes /\ UNCHANGED lis
      /\ conns' = [conns EXCEPT ![c].pair = p]
  BY <1>1 DEF EstInv, DialsOK, RegisterReset, WithOrdinal
<1> DEFINE s == [conns[c] EXCEPT !.pair = p]
<1>3. conns[c] \in ConnStates /\ conns \in Seq(ConnStates)
  BY <1>2, ConnFields DEF Shapes
<1>4. s.acceptor = conns[c].acceptor
  BY <1>3 DEF ConnStates
<1>5. conns' = [conns EXCEPT ![c] = s]
  BY <1>2
<1> HIDE DEF s
<1>6. /\ Len(conns') = Len(conns) /\ conns'[c] = s
      /\ \A b \in 1..Len(conns) : b # c => conns'[b] = conns[b]
  BY <1>2, <1>3, <1>5
<1>7. AcceptorEnds' = AcceptorEnds
  BY <1>4, <1>6, EndsKept
<1>8. Waiting' = Waiting /\ Phases' = Phases
  BY <1>2, WaitingKept, PhasesKept
<1> QED
  BY <1>7, <1>8 DEF Promise!queueVars

(* Close sets its flag; the drain has found the queue empty.               *)
LEMMA CloseShuts ==
    ASSUME EstInv, NEW l \in 1..Len(lis), CloseListener(l)
    PROVE  Promise!Shut(l)
<1> DEFINE r == [lis[l] EXCEPT !.closed = TRUE, !.closer = "deregister"]
<1>1. /\ Shapes /\ lis[l] \in ListenerStates /\ ~lis[l].closed /\ UNCHANGED conns
  BY ListenerFields DEF EstInv, CloseListener
<1>2. /\ r \in ListenerStates /\ r.incoming = lis[l].incoming
      /\ r.closed = TRUE /\ r.closer = "deregister"
  BY <1>1, CloserMoves DEF ListenerStates
<1>3. lis' = [lis EXCEPT ![l] = r]
  BY DEF CloseListener
<1> HIDE DEF r
<1>4. /\ Len(lis') = Len(lis) /\ lis'[l] = r
      /\ \A m \in 1..Len(lis) : m # l => lis'[m] = lis[m]
  BY <1>1, <1>2, <1>3, ListenerPut
<1>5. \A m \in 1..Len(lis) : lis'[m].incoming = lis[m].incoming
  BY <1>2, <1>4
<1>6. PhaseOf(r) = "closed" /\ PhaseOf(lis[l]) = "open"
  BY <1>1, <1>2 DEF PhaseOf
<1>7. Phases' = [Phases EXCEPT ![l] = "closed"] /\ Phases[l] = "open"
  BY <1>4, <1>6, PhasesPut DEF Phases
<1>8. Waiting' = Waiting
  BY <1>4, <1>5, WaitingKept
<1>9. AcceptorEnds' = AcceptorEnds
  BY <1>1, EndsKept
<1> QED
  BY <1>7, <1>8, <1>9 DEF Promise!Shut

LEMMA DrainFinishes ==
    ASSUME EstInv, NEW l \in 1..Len(lis), Drain(l), lis[l].incoming = <<>>
    PROVE  Promise!Finish(l)
<1> DEFINE r == [lis[l] EXCEPT !.closer = "done"]
<1>1. /\ Shapes /\ lis[l] \in ListenerStates /\ lis[l].closed
      /\ lis[l].closer = "drain" /\ UNCHANGED conns
  BY ListenerFields DEF EstInv, ClosedOK, Drain
<1>2. /\ r \in ListenerStates /\ r.incoming = lis[l].incoming
      /\ r.closed = lis[l].closed /\ r.closer = "done"
  BY <1>1, CloserMoves DEF ListenerStates
<1>3. lis' = [lis EXCEPT ![l] = r]
  BY DEF Drain
<1> HIDE DEF r
<1>4. /\ Len(lis') = Len(lis) /\ lis'[l] = r
      /\ \A m \in 1..Len(lis) : m # l => lis'[m] = lis[m]
  BY <1>1, <1>2, <1>3, ListenerPut
<1>5. \A m \in 1..Len(lis) : lis'[m].incoming = lis[m].incoming
  BY <1>2, <1>4
<1>6. PhaseOf(r) = "gone" /\ PhaseOf(lis[l]) = "closed"
  BY <1>1, <1>2 DEF PhaseOf
<1>7. Phases' = [Phases EXCEPT ![l] = "gone"] /\ Phases[l] = "closed"
  BY <1>4, <1>6, PhasesPut DEF Phases
<1>8. Waiting' = Waiting /\ Waiting[l] = <<>>
  BY <1>4, <1>5, WaitingKept DEF Waiting
<1>9. AcceptorEnds' = AcceptorEnds
  BY <1>1, EndsKept
<1> QED
  BY <1>7, <1>8, <1>9 DEF Promise!Finish

(* Accept, and the drain of Close, take the oldest connection.             *)
LEMMA HeadLeaves ==
    ASSUME EstInv, NEW l \in 1..Len(lis), NEW fate \in EndStates,
           lis[l].incoming # <<>>,
           NEW step \in CloserSteps, step = "done" <=> lis[l].closer = "done",
           NEW r \in ListenerStates, lis' = [lis EXCEPT ![l] = r],
           r.incoming = Tail(lis[l].incoming), r.closed = lis[l].closed,
           r.closer = step,
           conns' = [conns EXCEPT ![Head(lis[l].incoming)].acceptor = fate]
    PROVE  Promise!Dequeue(l, Seen(fate))
<1>1. PICK q, c : q = lis[l].incoming /\ c = Head(q)
  OBVIOUS
<1>2. Tail(q) \in Seq(Nat) /\ c \in 1..Len(conns)
  BY <1>1, HeadQueued
<1>3. PICK t \in Seq(Nat) : t = Tail(q)
  BY <1>2
<1> DEFINE s == [conns[c] EXCEPT !.acceptor = fate]
<1>4. Shapes /\ lis[l] \in ListenerStates /\ conns[c] \in ConnStates
  BY <1>2, ListenerFields, ConnFields DEF EstInv
<1>5. r.incoming = t /\ PhaseOf(r) = PhaseOf(lis[l])
  BY <1>1, <1>3 DEF PhaseOf
<1>6. s \in ConnStates /\ s.acceptor = fate
  BY <1>4 DEF ConnStates
<1>8. conns' = [conns EXCEPT ![c] = s]
  BY <1>1
<1> HIDE DEF s
<1>9. /\ Len(lis') = Len(lis) /\ lis'[l] = r
      /\ \A m \in 1..Len(lis) : m # l => lis'[m] = lis[m]
  BY <1>4, ListenerPut
<1>10. /\ Len(conns') = Len(conns) /\ conns'[c] = s
       /\ \A b \in 1..Len(conns) : b # c => conns'[b] = conns[b]
  BY <1>2, <1>4, <1>6, <1>8, ConnPut
<1>11. Waiting' = [Waiting EXCEPT ![l] = t]
  BY <1>5, <1>9, WaitingPut
<1>12. Waiting[l] = q
  BY <1>1 DEF Waiting
<1>13. Phases' = Phases
  BY <1>5, <1>9 DEF Phases
<1>14. AcceptorEnds' = [AcceptorEnds EXCEPT ![c] = Seen(fate)]
  BY <1>2, <1>6, <1>10, EndPut
<1> QED
  BY <1>1, <1>3, <1>11, <1>12, <1>13, <1>14 DEF Promise!Dequeue

LEMMA AcceptTakes ==
    ASSUME EstInv, NEW l \in 1..Len(lis), Accept(l)
    PROVE  Promise!TakeNext(l)
<1>1. PICK fate \in EndStates : fate = "open" /\ Seen(fate) = "open"
  BY DEF EndStates, Seen
<1>2. PICK q \in Seq(Nat) : q = Tail(lis[l].incoming)
  BY HeadQueued DEF Accept
<1> DEFINE r == [lis[l] EXCEPT !.incoming = q]
<1>3. lis[l] \in ListenerStates /\ lis[l].closer \in CloserSteps
  BY ListenerFields DEF EstInv
<1>4. /\ r \in ListenerStates /\ r.incoming = q
      /\ r.closed = lis[l].closed /\ r.closer = lis[l].closer
  BY <1>3 DEF ListenerStates
<1>5. lis' = [lis EXCEPT ![l] = r]
  BY <1>2 DEF Accept
<1> HIDE DEF r
<1>6. Promise!Dequeue(l, Seen(fate))
  BY <1>1, <1>2, <1>3, <1>4, <1>5, HeadLeaves DEF Accept
<1> QED
  BY <1>1, <1>6 DEF Promise!TakeNext

LEMMA DrainDiscards ==
    ASSUME EstInv, NEW l \in 1..Len(lis), Drain(l), lis[l].incoming # <<>>
    PROVE  Promise!Discard(l)
<1>1. PICK fate \in EndStates : fate = "dropped" /\ Seen(fate) = "closed"
  BY DEF EndStates, Seen
<1>2. PICK q \in Seq(Nat) : q = Tail(lis[l].incoming)
  BY HeadQueued
<1>3. PICK step \in CloserSteps : step = "discard"
  BY CloserMoves
<1> DEFINE r == [lis[l] EXCEPT !.incoming = q, !.closer = step]
<1>4. lis[l] \in ListenerStates /\ lis[l].closed /\ lis[l].closer = "drain"
  BY ListenerFields DEF EstInv, ClosedOK, Drain
<1>5. /\ r \in ListenerStates /\ r.incoming = q
      /\ r.closed = lis[l].closed /\ r.closer = step
  BY <1>4 DEF ListenerStates
<1>6. /\ lis' = [lis EXCEPT ![l] = r]
      /\ conns' = [conns EXCEPT ![Head(lis[l].incoming)].acceptor = fate]
  BY <1>1, <1>2, <1>3 DEF Drain
<1> HIDE DEF r
<1>7. step = "done" <=> lis[l].closer = "done"
  BY <1>3, <1>4
<1>8. Promise!Dequeue(l, Seen(fate))
  BY <1>2, <1>5, <1>6, <1>7, HeadLeaves
<1>9. Phases[l] = "closed"
  BY <1>4 DEF Phases, PhaseOf
<1> QED
  BY <1>1, <1>8, <1>9 DEF Promise!Discard

(* The acceptor's end is closed by its holder; the dialer's is not seen.   *)
LEMMA CloseConnCloses ==
    ASSUME EstInv, NEW c \in 1..Len(conns), NEW side \in Sides, CloseConn(c, side)
    PROVE  Promise!CloseEnd(c) \/ UNCHANGED Promise!queueVars
<1> DEFINE s == [conns[c] EXCEPT ![side] = "closing"]
<1>1. /\ Shapes /\ conns[c] \in ConnStates /\ conns[c][side] = "open" /\ UNCHANGED lis
  BY ConnFields DEF EstInv, CloseConn
<1>2. /\ s \in ConnStates
      /\ s[side] = "closing" /\ \A o \in Sides : o # side => s[o] = conns[c][o]
  BY <1>1 DEF ConnStates, EndStates, Sides
<1>3. conns' = [conns EXCEPT ![c] = s]
  BY DEF CloseConn
<1> HIDE DEF s
<1>4. /\ Len(conns') = Len(conns) /\ conns'[c] = s
      /\ \A b \in 1..Len(conns) : b # c => conns'[b] = conns[b]
  BY <1>1, <1>2, <1>3, ConnPut
<1>5. Waiting' = Waiting /\ Phases' = Phases
  BY <1>1, WaitingKept, PhasesKept
<1>6. CASE side = "acceptor"
  <2>1. Seen(s.acceptor) = "closed" /\ conns[c].acceptor = "open"
    BY <1>1, <1>2, <1>6 DEF Seen
  <2>2. AcceptorEnds' = [AcceptorEnds EXCEPT ![c] = "closed"]
    BY <1>4, <2>1, EndPut
  <2>3. AcceptorEnds[c] = "open"
    BY <2>1 DEF AcceptorEnds, Seen
  <2> QED
    BY <1>5, <2>2, <2>3 DEF Promise!CloseEnd
<1>7. CASE side = "dialer"
  <2>1. s.acceptor = conns[c].acceptor
    BY <1>2, <1>7 DEF Sides
  <2>2. AcceptorEnds' = AcceptorEnds
    BY <1>4, <2>1, EndsKept
  <2> QED
    BY <1>5, <2>2 DEF Promise!queueVars
<1> QED
  BY <1>6, <1>7 DEF Sides

(* fill: the connection is queued by an open listener that has room for    *)
(* it, since the reservation counts until then, or closed if it is late.   *)
LEMMA FillEnqueues ==
    ASSUME EstInv, NEW d \in Dialers, Fill(d), NEW l, l = dials[d].l,
           NEW c, c = dials[d].ordinal
    PROVE  /\ l \in 1..Len(lis) /\ c \in 1..Len(conns)
           /\ Promise!Enqueue(l, c) \/ Promise!TooLate(l, c)
<1>1. /\ l \in 1..Len(lis) /\ Shapes /\ dials[d].at = "fill" /\ d \in Holders(l)
      /\ c \in 1..Len(conns)
      /\ conns[c].dialer = "new" /\ conns[c].acceptor = "new"
  BY DEF EstInv, DialsOK, Fill, WithListener, WithOrdinal, Holders, Holding
<1>2. /\ lis[l] \in ListenerStates /\ lis[l].incoming \in Seq(Nat)
      /\ lis[l].reserved \in Nat /\ c \in Nat /\ Len(lis[l].incoming) \in Nat
      /\ lis[l].closed \in BOOLEAN /\ conns[c] \in ConnStates
  BY <1>1, ListenerFields, ConnFields, Lengths
<1>3. lis[l].reserved # 0
  <2>1. /\ IsFiniteSet(Holders(l)) /\ Cardinality(Holders(l)) \in Nat
    BY HoldersFinite
  <2>2. Cardinality(Holders(l)) # 0
    BY <1>1, <2>1, FS_EmptySet
  <2>3. lost[l] \in Nat
    BY <1>1, ElementOfSeq DEF Shapes
  <2>4. lis[l].reserved = Cardinality(Holders(l)) + lost[l]
    BY <1>1 DEF EstInv, ReservationsAccounted
  <2> QED
    BY <2>1, <2>2, <2>3, <2>4
<1>4. Len(lis[l].incoming) < Backlog
  <2>1. Len(lis[l].incoming) + lis[l].reserved <= Backlog
    BY <1>1 DEF EstInv, QueueFits
  <2> QED
    BY <1>2, <1>3, <2>1, BacklogAssumption
<1>5. PICK k \in Nat : k = lis[l].reserved - 1
  BY <1>2, <1>3
<1>6. Promise!Untouched(c)
  <2>1. \A m \in 1..Len(lis) : \A i \in 1..Len(lis[m].incoming) : lis[m].incoming[i] # c
    BY <1>1 DEF EstInv, QueuesOK
  <2>2. \A m \in 1..Len(lis) : DOMAIN lis[m].incoming = 1..Len(lis[m].incoming)
    BY <1>1, ListenerFields, LenProperties
  <2>3. AcceptorEnds[c] = "new"
    BY <1>1 DEF AcceptorEnds, Seen
  <2>4. DOMAIN Waiting = 1..Len(lis) /\ \A m \in 1..Len(lis) : Waiting[m] = lis[m].incoming
    BY DEF Waiting
  <2> QED
    BY <2>1, <2>2, <2>3, <2>4 DEF Promise!Untouched
<1>7. CASE /\ lis[l].closed
           /\ lis' = [lis EXCEPT ![l].reserved = @ - 1]
           /\ conns' = [conns EXCEPT ![c].acceptor = "late"]
  <2> DEFINE r == [lis[l] EXCEPT !.reserved = k]
             s == [conns[c] EXCEPT !.acceptor = "late"]
  <2>1. /\ r \in ListenerStates /\ r.incoming = lis[l].incoming
        /\ r.closer = lis[l].closer /\ r.closed = lis[l].closed
    BY <1>2 DEF ListenerStates
  <2>2. lis' = [lis EXCEPT ![l] = r]
    BY <1>5, <1>7
  <2>3. s \in ConnStates /\ s.acceptor = "late"
    BY <1>2 DEF ConnStates, EndStates
  <2>4. conns' = [conns EXCEPT ![c] = s]
    BY <1>7
  <2> HIDE DEF r, s
  <2>5. /\ Len(lis') = Len(lis) /\ lis'[l] = r
        /\ \A m \in 1..Len(lis) : m # l => lis'[m] = lis[m]
    BY <1>1, <2>1, <2>2, ListenerPut
  <2>6. /\ Len(conns') = Len(conns) /\ conns'[c] = s
        /\ \A b \in 1..Len(conns) : b # c => conns'[b] = conns[b]
    BY <1>1, <2>3, <2>4, ConnPut
  <2>7. \A m \in 1..Len(lis) : /\ lis'[m].incoming = lis[m].incoming
                               /\ lis'[m].closed = lis[m].closed
                               /\ lis'[m].closer = lis[m].closer
    BY <2>1, <2>5
  <2>8. Waiting' = Waiting /\ Phases' = Phases
    BY <2>5, <2>7, WaitingKept, PhasesKept
  <2>9. AcceptorEnds' = [AcceptorEnds EXCEPT ![c] = "closed"]
    BY <1>1, <2>3, <2>6, EndPut DEF Seen
  <2>10. Phases[l] # "open"
    BY <1>1, <1>7 DEF Phases, PhaseOf
  <2> QED
    BY <1>1, <1>6, <2>8, <2>9, <2>10 DEF Promise!TooLate
<1>8. CASE /\ ~lis[l].closed
           /\ lis' = [lis EXCEPT ![l].reserved = @ - 1,
                                 ![l].incoming = Append(@, c)]
           /\ conns' = [conns EXCEPT ![c].dialer = "open"]
  <2>0. PICK q \in Seq(Nat) : q = Append(lis[l].incoming, c)
    BY <1>2, AppendProperties
  <2> DEFINE r == [lis[l] EXCEPT !.reserved = k, !.incoming = q]
             s == [conns[c] EXCEPT !.dialer = "open"]
  <2>1. /\ r \in ListenerStates /\ r.incoming = q
        /\ r.closer = lis[l].closer /\ r.closed = lis[l].closed
    BY <1>2 DEF ListenerStates
  <2>2. lis' = [lis EXCEPT ![l] = r]
    <3>1. lis' = [lis EXCEPT ![l] = [lis[l] EXCEPT !.reserved = @ - 1,
                                                  !.incoming = Append(@, c)]]
      BY <1>8
    <3> QED
      BY <1>5, <2>0, <3>1
  <2>3. s \in ConnStates /\ s.acceptor = conns[c].acceptor
    BY <1>2 DEF ConnStates, EndStates
  <2>4. conns' = [conns EXCEPT ![c] = s]
    BY <1>8
  <2> HIDE DEF r, s
  <2>5. /\ Len(lis') = Len(lis) /\ lis'[l] = r
        /\ \A m \in 1..Len(lis) : m # l => lis'[m] = lis[m]
    BY <1>1, <2>1, <2>2, ListenerPut
  <2>6. /\ Len(conns') = Len(conns) /\ conns'[c] = s
        /\ \A b \in 1..Len(conns) : b # c => conns'[b] = conns[b]
    BY <1>1, <2>3, <2>4, ConnPut
  <2>7. Waiting' = [Waiting EXCEPT ![l] = q]
    BY <1>1, <2>1, <2>5, WaitingPut
  <2>8. Waiting[l] = lis[l].incoming /\ Waiting' = [Waiting EXCEPT ![l] = Append(@, c)]
    BY <1>1, <2>0, <2>7 DEF Waiting
  <2>9. \A m \in 1..Len(lis) : /\ lis'[m].closed = lis[m].closed
                               /\ lis'[m].closer = lis[m].closer
    BY <2>1, <2>5
  <2>10. Phases' = Phases
    BY <2>5, <2>9, PhasesKept
  <2>11. AcceptorEnds' = AcceptorEnds
    BY <2>3, <2>6, EndsKept
  <2>12. Phases[l] = "open"
    BY <1>1, <1>8 DEF Phases, PhaseOf
  <2>13. Len(Waiting[l]) < Backlog
    BY <1>4, <2>8
  <2> QED
    BY <1>1, <1>6, <2>8, <2>10, <2>11, <2>12, <2>13 DEF Promise!Enqueue
<1> QED
  BY <1>1, <1>7, <1>8 DEF Fill

(* That a Close comes to its deregisterReset changes no queue.             *)
LEMMA ForgetStutters ==
    ASSUME EstInv, NEW c \in 1..Len(conns), NEW s \in ConnStates,
           conns' = [conns EXCEPT ![c] = s], Seen(s.acceptor) = Seen(conns[c].acceptor),
           Len(lis') = Len(lis),
           \A m \in 1..Len(lis) : /\ lis'[m].incoming = lis[m].incoming
                                  /\ PhaseOf(lis'[m]) = PhaseOf(lis[m])
    PROVE  UNCHANGED Promise!queueVars
<1>1. /\ Len(conns') = Len(conns) /\ conns'[c] = s
      /\ \A b \in 1..Len(conns) : b # c => conns'[b] = conns[b]
  BY ConnPut DEF EstInv
<1>2. AcceptorEnds' = AcceptorEnds
  BY <1>1, EndsKept
<1>3. Waiting' = Waiting
  BY WaitingKept
<1>4. Phases' = Phases
  BY DEF Phases
<1> QED
  BY <1>2, <1>3, <1>4 DEF Promise!queueVars

LEMMA FillForgetStutters ==
    ASSUME EstInv, NEW d \in Dialers, FillForgets(d)
    PROVE  UNCHANGED Promise!queueVars
<1>1. PICK c : c = dials[d].ordinal
  OBVIOUS
<1>2. /\ c \in 1..Len(conns) /\ conns[c] \in ConnStates
      /\ conns[c].acceptor = "late" /\ UNCHANGED lis
  BY <1>1, ConnFields DEF EstInv, LateOK, FillForgets
<1> DEFINE s == [conns[c] EXCEPT !.dialer = "open", !.acceptor = "closed"]
<1>3. s \in ConnStates /\ s.acceptor = "closed"
  BY <1>2 DEF ConnStates, EndStates
<1>4. conns' = [conns EXCEPT ![c] = s]
  BY <1>1 DEF FillForgets
<1> HIDE DEF s
<1>5. Seen(s.acceptor) = Seen(conns[c].acceptor)
  BY <1>2, <1>3 DEF Seen
<1> QED
  BY <1>2, <1>3, <1>4, <1>5, ForgetStutters

LEMMA DrainForgetStutters ==
    ASSUME EstInv, NEW l \in 1..Len(lis), DrainForgets(l)
    PROVE  UNCHANGED Promise!queueVars
<1>1. PICK c \in 1..Len(conns) :
         /\ conns[c].acceptor = "dropped"
         /\ conns' = [conns EXCEPT ![c].acceptor = "closed"]
  BY DEF DrainForgets
<1> DEFINE r == [lis[l] EXCEPT !.closer = "drain"]
           s == [conns[c] EXCEPT !.acceptor = "closed"]
<1>2. /\ Shapes /\ lis[l] \in ListenerStates /\ lis[l].closed
      /\ lis[l].closer = "discard" /\ conns[c] \in ConnStates
  BY ListenerFields, ConnFields DEF EstInv, ClosedOK, DrainForgets
<1>3. /\ r \in ListenerStates /\ r.incoming = lis[l].incoming
      /\ r.closed = lis[l].closed /\ r.closer = "drain"
  BY <1>2, CloserMoves DEF ListenerStates
<1>4. s \in ConnStates /\ s.acceptor = "closed"
  BY <1>2 DEF ConnStates, EndStates
<1>5. lis' = [lis EXCEPT ![l] = r] /\ conns' = [conns EXCEPT ![c] = s]
  BY <1>1 DEF DrainForgets
<1> HIDE DEF r, s
<1>6. /\ Len(lis') = Len(lis) /\ lis'[l] = r
      /\ \A m \in 1..Len(lis) : m # l => lis'[m] = lis[m]
  BY <1>2, <1>3, <1>5, ListenerPut
<1>7. \A m \in 1..Len(lis) : /\ lis'[m].incoming = lis[m].incoming
                             /\ PhaseOf(lis'[m]) = PhaseOf(lis[m])
  BY <1>2, <1>3, <1>6 DEF PhaseOf
<1>8. Seen(s.acceptor) = Seen(conns[c].acceptor)
  BY <1>1, <1>4 DEF Seen
<1> QED
  BY <1>4, <1>5, <1>6, <1>7, <1>8, ForgetStutters

LEMMA ForgetConnStutters ==
    ASSUME EstInv, NEW c \in 1..Len(conns), NEW side \in Sides, ForgetConn(c, side)
    PROVE  UNCHANGED Promise!queueVars
<1> DEFINE s == [conns[c] EXCEPT ![side] = "closed"]
<1>1. /\ conns[c] \in ConnStates /\ conns[c][side] = "closing" /\ UNCHANGED lis
  BY ConnFields DEF EstInv, ForgetConn
<1>2. /\ s \in ConnStates
      /\ s[side] = "closed" /\ \A o \in Sides : o # side => s[o] = conns[c][o]
  BY <1>1 DEF ConnStates, EndStates, Sides
<1>3. conns' = [conns EXCEPT ![c] = s]
  BY DEF ForgetConn
<1> HIDE DEF s
<1>4. Seen(s.acceptor) = Seen(conns[c].acceptor)
  BY <1>1, <1>2 DEF Seen, Sides
<1> QED
  BY <1>1, <1>2, <1>3, <1>4, ForgetStutters

(* Every step of listening, dialing, accepting and closing is a step of    *)
(* the queues, or leaves them alone.                                       *)
LEMMA StepServesQueues ==
    ASSUME EstInv, EstInv', [EstNext]_estVars
    PROVE  [Promise!QueueNext]_Promise!queueVars
<1>0. DOMAIN Waiting = 1..Len(lis) /\ DOMAIN AcceptorEnds = 1..Len(conns)
  BY DEF Waiting, AcceptorEnds
<1>1. CASE Listen
  <2>1. PICK peer, port, network : Bind(peer, port, network)
    BY <1>1 DEF Listen, ListenOn, ListenAnywhere
  <2> QED
    BY <2>1, BindAdds DEF Promise!QueueNext
<1>2. ASSUME NEW d \in Dialers,
             Dial(d) \/ Cancel(d) \/ CheckPartition(d) \/ Lookup(d) \/ AssignAddress(d)
      PROVE  UNCHANGED Promise!queueVars
  <2>1. UNCHANGED <<lis, conns>>
    BY <1>2 DEF Dial, Cancel, CheckPartition, Lookup, AssignAddress
  <2> QED
    BY <2>1, QueueStutters
<1>3. ASSUME NEW d \in Dialers, Reserve(d) \/ RegisterReset(d) \/ FillForgets(d)
      PROVE  UNCHANGED Promise!queueVars
  BY <1>3, ReserveStutters, RegisterStutters, FillForgetStutters
<1>4. ASSUME NEW d \in Dialers, TakeOrdinal(d)
      PROVE  Promise!QueueNext
  BY <1>4, OrdinalAdds DEF Promise!QueueNext
<1>5. ASSUME NEW d \in Dialers, Fill(d)
      PROVE  Promise!QueueNext
  <2>1. PICK l, c : l = dials[d].l /\ c = dials[d].ordinal
    OBVIOUS
  <2>2. /\ l \in DOMAIN Waiting /\ c \in DOMAIN AcceptorEnds
        /\ Promise!Enqueue(l, c) \/ Promise!TooLate(l, c)
    BY <1>0, <1>5, <2>1, FillEnqueues
  <2> QED
    BY <2>2 DEF Promise!QueueNext
<1>6. ASSUME NEW l \in 1..Len(lis), Accept(l)
      PROVE  Promise!QueueNext
  <2>1. l \in DOMAIN Waiting /\ Promise!TakeNext(l)
    BY <1>0, <1>6, AcceptTakes
  <2> QED
    BY <2>1 DEF Promise!QueueNext
<1>7. ASSUME NEW l \in 1..Len(lis), CloseListener(l)
      PROVE  Promise!QueueNext
  <2>1. l \in DOMAIN Waiting /\ Promise!Shut(l)
    BY <1>0, <1>7, CloseShuts
  <2> QED
    BY <2>1 DEF Promise!QueueNext
<1>8. ASSUME NEW l \in 1..Len(lis), Deregister(l) \/ DrainForgets(l)
      PROVE  UNCHANGED Promise!queueVars
  BY <1>8, DeregisterStutters, DrainForgetStutters
<1>9. ASSUME NEW l \in 1..Len(lis), Drain(l)
      PROVE  Promise!QueueNext
  <2>1. l \in DOMAIN Waiting /\ (Promise!Finish(l) \/ Promise!Discard(l))
    BY <1>0, <1>9, DrainFinishes, DrainDiscards
  <2> QED
    BY <2>1 DEF Promise!QueueNext
<1>10. ASSUME NEW c \in 1..Len(conns), NEW side \in Sides, CloseConn(c, side)
       PROVE  Promise!QueueNext \/ UNCHANGED Promise!queueVars
  <2>1. /\ c \in DOMAIN AcceptorEnds
        /\ Promise!CloseEnd(c) \/ UNCHANGED Promise!queueVars
    BY <1>0, <1>10, CloseConnCloses
  <2> QED
    BY <2>1 DEF Promise!QueueNext
<1>11. ASSUME NEW c \in 1..Len(conns), NEW side \in Sides, ForgetConn(c, side)
       PROVE  UNCHANGED Promise!queueVars
  BY <1>11, ForgetConnStutters
<1>12. CASE (\E pair \in Pairs : Partition(pair) \/ Heal(pair) \/ Reset(pair))
            \/ UNCHANGED estVars
  <2>1. UNCHANGED <<lis, conns>>
    BY <1>12 DEF Partition, Heal, Reset, estVars
  <2> QED
    BY <2>1, QueueStutters
<1> QED
  BY <1>1, <1>2, <1>3, <1>4, <1>5, <1>6, <1>7, <1>8, <1>9, <1>10, <1>11,
     <1>12 DEF EstNext, DialStep, CloserStep

(* Whatever dials, Accepts, Closes, partitions and Resets interleave, the  *)
(* listeners are the bounded FIFO queues AcceptQueue describes: fill never *)
(* queues on one that has set its closed flag or beyond cap(l.incoming),   *)
(* and no acceptor's end is queued, accepted or discarded twice.           *)
THEOREM ListenersAreQueues == EstSpec => ImplementsQueue
<1>1. EstInit => Promise!QueueInit
  <2> SUFFICES ASSUME EstInit PROVE Promise!QueueInit
    OBVIOUS
  <2>1. Len(lis) = 0 /\ Len(conns) = 0 /\ 1..0 = {}
    BY DEF EstInit
  <2>2. Waiting = <<>> /\ Phases = <<>> /\ AcceptorEnds = <<>>
    BY <2>1 DEF Waiting, Phases, AcceptorEnds
  <2> QED
    BY <2>2 DEF Promise!QueueInit
<1>2. EstInv /\ EstInv' /\ [EstNext]_estVars => [Promise!QueueNext]_Promise!queueVars
  BY StepServesQueues
<1> QED
  BY <1>1, <1>2, EstInvariance, PTL DEF EstSpec, ImplementsQueue, Promise!QueueSpec
=============================================================================
