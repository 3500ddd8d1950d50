----------------------------- MODULE Establish ------------------------------
(***************************************************************************)
(* How connections come to be: Listen, DialContext, Accept and the closing *)
(* of a listener, with the registries of the Network they share            *)
(* (netchaos.go, listener.go, partition.go, reset.go, addressing.go).      *)
(* Everything done in one critical section is one action; a dial is a      *)
(* sequence of them, and other goroutines run in between.                  *)
(***************************************************************************)
EXTENDS Integers, Sequences, FiniteSets

CONSTANTS
    Dialers,         \* goroutines that dial
    Peers,           \* canonical names of the peers that listen
    Names,           \* names a dialer may give itself (WithPeerName)
    Unnamed,         \* a dial without a name
    Literal6,        \* the names that are IPv6 literals
    Networks,        \* the networks asked for: "tcp", "tcp4", "tcp6"
    ListenPortBase, MaxPort, \* listenPortBase and maxPort
    Backlog,         \* n.listenerBacklog, cap(l.incoming)
    SpaceV4,         \* synthetic IPv4 addresses there are
    MaxListeners,    \* bound: Listen calls that succeed
    MaxOrdinals      \* bound: connection ordinals handed out

ASSUME DialerAssumption  == IsFiniteSet(Dialers)
ASSUME NameAssumption    == Unnamed \notin Names /\ Literal6 \subseteq Names
ASSUME NetworkAssumption == Networks \subseteq {"tcp", "tcp4", "tcp6"}
ASSUME PortAssumption    == /\ ListenPortBase \in Nat \ {0} /\ MaxPort \in Nat
                            /\ ListenPortBase <= MaxPort
(* WithListenerBacklog panics on a backlog that is not positive.           *)
ASSUME BacklogAssumption == Backlog \in Nat \ {0}
ASSUME SpaceAssumption   == SpaceV4 \in Nat
ASSUME EstablishCaps     == MaxListeners \in Nat /\ MaxOrdinals \in Nat

VARIABLES
    registry,        \* n.listeners: which listener holds an address, 0 for none
    lis,             \* the listeners created, in order
    nextListenPort,  \* n.nextListenPort
    nextOrdinal,     \* n.nextOrdinal
    peerIPs,         \* n.peerIPs: the <<name, family>> given an address
    nextIPv4,        \* n.nextIPv4
    partitions,      \* n.partitions: pairs <<dialer name, peer>>
    targets,         \* n.resetTargets: pair, ordinal and side of every end
    conns,           \* the connections, by ordinal (from 1)
    dials,           \* the dial each dialer is in
    lost             \* history: dials per listener that failed after reserve

book      == <<nextListenPort, peerIPs, nextIPv4>>
estVars   == <<registry, lis, book, nextOrdinal, partitions, targets, conns,
               dials, lost>>

-----------------------------------------------------------------------------
Ports   == 1..MaxPort
Anyport == 0                       \* an address without a port
Sides   == {"dialer", "acceptor"}

(* How far a listener's Close has come.                                    *)
CloserSteps == {"none", "deregister", "drain", "discard", "done"}

NewDial(step, name, network, peer, port) ==
    [at |-> step, name |-> name, network |-> network, peer |-> peer, port |-> port,
     l |-> 0, ordinal |-> 0]

NoDial == NewDial("idle", Unnamed, "tcp", "", Anyport)

(* addressFamily: a listening peer is a name, so only the network decides. *)
AddressFamily(network) == IF network = "tcp6" THEN 6 ELSE 4

(* One end of a connection: "new" until handed over by fill or             *)
(* DialContext; its Close goes on, "closing" for its holder, "late" for    *)
(* fill and "dropped" for the listener's Close, until it has deregistered  *)
(* the end, which is then "closed".                                        *)
NewConn(l) == [l |-> l, pair |-> <<>>, dialer |-> "new", acceptor |-> "new"]

EstInit ==
    /\ registry = [a \in Peers \X Ports |-> 0]
    /\ lis = <<>>
    /\ nextListenPort = ListenPortBase /\ nextOrdinal = 0
    /\ peerIPs = {} /\ nextIPv4 = 0
    /\ partitions = {} /\ targets = {}
    /\ conns = <<>>
    /\ dials = [d \in Dialers |-> NoDial]
    /\ lost = <<>>

(* peerIPLocked: a literal keeps its own family, a name gets an address of *)
(* the family once.                                                        *)
PeerIPFails(name, family) ==
    IF name \in Literal6 THEN family # 6
    ELSE /\ <<name, family>> \notin peerIPs
         /\ family = 4 /\ nextIPv4 >= SpaceV4

PeerIP(name, family) ==
    IF name \in Literal6 \/ <<name, family>> \in peerIPs
    THEN UNCHANGED <<peerIPs, nextIPv4>>
    ELSE /\ peerIPs' = IF PeerIPFails(name, family) THEN peerIPs
                       ELSE peerIPs \cup {<<name, family>>}
         /\ nextIPv4' = IF family = 4 THEN nextIPv4 + 1 ELSE nextIPv4

-----------------------------------------------------------------------------
(* Listen, in one section under n.mu.                                      *)
Rotate(port, steps) ==
    ListenPortBase + ((port - ListenPortBase + steps)
                        % (MaxPort - ListenPortBase + 1))

(* Ports tried when none was asked for, until a free one.                  *)
FreeAfter(peer, steps) ==
    /\ registry[<<peer, Rotate(nextListenPort, steps)>>] = 0
    /\ \A s \in 0..(steps - 1) :
          registry[<<peer, Rotate(nextListenPort, s)>>] # 0

Bind(peer, port, network) ==
    /\ registry[<<peer, port>>] = 0
    /\ PeerIP(peer, AddressFamily(network))
    /\ IF PeerIPFails(peer, AddressFamily(network))
       THEN UNCHANGED <<registry, lis, lost>>
       ELSE /\ lis' = Append(lis, [addr |-> <<peer, port>>, network |-> network,
                                   incoming |-> <<>>, reserved |-> 0,
                                   closed |-> FALSE, closer |-> "none"])
            /\ registry' = [registry EXCEPT ![<<peer, port>>] = Len(lis) + 1]
            /\ lost' = Append(lost, 0)
    /\ UNCHANGED <<nextOrdinal, partitions, targets, conns, dials>>

ListenOn(peer, port, network) ==
    /\ Bind(peer, port, network)
    /\ UNCHANGED nextListenPort

ListenAnywhere(peer, network) ==
    \E steps \in 0..(MaxPort - ListenPortBase) :
        /\ FreeAfter(peer, steps)
        /\ nextListenPort' = Rotate(nextListenPort, steps + 1)
        /\ Bind(peer, Rotate(nextListenPort, steps), network)

Listen == /\ Len(lis) < MaxListeners
          /\ \E peer \in Peers, network \in Networks :
                \/ \E port \in Ports : ListenOn(peer, port, network)
                \/ ListenAnywhere(peer, network)

-----------------------------------------------------------------------------
(* DialContext.  The critical sections come in this order; a dial that     *)
(* fails, or is done, is idle again.                                       *)
Steps   == {"idle", "check", "wait", "lookup", "reserve", "ordinal",
            "address", "register", "fill", "discard"}
Holding == {"ordinal", "address", "register", "fill"}  \* a reserved slot

GoTo(d, step) == dials' = [dials EXCEPT ![d].at = step]
Returns(d)    == dials' = [dials EXCEPT ![d] = NoDial]

(* The pair a dial is subject to.  An unnamed dialer is called after its   *)
(* ordinal once it has one.                                                *)
LocalName(d) == IF dials[d].name = Unnamed THEN dials[d].ordinal ELSE dials[d].name
Pair(d)      == <<LocalName(d), dials[d].peer>>

Dial(d) ==
    /\ dials[d].at = "idle"
    /\ nextOrdinal < MaxOrdinals
    /\ \E name \in Names \cup {Unnamed}, network \in Networks, peer \in Peers,
          port \in Ports \cup {Anyport} :
          dials' = [dials EXCEPT ![d] =
                      NewDial(IF name = Unnamed THEN "lookup" ELSE "check",
                              name, network, peer, port)]
    /\ UNCHANGED <<registry, lis, book, nextOrdinal, partitions, targets, conns,
                   lost>>

(* waitUnpartitioned: check under partMu, wait for a change, check again.  *)
CheckPartition(d) ==
    /\ dials[d].at = "check"
    /\ GoTo(d, IF Pair(d) \in partitions THEN "wait" ELSE "lookup")
    /\ UNCHANGED <<registry, lis, book, nextOrdinal, partitions, targets, conns,
                   lost>>

(* The context of a dial that waits is done.                               *)
Cancel(d) ==
    /\ dials[d].at = "wait"
    /\ Returns(d)
    /\ UNCHANGED <<registry, lis, book, nextOrdinal, partitions, targets, conns,
                   lost>>

(* The listeners a dial may mean.                                          *)
Matches(d) ==
    {l \in 1..Len(lis) :
        /\ registry[lis[l].addr] = l
        /\ lis[l].addr[1] = dials[d].peer
        /\ dials[d].port \in {Anyport, lis[l].addr[2]}
        /\ dials[d].network # "tcp" =>
              AddressFamily(dials[d].network) = AddressFamily(lis[l].network)}

(* What the dial asked for is not needed again.                            *)
Lookup(d) ==
    /\ dials[d].at = "lookup"
    /\ IF Cardinality(Matches(d)) = 1
       THEN \E l \in Matches(d) :
               dials' = [dials EXCEPT ![d].at = "reserve", ![d].l = l,
                                      ![d].port = Anyport]
       ELSE Returns(d)
    /\ UNCHANGED <<registry, lis, book, nextOrdinal, partitions, targets, conns,
                   lost>>

(* l.mu is free: the listener's Close holds it until it has deregistered.  *)
Unlocked(l) == lis[l].closer # "deregister"

(* reserve.                                                                *)
(* Seeded fault: reservations are not counted against the backlog.         *)
FullQueue(l) == Len(lis[l].incoming) >= Backlog

Full(l) == Len(lis[l].incoming) + lis[l].reserved >= Backlog

Reserve(d) ==
    LET l == dials[d].l
    IN  /\ dials[d].at = "reserve"
        /\ Unlocked(l)
        /\ IF lis[l].closed \/ Full(l)
           THEN Returns(d) /\ UNCHANGED lis
           ELSE /\ lis' = [lis EXCEPT ![l].reserved = @ + 1]
                /\ GoTo(d, "ordinal")
        /\ UNCHANGED <<registry, book, nextOrdinal, partitions, targets, conns,
                       lost>>

(* Ordinals are numbered from 1 here, so that conns is a sequence.         *)
TakeOrdinal(d) ==
    /\ dials[d].at = "ordinal"
    /\ nextOrdinal' = nextOrdinal + 1
    /\ dials' = [dials EXCEPT ![d].at = "address", ![d].ordinal = nextOrdinal + 1]
    /\ conns' = Append(conns, NewConn(dials[d].l))
    /\ UNCHANGED <<registry, lis, book, partitions, targets, lost>>

AssignAddress(d) ==
    LET l      == dials[d].l
        family == AddressFamily(lis[l].network)
    IN  /\ dials[d].at = "address"
        /\ PeerIP(LocalName(d), family)
        /\ IF PeerIPFails(LocalName(d), family)
           THEN Returns(d) /\ lost' = [lost EXCEPT ![l] = @ + 1]
           ELSE GoTo(d, "register") /\ UNCHANGED lost
        /\ UNCHANGED <<registry, lis, nextListenPort, nextOrdinal, partitions,
                       targets, conns>>

(* registerReset: both ends under the pair of names.                       *)
RegisterReset(d) ==
    /\ dials[d].at = "register"
    /\ targets' = targets \cup {<<Pair(d), dials[d].ordinal, s>> : s \in Sides}
    /\ conns' = [conns EXCEPT ![dials[d].ordinal].pair = Pair(d)]
    /\ GoTo(d, "fill")
    /\ UNCHANGED <<registry, lis, book, nextOrdinal, partitions, lost>>

(* deregisterReset, the second half of conn.Close.  The first, the close   *)
(* of c.closed, is seen by no other goroutine of this model.               *)
Forget(c, side) == targets' = targets \ {<<conns[c].pair, c, side>>}

(* Seeded fault: a listener closed meanwhile keeps the slot reserved, or   *)
(* gets the connection queued all the same.                                *)
FillKeepsSlot(d) ==
    LET l == dials[d].l
        c == dials[d].ordinal
    IN  /\ dials[d].at = "fill"
        /\ Unlocked(l)
        /\ IF lis[l].closed
           THEN /\ conns' = [conns EXCEPT ![c].acceptor = "late"]
                /\ GoTo(d, "discard")
                /\ UNCHANGED lis
           ELSE /\ lis' = [lis EXCEPT ![l].reserved = @ - 1,
                                      ![l].incoming = Append(@, c)]
                /\ conns' = [conns EXCEPT ![c].dialer = "open"]
                /\ Returns(d)
        /\ UNCHANGED <<registry, book, nextOrdinal, partitions, targets, lost>>

FillUnchecked(d) ==
    LET l == dials[d].l
        c == dials[d].ordinal
    IN  /\ dials[d].at = "fill"
        /\ Unlocked(l)
        /\ lis' = [lis EXCEPT ![l].reserved = @ - 1,
                              ![l].incoming = Append(@, c)]
        /\ conns' = [conns EXCEPT ![c].dialer = "open"]
        /\ Returns(d)
        /\ UNCHANGED <<registry, book, nextOrdinal, partitions, targets, lost>>

(* fill, after which DialContext returns the dialer's end; the end that    *)
(* came too late is closed first, with l.mu free again.                    *)
Fill(d) ==
    LET l == dials[d].l
        c == dials[d].ordinal
    IN  /\ dials[d].at = "fill"
        /\ Unlocked(l)
        /\ IF lis[l].closed
           THEN /\ lis' = [lis EXCEPT ![l].reserved = @ - 1]
                /\ conns' = [conns EXCEPT ![c].acceptor = "late"]
                /\ GoTo(d, "discard")
           ELSE /\ lis' = [lis EXCEPT ![l].reserved = @ - 1,
                                      ![l].incoming = Append(@, c)]
                /\ conns' = [conns EXCEPT ![c].dialer = "open"]
                /\ Returns(d)
        /\ UNCHANGED <<registry, book, nextOrdinal, partitions, targets, lost>>

FillForgets(d) ==
    LET c == dials[d].ordinal
    IN  /\ dials[d].at = "discard"
        /\ conns' = [conns EXCEPT ![c].dialer = "open", ![c].acceptor = "closed"]
        /\ Forget(c, "acceptor")
        /\ Returns(d)
        /\ UNCHANGED <<registry, lis, book, nextOrdinal, partitions, lost>>

-----------------------------------------------------------------------------
(* Seeded fault: Accept takes the youngest.                                *)
AcceptLast(l) ==
    LET queued == lis[l].incoming
    IN  /\ queued # <<>>
        /\ lis' = [lis EXCEPT ![l].incoming = SubSeq(@, 1, Len(@) - 1)]
        /\ conns' = [conns EXCEPT ![queued[Len(queued)]].acceptor = "open"]
        /\ UNCHANGED <<registry, book, nextOrdinal, partitions, targets, dials, lost>>

(* Accept takes a queued connection, even from a listener that is being    *)
(* closed; with none there and the listener closed it fails.               *)
Accept(l) ==
    /\ lis[l].incoming # <<>>
    /\ lis' = [lis EXCEPT ![l].incoming = Tail(@)]
    /\ conns' = [conns EXCEPT ![Head(lis[l].incoming)].acceptor = "open"]
    /\ UNCHANGED <<registry, book, nextOrdinal, partitions, targets, dials, lost>>

(* listener.Close: the flag, then deregister with l.mu still held, then    *)
(* the queue, one connection at a time.                                    *)
CloseListener(l) ==
    /\ ~lis[l].closed
    /\ lis' = [lis EXCEPT ![l].closed = TRUE, ![l].closer = "deregister"]
    /\ UNCHANGED <<registry, book, nextOrdinal, partitions, targets, conns, dials,
                   lost>>

Deregister(l) ==
    /\ lis[l].closer = "deregister"
    /\ registry' = [registry EXCEPT ![lis[l].addr] = 0]
    /\ lis' = [lis EXCEPT ![l].closer = "drain"]
    /\ UNCHANGED <<book, nextOrdinal, partitions, targets, conns, dials, lost>>

(* Seeded fault: the drain waits for one more.                             *)
DrainWaits(l) ==
    /\ lis[l].closer = "drain"
    /\ lis[l].incoming # <<>>
    /\ lis' = [lis EXCEPT ![l].incoming = Tail(@), ![l].closer = "discard"]
    /\ conns' = [conns EXCEPT ![Head(lis[l].incoming)].acceptor = "dropped"]
    /\ UNCHANGED <<registry, book, nextOrdinal, partitions, targets, dials, lost>>

Drain(l) ==
    /\ lis[l].closer = "drain"
    /\ IF lis[l].incoming = <<>>
       THEN /\ lis' = [lis EXCEPT ![l].closer = "done"]
            /\ UNCHANGED conns
       ELSE /\ lis' = [lis EXCEPT ![l].incoming = Tail(@), ![l].closer = "discard"]
            /\ conns' = [conns EXCEPT ![Head(lis[l].incoming)].acceptor = "dropped"]
    /\ UNCHANGED <<registry, book, nextOrdinal, partitions, targets, dials, lost>>

(* Seeded fault: the drained connection stays registered for Reset.        *)
DrainKeepsTarget(l) ==
    /\ lis[l].closer = "discard"
    /\ \E c \in 1..Len(conns) :
          /\ conns[c].l = l /\ conns[c].acceptor = "dropped"
          /\ conns' = [conns EXCEPT ![c].acceptor = "closed"]
    /\ lis' = [lis EXCEPT ![l].closer = "drain"]
    /\ UNCHANGED <<registry, book, nextOrdinal, partitions, targets, dials, lost>>

(* The Close of the connection just taken out of the queue ends.           *)
DrainForgets(l) ==
    /\ lis[l].closer = "discard"
    /\ \E c \in 1..Len(conns) :
          /\ conns[c].l = l /\ conns[c].acceptor = "dropped"
          /\ conns' = [conns EXCEPT ![c].acceptor = "closed"]
          /\ Forget(c, "acceptor")
    /\ lis' = [lis EXCEPT ![l].closer = "drain"]
    /\ UNCHANGED <<registry, book, nextOrdinal, partitions, dials, lost>>

(* conn.Close by whoever holds an end, and its deregisterReset.            *)
CloseConn(c, side) ==
    /\ conns[c][side] = "open"
    /\ conns' = [conns EXCEPT ![c][side] = "closing"]
    /\ UNCHANGED <<registry, lis, book, nextOrdinal, partitions, targets, dials,
                   lost>>

ForgetConn(c, side) ==
    /\ conns[c][side] = "closing"
    /\ conns' = [conns EXCEPT ![c][side] = "closed"]
    /\ Forget(c, side)
    /\ UNCHANGED <<registry, lis, book, nextOrdinal, partitions, dials, lost>>

(* Reset takes the ends registered for the pair out of the registry; what  *)
(* it does to them next is a matter of the connection.                     *)
Reset(pair) ==
    /\ targets' = {t \in targets : t[1] # pair}
    /\ UNCHANGED <<registry, lis, book, nextOrdinal, partitions, conns, dials, lost>>

(* Partition and Heal: no-ops aside, the change wakes every waiting dial.  *)
WakeDials ==
    dials' = [d \in Dialers |-> IF dials[d].at = "wait"
                                THEN [dials[d] EXCEPT !.at = "check"]
                                ELSE dials[d]]

Partition(pair) ==
    /\ pair \notin partitions
    /\ partitions' = partitions \cup {pair}
    /\ WakeDials
    /\ UNCHANGED <<registry, lis, book, nextOrdinal, targets, conns, lost>>

(* Seeded fault: Heal wakes nobody.                                        *)
HealSilently(pair) ==
    /\ pair \in partitions
    /\ partitions' = partitions \ {pair}
    /\ UNCHANGED <<registry, lis, book, nextOrdinal, targets, conns, dials, lost>>

Heal(pair) ==
    /\ pair \in partitions
    /\ partitions' = partitions \ {pair}
    /\ WakeDials
    /\ UNCHANGED <<registry, lis, book, nextOrdinal, targets, conns, lost>>

Pairs == Names \X Peers

DialStep(d) ==
    \/ CheckPartition(d) \/ Lookup(d) \/ Reserve(d) \/ TakeOrdinal(d)
    \/ AssignAddress(d) \/ RegisterReset(d) \/ Fill(d) \/ FillForgets(d)

CloserStep(l) == Deregister(l) \/ Drain(l) \/ DrainForgets(l)

EstNext ==
    \/ Listen
    \/ \E d \in Dialers : Dial(d) \/ Cancel(d) \/ DialStep(d)
    \/ \E l \in 1..Len(lis) :
          Accept(l) \/ CloseListener(l) \/ CloserStep(l)
    \/ \E c \in 1..Len(conns), side \in Sides :
          CloseConn(c, side) \/ ForgetConn(c, side)
    \/ \E pair \in Pairs : Partition(pair) \/ Heal(pair) \/ Reset(pair)

EstSpec == EstInit /\ [][EstNext]_estVars

(* A dial past its wait never blocks, so the scheduler brings it through;  *)
(* the same for a listener's Close.  Nothing is assumed of Heal or of the  *)
(* callers.                                                                *)
EstFairness ==
    /\ \A d \in Dialers : WF_estVars(DialStep(d))
    /\ \A l \in 1..MaxListeners : WF_estVars(l <= Len(lis) /\ CloserStep(l))

EstFairSpec == EstSpec /\ EstFairness

-----------------------------------------------------------------------------
EndStates == {"new", "open", "closing", "late", "dropped", "closed"}

EstTypeOK ==
    /\ registry \in [Peers \X Ports -> 0..Len(lis)]
    /\ \A l \in 1..Len(lis) :
          /\ lis[l].addr \in Peers \X Ports /\ lis[l].network \in Networks
          /\ lis[l].incoming \in Seq(1..Len(conns))
          /\ lis[l].reserved \in Nat /\ lis[l].closed \in BOOLEAN
          /\ lis[l].closer \in CloserSteps
          /\ lost[l] \in Nat
    /\ Len(lost) = Len(lis)
    /\ nextListenPort \in ListenPortBase..MaxPort
    /\ nextOrdinal = Len(conns)
    /\ \A c \in 1..Len(conns) :
          /\ conns[c].l \in 1..Len(lis)
          /\ conns[c].dialer \in EndStates /\ conns[c].acceptor \in EndStates
    /\ partitions \subseteq Pairs
    /\ \A d \in Dialers : dials[d].at \in Steps

(* The dials that hold a slot of l between reserve and fill.               *)
Holders(l) == {d \in Dialers : dials[d].at \in Holding /\ dials[d].l = l}

(* The send in fill never blocks, though it is made with l.mu held: queue  *)
(* and reservations together stay within the channel, and every dial on    *)
(* its way to fill has its reservation.                                    *)
FillHasRoom ==
    \A l \in 1..Len(lis) :
        /\ Len(lis[l].incoming) + lis[l].reserved <= Backlog
        /\ lis[l].reserved >= Cardinality(Holders(l))

(* A slot stays reserved exactly for the dials under way and for those     *)
(* that peerIPLocked made fail in between: no other way out leaks one.     *)
ReservationsAccounted ==
    \A l \in 1..Len(lis) :
        lis[l].reserved = Cardinality(Holders(l)) + lost[l]

(* listener.go: "A successful reserve must be matched by exactly one fill",*)
(* so that no slot is reserved for a dial that has returned.               *)
ReserveMatchedByFill ==
    \A l \in 1..Len(lis) : lis[l].reserved = Cardinality(Holders(l))

(* No connection is forgotten: the acceptor's end of one that DialContext  *)
(* has returned was accepted or closed, or is in the queue of a listener   *)
(* whose Accept or Close will still find it, and in no other place.        *)
Queued(c) == {p \in (1..Len(lis)) \X (1..Backlog) :
                p[2] <= Len(lis[p[1]].incoming) /\ lis[p[1]].incoming[p[2]] = c}

NoneStranded ==
    \A c \in 1..Len(conns) :
        /\ Cardinality(Queued(c)) =
              IF conns[c].acceptor = "new" /\ conns[c].dialer # "new" THEN 1 ELSE 0
        /\ \A p \in Queued(c) : p[1] = conns[c].l /\ lis[p[1]].closer # "done"

(* reset.go: the registry does not grow with the connections closed, so    *)
(* nothing puts an end back that its Close took out, whoever closed it:    *)
(* the holder, fill or the listener's Close.  And Reset finds both ends of *)
(* a connection or neither, until one of them is closed.                   *)
ResetRegistrySound ==
    /\ \A t \in targets : conns[t[2]][t[3]] # "closed"
    /\ \A c \in 1..Len(conns) :
          conns[c].dialer # "closed" /\ conns[c].acceptor # "closed" =>
            (<<conns[c].pair, c, "dialer">> \in targets
               <=> <<conns[c].pair, c, "acceptor">> \in targets)

(* A dial only waits while its pair is partitioned: no Heal is missed      *)
(* between the check and the wait.                                         *)
WaitingIsPartitioned ==
    \A d \in Dialers : dials[d].at = "wait" => Pair(d) \in partitions

(* The listeners implement the queues AcceptQueue promises: FIFO, each     *)
(* connection queued and taken once, and none queued after Close has set   *)
(* its flag, however many dials are between reserve and fill.              *)
Waiting      == [l \in 1..Len(lis) |-> lis[l].incoming]
PhaseOf(r)   == IF ~r.closed THEN "open"
                ELSE IF r.closer = "done" THEN "gone" ELSE "closed"
Phases       == [l \in 1..Len(lis) |-> PhaseOf(lis[l])]
Seen(end)    == IF end \in {"new", "open"} THEN end ELSE "closed"
AcceptorEnds == [c \in 1..Len(conns) |-> Seen(conns[c].acceptor)]

Promise == INSTANCE AcceptQueue WITH
    Capacity <- Backlog, waiting <- Waiting, phase <- Phases, ends <- AcceptorEnds

ImplementsQueue == Promise!QueueSpec

(* A dial returns, unless a partition holds it.                            *)
DialReturns ==
    \A d \in Dialers : dials[d].at # "idle" ~>
                         dials[d].at = "idle" \/ Pair(d) \in partitions

(* A listener's Close gets through, whatever the dials under way do.       *)
CloseCompletes ==
    \A l \in 1..MaxListeners :
        (l <= Len(lis) /\ lis[l].closed) ~> (l <= Len(lis) /\ lis[l].closer = "done")
=============================================================================
