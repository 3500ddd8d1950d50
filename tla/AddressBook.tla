---------------------------- MODULE AddressBook -----------------------------
(***************************************************************************)
(* Who an address means: the address book of a Network (addressing.go),    *)
(* the parsing of addresses (addr.go), and every operation that goes       *)
(* through it: Listen, DialContext, Partition, Heal and Reset.             *)
(* Establish.tla has the same operations on canonical names, with the      *)
(* interleavings of many dials.                                            *)
(***************************************************************************)
EXTENDS Integers, Sequences, FiniteSets

CONSTANTS
    ListenAddrs,     \* addresses Listen is called with
    DialAddrs,       \* addresses that are dialed
    LocalNames,      \* what a dialer names itself; NoHost for none
    PairAddrs,       \* what Partition, Heal and Reset are called with
    Networks,        \* the networks asked for: "tcp", "tcp4", "tcp6"
    Space,           \* synthetic addresses there are, by family
    ListenPortBase, MaxPort, \* listenPortBase and maxPort
    MaxListens,      \* bound: listeners created
    MaxOrdinals      \* bound: connection ordinals handed out

(***************************************************************************)
(* A host is a name, a literal address, or what an address without a host  *)
(* leaves: <<kind, which>>.  "v4" and "v6" count the synthetic ranges, and *)
(* what lies beyond; a "mapped" host spells the v4 address as ::ffff:a.b.c.d*)
(***************************************************************************)
NoHost == <<"none", 0>>
Ephemeral(ordinal) == <<"ephemeral", ordinal>>
Wildcard(n)        == <<"wildcard", n>>

(* An address: the host, and the port as it was written.                   *)
NoPort == -1                  \* "server"; <<NoHost, NoPort>> is ""
Explicit(a) == a[2] > 0       \* neither "server" nor "server:0"
Ports  == 1..MaxPort

Families == {4, 6}

ASSUME BookPorts == /\ ListenPortBase \in Nat \ {0} /\ MaxPort \in Nat
                    /\ ListenPortBase <= MaxPort
ASSUME BookSpace == Space \in [Families -> Nat]
ASSUME BookCaps  == MaxListens \in Nat /\ MaxOrdinals \in Nat
ASSUME BookAsked == /\ Networks \subseteq {"tcp", "tcp4", "tcp6"}
                    /\ \A a \in DialAddrs : a[1] # NoHost

VARIABLES
    ipOwners,        \* n.ipOwners: whom an address belongs to
    peerIPs,         \* n.peerIPs: the address of a name, by family
    nextIP,          \* n.nextIPv4 and n.nextIPv6
    nextWildcard,    \* n.nextWildcard
    nextListenPort,  \* n.nextListenPort
    nextOrdinal,     \* n.nextOrdinal
    lis,             \* the listeners created, in order
    registry,        \* n.listeners: the listener at a <<peer, port>>
    partitions,      \* n.partitions: pairs of peers, as sets
    dial,            \* the dial under way
    conns            \* the connections established

names    == <<nextWildcard, nextListenPort, nextOrdinal>>
bookVars == <<ipOwners, peerIPs, nextIP, names, lis, registry, partitions, dial,
              conns>>

-----------------------------------------------------------------------------
(* f with one more entry.                                                  *)
Put(f, x, y) == [z \in DOMAIN f \cup {x} |-> IF z = x THEN y ELSE f[z]]

(* parseLiteralIP, which also undoes the mapping.                          *)
Literal(host) == host[1] \in {"v4", "v6", "mapped"}
IP(host)      == IF host[1] = "mapped" THEN <<"v4", host[2]>> ELSE host

AddressFamily(network, host) ==
    CASE network = "tcp6" -> 6
      [] network = "tcp4" -> 4
      [] OTHER -> IF Literal(host) /\ IP(host)[1] = "v6" THEN 6 ELSE 4

(* canonicalPeerLocked: whom a host means, and the book once it was asked. *)
CanonicalPeer(host) ==
    IF ~Literal(host) THEN host
    ELSE IF IP(host) \in DOMAIN ipOwners THEN ipOwners[IP(host)] ELSE IP(host)

(* Seeded fault: a literal is not reserved.                                *)
ReservesNothing(owners, host) == owners

Reserved(owners, host) ==
    IF Literal(host) /\ IP(host) \notin DOMAIN owners
    THEN Put(owners, IP(host), IP(host)) ELSE owners

(* peerIPLocked.  The loop stops at the first address that is free, or at  *)
(* the end of the range.                                                   *)
Synthetic(family, v) == <<IF family = 4 THEN "v4" ELSE "v6", v>>

StopsAt(owners, family, v) ==
    /\ v >= Space[family] \/ Synthetic(family, v) \notin DOMAIN owners
    /\ \A u \in nextIP[family]..(v - 1) :
          u < Space[family] /\ Synthetic(family, u) \in DOMAIN owners

(* Seeded fault: the address is not entered under its new owner.           *)
AllocateQuietly(owners, peer, family, v) ==
    /\ peerIPs' = Put(peerIPs, <<peer, family>>, Synthetic(family, v))
    /\ ipOwners' = owners

Allocate(owners, peer, family, v) ==
    /\ peerIPs' = Put(peerIPs, <<peer, family>>, Synthetic(family, v))
    /\ ipOwners' = Put(owners, Synthetic(family, v), peer)

(* The three ways out: an address, given or found, or an error.            *)
PeerIPIs(owners, peer, family, ip) ==
    \/ /\ Literal(peer) /\ AddressFamily("tcp", peer) = family
       /\ ip = IP(peer)
       /\ ipOwners' = Put(owners, IP(peer), peer)
       /\ UNCHANGED <<peerIPs, nextIP>>
    \/ /\ ~Literal(peer) /\ <<peer, family>> \in DOMAIN peerIPs
       /\ ip = peerIPs[<<peer, family>>]
       /\ ipOwners' = owners
       /\ UNCHANGED <<peerIPs, nextIP>>
    \/ /\ ~Literal(peer) /\ <<peer, family>> \notin DOMAIN peerIPs
       /\ \E v \in nextIP[family]..(Space[family] - 1) :
             /\ StopsAt(owners, family, v)
             /\ ip = Synthetic(family, v)
             /\ Allocate(owners, peer, family, v)
             /\ nextIP' = [nextIP EXCEPT ![family] = v + 1]

PeerIPFails(owners, peer, family) ==
    /\ ipOwners' = owners
    /\ UNCHANGED peerIPs
    /\ \/ /\ Literal(peer) /\ AddressFamily("tcp", peer) # family
          /\ UNCHANGED nextIP
       \/ /\ ~Literal(peer) /\ <<peer, family>> \notin DOMAIN peerIPs
          /\ \E v \in nextIP[family]..(nextIP[family] + Cardinality(DOMAIN owners)) :
                /\ v >= Space[family] /\ StopsAt(owners, family, v)
                /\ nextIP' = [nextIP EXCEPT ![family] = v + 1]

(* The addresses peerIPLocked may return: the literal, or one in a range.  *)
Addresses(peer, family) ==
    IF Literal(peer) THEN {IP(peer)}
    ELSE {Synthetic(family, v) : v \in 0..(Space[family] - 1)}

-----------------------------------------------------------------------------
NoDial == [on |-> FALSE, network |-> "tcp", target |-> NoHost, port |-> NoPort,
           peer |-> NoHost, local |-> NoHost]

BookInit ==
    /\ ipOwners = << >> /\ peerIPs = << >> /\ nextIP = [f \in Families |-> 0]
    /\ nextWildcard = 0 /\ nextListenPort = ListenPortBase /\ nextOrdinal = 0
    /\ lis = << >> /\ registry = << >>
    /\ partitions = {}
    /\ dial = NoDial /\ conns = << >>

(* Listen, in one section under n.mu.                                      *)
(* Seeded fault: the rotation runs past the last port.                     *)
RotateOn(port, steps) == port + steps

Rotate(port, steps) ==
    ListenPortBase + ((port - ListenPortBase + steps)
                        % (MaxPort - ListenPortBase + 1))

Takes(peer, laddr, port) ==
    /\ <<peer, port>> \notin DOMAIN registry
    /\ \/ /\ Explicit(laddr) /\ port = laddr[2]
          /\ UNCHANGED nextListenPort
       \/ /\ ~Explicit(laddr)
          /\ \E steps \in 0..(MaxPort - ListenPortBase) :
                /\ port = Rotate(nextListenPort, steps)
                /\ \A s \in 0..(steps - 1) :
                      <<peer, Rotate(nextListenPort, s)>> \in DOMAIN registry
                /\ nextListenPort' = Rotate(nextListenPort, steps + 1)

InUse(peer, laddr) ==
    \A port \in IF Explicit(laddr) THEN {laddr[2]} ELSE ListenPortBase..MaxPort :
        <<peer, port>> \in DOMAIN registry

(* A literal that is the address of a name cannot be listened on.          *)
OfAnother(host) == Literal(host) /\ CanonicalPeer(host) # IP(host)

Listen(network, laddr) ==
    LET asked  == IF laddr[1] = NoHost THEN Wildcard(nextWildcard) ELSE laddr[1]
        peer   == CanonicalPeer(asked)
        owners == Reserved(ipOwners, asked)
        family == AddressFamily(network, peer)
    IN  /\ Len(lis) < MaxListens /\ nextWildcard < MaxListens
        /\ nextIP[family] <= Space[family]  \* bound: one Listen finds none left
        /\ ~OfAnother(asked)
        /\ nextWildcard' = IF laddr[1] = NoHost THEN nextWildcard + 1
                           ELSE nextWildcard
        /\ \/ /\ InUse(peer, laddr) /\ ipOwners' = owners
              /\ UNCHANGED <<peerIPs, nextIP, nextListenPort, lis, registry>>
           \/ \E port \in Ports :
                 /\ Takes(peer, laddr, port)
                 /\ \/ /\ PeerIPFails(owners, peer, family)
                       /\ UNCHANGED <<lis, registry>>
                    \/ \E ip \in Addresses(peer, family) :
                          /\ PeerIPIs(owners, peer, family, ip)
                          /\ lis' = Append(lis, [peer |-> peer, port |-> port, ip |-> ip,
                                                 network |-> network, open |-> TRUE])
                          /\ registry' = Put(registry, <<peer, port>>, Len(lis) + 1)
        /\ UNCHANGED <<nextOrdinal, partitions, dial, conns>>

(* Seeded fault: a second Close deregisters the address again.             *)
CloseAgain(l) ==
    /\ lis' = [lis EXCEPT ![l].open = FALSE]
    /\ registry' = [k \in DOMAIN registry \ {<<lis[l].peer, lis[l].port>>} |-> registry[k]]
    /\ UNCHANGED <<ipOwners, peerIPs, nextIP, names, partitions, dial, conns>>

(* listener.Close: deregister takes out whatever is at the address.        *)
CloseListener(l) ==
    /\ lis[l].open
    /\ lis' = [lis EXCEPT ![l].open = FALSE]
    /\ registry' = [k \in DOMAIN registry \ {<<lis[l].peer, lis[l].port>>} |-> registry[k]]
    /\ UNCHANGED <<ipOwners, peerIPs, nextIP, names, partitions, dial, conns>>

-----------------------------------------------------------------------------
(* DialContext up to the lookup: both hosts are resolved, and the names it *)
(* goes on with are kept through a wait for Heal.                          *)
Resolve(network, a, name) ==
    /\ ~dial.on /\ nextOrdinal < MaxOrdinals
    /\ ipOwners' = Reserved(Reserved(ipOwners, a[1]), name)
    /\ dial' = [on |-> TRUE, network |-> network, target |-> a[1], port |-> a[2],
                peer |-> CanonicalPeer(a[1]), local |-> CanonicalPeer(name)]
    /\ UNCHANGED <<peerIPs, nextIP, names, lis, registry, partitions, conns>>

(* The context is done.                                                    *)
GiveUp ==
    /\ dial.on
    /\ dial' = NoDial
    /\ UNCHANGED <<ipOwners, peerIPs, nextIP, names, lis, registry, partitions, conns>>

(* The listeners a dial may mean.                                          *)
Matches(d) ==
    {l \in 1..Len(lis) :
        /\ <<lis[l].peer, lis[l].port>> \in DOMAIN registry
        /\ registry[<<lis[l].peer, lis[l].port>>] = l
        /\ lis[l].peer = d.peer
        /\ d.port > 0 => lis[l].port = d.port
        /\ d.network # "tcp" => AddressFamily(d.network, d.peer)
                                  = AddressFamily(lis[l].network, lis[l].peer)
        /\ Literal(d.target) => lis[l].ip = IP(d.target)}

(* Seeded fault: the pair has the address that was dialed.                 *)
PairDialed(local) == {local, dial.target}

Pair(local) == {local, dial.peer}

(* The rest of it: lookup, ordinal, address.  Each is a section of its own *)
(* in the code; in between, the book only grows.                           *)
Connect ==
    /\ dial.on
    /\ dial.local # NoHost => {dial.local, dial.peer} \notin partitions
    /\ dial' = NoDial
    /\ \/ /\ Cardinality(Matches(dial)) # 1
          /\ UNCHANGED <<ipOwners, peerIPs, nextIP, nextOrdinal, conns>>
       \/ /\ Cardinality(Matches(dial)) = 1
          /\ nextOrdinal' = nextOrdinal + 1
          /\ \E l \in Matches(dial) :
                LET local  == IF dial.local = NoHost THEN Ephemeral(nextOrdinal)
                              ELSE dial.local
                    family == AddressFamily(lis[l].network, lis[l].peer)
                IN  \/ /\ PeerIPFails(ipOwners, local, family)
                       /\ UNCHANGED conns
                    \/ \E ip \in Addresses(local, family) :
                          /\ PeerIPIs(ipOwners, local, family, ip)
                          /\ conns' = Append(conns, [pair |-> Pair(local), local |-> ip,
                                                     remote |-> lis[l].ip,
                                                     named |-> dial.local # NoHost])
    /\ UNCHANGED <<nextWildcard, nextListenPort, lis, registry, partitions>>

-----------------------------------------------------------------------------
(* validatePartitionPair looks at the strings; the key is made of peers.   *)
ValidPair(a, b) == a # <<NoHost, NoPort>> /\ b # <<NoHost, NoPort>> /\ a # b
Key(a, b)       == {CanonicalPeer(a[1]), CanonicalPeer(b[1])}

Name(a, b) == /\ ValidPair(a, b)
              /\ ipOwners' = Reserved(Reserved(ipOwners, a[1]), b[1])
              /\ UNCHANGED <<peerIPs, nextIP, names, lis, registry, dial, conns>>

Partition(a, b) == Name(a, b) /\ partitions' = partitions \cup {Key(a, b)}
Heal(a, b)      == Name(a, b) /\ partitions' = partitions \ {Key(a, b)}
Reset(a, b)     == Name(a, b) /\ UNCHANGED partitions

BookNext ==
    \/ \E network \in Networks, a \in ListenAddrs : Listen(network, a)
    \/ \E l \in 1..Len(lis) : CloseListener(l)
    \/ \E network \in Networks, a \in DialAddrs, name \in LocalNames :
          Resolve(network, a, name)
    \/ GiveUp
    \/ Connect
    \/ \E a, b \in PairAddrs : Partition(a, b) \/ Heal(a, b) \/ Reset(a, b)

BookSpec == BookInit /\ [][BookNext]_bookVars

-----------------------------------------------------------------------------
BookTypeOK ==
    /\ \A ip \in DOMAIN ipOwners : ip[1] \in {"v4", "v6"}
    /\ \A x \in DOMAIN peerIPs :
          /\ ~Literal(x[1])
          /\ peerIPs[x] \in {Synthetic(x[2], v) : v \in 0..(Space[x[2]] - 1)}
    /\ nextIP \in [Families -> Nat] /\ nextWildcard \in Nat /\ nextOrdinal \in Nat
    /\ nextListenPort \in ListenPortBase..MaxPort
    /\ \A k \in DOMAIN registry : k[2] \in Ports /\ registry[k] \in 1..Len(lis)
    /\ \A p \in partitions : Cardinality(p) \in {1, 2}
    /\ Len(conns) <= nextOrdinal

(* A name's address means that name, so no two names ever share one.       *)
AliasResolves ==
    \A x \in DOMAIN peerIPs :
        peerIPs[x] \in DOMAIN ipOwners /\ ipOwners[peerIPs[x]] = x[1]

(* Whom an address means never changes once anybody has used it: what a    *)
(* dial resolved before its wait still holds after it, and Heal and Reset  *)
(* find what Partition named.                                              *)
MeaningIsFixed ==
    [][\A ip \in DOMAIN ipOwners :
          ip \in DOMAIN ipOwners' /\ ipOwners'[ip] = ipOwners[ip]]_bookVars

(* The addresses that a connection shows for its ends, LocalAddr and       *)
(* RemoteAddr, name the pair that Partition, Heal and Reset know it by.    *)
EndsNamePair ==
    \A i \in 1..Len(conns) :
        {CanonicalPeer(conns[i].local), CanonicalPeer(conns[i].remote)} = conns[i].pair

(* Dialing the address that an open listener shows reaches that listener:  *)
(* no earlier listener's Close, no alias and no other port gets in between.*)
DialReachesListener ==
    \A l \in 1..Len(lis) :
        lis[l].open =>
            Matches([NoDial EXCEPT !.target = lis[l].ip, !.port = lis[l].port,
                                   !.peer = CanonicalPeer(lis[l].ip)]) = {l}

(* partition.go says of a dialer without a name "that peer is not          *)
(* targetable here under any name".                                        *)
UnnamedNotTargetable ==
    \A i \in 1..Len(conns) : conns[i].named \/ conns[i].pair \notin partitions
=============================================================================
