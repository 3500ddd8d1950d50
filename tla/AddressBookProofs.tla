------------------------- MODULE AddressBookProofs --------------------------
(***************************************************************************)
(* Proofs about AddressBook, for every set of addresses, names and         *)
(* networks in use, every address space and every range of ports.          *)
(***************************************************************************)
EXTENDS AddressBook, FiniteSetTheorems, TLAPS

-----------------------------------------------------------------------------
(* The inductive invariant, in named parts.                                *)

(* g has the entries of f.                                                 *)
Extends(f, g) == \A x \in DOMAIN f : x \in DOMAIN g /\ g[x] = f[x]

(* An address belongs to itself or to a name.                              *)
OwnersOK(f) ==
    \A ip \in DOMAIN f : ip[1] \in {"v4", "v6"} /\ (Literal(f[ip]) => f[ip] = ip)

(* A peer is canonical: a name, or an address that belongs to itself.      *)
Known(f, peer) == Literal(peer) => peer \in DOMAIN f /\ f[peer] = peer

Shows(f, ip, peer) == ip \in DOMAIN f /\ f[ip] = peer

IsSeq(s) == Len(s) \in Nat /\ s = [i \in 1..Len(s) |-> s[i]]

ListenersOK ==
    /\ IsSeq(lis)
    /\ \A l \in 1..Len(lis) :
          /\ DOMAIN lis[l] = {"peer", "port", "ip", "network", "open"}
          /\ lis[l].port \in Ports
          /\ Known(ipOwners, lis[l].peer)
          /\ Shows(ipOwners, lis[l].ip, lis[l].peer)

(* The registry has every listener that is open, and no second one at its  *)
(* address.                                                                *)
OpenRegistered ==
    \A l \in 1..Len(lis) :
        lis[l].open => /\ <<lis[l].peer, lis[l].port>> \in DOMAIN registry
                       /\ registry[<<lis[l].peer, lis[l].port>>] = l

DialOK == Known(ipOwners, dial.peer) /\ Known(ipOwners, dial.local)

ConnsOK ==
    /\ IsSeq(conns)
    /\ \A i \in 1..Len(conns) :
          /\ conns[i].local \in DOMAIN ipOwners /\ conns[i].remote \in DOMAIN ipOwners
          /\ conns[i].pair = {ipOwners[conns[i].local], ipOwners[conns[i].remote]}

BookInv == /\ BookTypeOK /\ OwnersOK(ipOwners) /\ AliasResolves
           /\ ListenersOK /\ OpenRegistered /\ DialOK /\ ConnsOK

-----------------------------------------------------------------------------
(* Functions, sequences and sets.                                          *)

LEMMA AppendFacts ==
    ASSUME NEW s, IsSeq(s), NEW e
    PROVE  /\ IsSeq(Append(s, e)) /\ Len(Append(s, e)) = Len(s) + 1
           /\ \A i \in 1..Len(s) : Append(s, e)[i] = s[i]
           /\ Append(s, e)[Len(s) + 1] = e
<1> DEFINE S == {s[i] : i \in 1..Len(s)} \cup {e}
<1>1. s \in [1..Len(s) -> S] /\ Len(s) \in Nat
  BY DEF IsSeq
<1>2. s \in Seq(S) /\ e \in S
  BY <1>1
<1> HIDE DEF S
<1>3. /\ Append(s, e) \in Seq(S) /\ Len(Append(s, e)) = Len(s) + 1
      /\ \A i \in 1..Len(s) : Append(s, e)[i] = s[i]
      /\ Append(s, e)[Len(s) + 1] = e
  BY <1>2
<1>4. IsSeq(Append(s, e))
  <2> DEFINE t == Append(s, e)
  <2>1. t \in Seq(S)
    BY <1>3
  <2> HIDE DEF t
  <2>2. Len(t) \in Nat /\ t = [i \in 1..Len(t) |-> t[i]]
    BY <2>1
  <2> QED
    BY <2>2 DEF IsSeq, t
<1> QED
  BY <1>3, <1>4

LEMMA PairCardinality ==
    ASSUME NEW a, NEW b
    PROVE  Cardinality({a, b}) \in {1, 2}
<1>1. IsFiniteSet({a}) /\ Cardinality({a}) = 1
  BY FS_Singleton
<1>2. {a, b} = {a} \cup {b}
  OBVIOUS
<1>3. Cardinality({a} \cup {b}) = IF b \in {a} THEN Cardinality({a}) ELSE Cardinality({a}) + 1
  BY <1>1, FS_AddElement
<1> QED
  BY <1>1, <1>2, <1>3

LEMMA ExtendsTransitive ==
    ASSUME NEW f, NEW g, NEW h, Extends(f, g), Extends(g, h)
    PROVE  Extends(f, h)
BY DEF Extends

(* A larger book knows what a smaller one does.                            *)
LEMMA ExtendsKeeps ==
    ASSUME NEW f, NEW g, Extends(f, g)
    PROVE  /\ \A peer : Known(f, peer) => Known(g, peer)
           /\ \A ip, peer : Shows(f, ip, peer) => Shows(g, ip, peer)
BY DEF Extends, Known, Shows

(* A rotation stays within the range of ports.                             *)
LEMMA RotateInRange ==
    ASSUME NEW port \in ListenPortBase..MaxPort, NEW steps \in Nat
    PROVE  Rotate(port, steps) \in ListenPortBase..MaxPort
<1> DEFINE n == MaxPort - ListenPortBase + 1
           k == port - ListenPortBase + steps
<1>1. n \in Nat \ {0} /\ k \in Nat
  BY BookPorts
<1> HIDE DEF n, k
<1>2. k % n \in 0..(n - 1)
  BY <1>1
<1>3. ListenPortBase + (k % n) \in ListenPortBase..MaxPort
  BY <1>2, BookPorts DEF n
<1> QED
  BY <1>3 DEF Rotate, n, k

-----------------------------------------------------------------------------
(* The address book.                                                       *)

(* An address that is reserved belongs to itself.                          *)
LEMMA ReservedFacts ==
    ASSUME NEW owners, OwnersOK(owners), NEW host
    PROVE  /\ Extends(owners, Reserved(owners, host))
           /\ OwnersOK(Reserved(owners, host))
           /\ Literal(host) => IP(host) \in DOMAIN Reserved(owners, host)
<1>1. CASE Literal(host) /\ IP(host) \notin DOMAIN owners
  <2>1. Reserved(owners, host) = Put(owners, IP(host), IP(host))
    BY <1>1 DEF Reserved
  <2>2. IP(host)[1] \in {"v4", "v6"}
    BY <1>1 DEF IP, Literal
  <2> DEFINE g == Put(owners, IP(host), IP(host))
  <2>3. /\ DOMAIN g = DOMAIN owners \cup {IP(host)} /\ g[IP(host)] = IP(host)
        /\ \A z \in DOMAIN owners : z # IP(host) => g[z] = owners[z]
    BY DEF Put
  <2> HIDE DEF g
  <2>4. Extends(owners, g)
    BY <1>1, <2>3 DEF Extends
  <2>5. OwnersOK(g)
    BY <2>2, <2>3 DEF OwnersOK
  <2> QED
    BY <2>1, <2>3, <2>4, <2>5 DEF g
<1>2. CASE ~(Literal(host) /\ IP(host) \notin DOMAIN owners)
  BY <1>2 DEF Reserved, Extends
<1> QED
  BY <1>1, <1>2

(* Whom a host means is canonical once the host is reserved, and in every  *)
(* larger book.                                                            *)
LEMMA CanonicalKnown ==
    ASSUME OwnersOK(ipOwners), NEW host, NEW g, Extends(Reserved(ipOwners, host), g)
    PROVE  Known(g, CanonicalPeer(host))
<1>1. CASE ~Literal(host)
  BY <1>1 DEF CanonicalPeer, Known
<1>2. CASE Literal(host) /\ IP(host) \in DOMAIN ipOwners
  <2>1. CanonicalPeer(host) = ipOwners[IP(host)] /\ Reserved(ipOwners, host) = ipOwners
    BY <1>2 DEF CanonicalPeer, Reserved
  <2> QED
    BY <1>2, <2>1 DEF Known, OwnersOK, Extends
<1>3. CASE Literal(host) /\ IP(host) \notin DOMAIN ipOwners
  <2>1. /\ CanonicalPeer(host) = IP(host)
        /\ Reserved(ipOwners, host) = Put(ipOwners, IP(host), IP(host))
    BY <1>3 DEF CanonicalPeer, Reserved
  <2>2. /\ IP(host) \in DOMAIN Reserved(ipOwners, host)
        /\ Reserved(ipOwners, host)[IP(host)] = IP(host)
    BY <2>1 DEF Put
  <2> QED
    BY <2>1, <2>2 DEF Known, Extends
<1> QED
  BY <1>1, <1>2, <1>3

(* What BookTypeOK says of the addresses given to names.                   *)
AliasTypes ==
    /\ \A x \in DOMAIN peerIPs :
          /\ ~Literal(x[1])
          /\ peerIPs[x] \in {Synthetic(x[2], v) : v \in 0..(Space[x[2]] - 1)}
    /\ nextIP \in [Families -> Nat]

(* The families of addresses.                                              *)
LEMMA FamilyTyped ==
    ASSUME NEW network, NEW host
    PROVE  AddressFamily(network, host) \in Families
BY DEF AddressFamily, Families

(* peerIPLocked hands out an address that means the peer, and changes the  *)
(* meaning of none.                                                        *)
LEMMA PeerIPIsFacts ==
    ASSUME BookInv, NEW owners, OwnersOK(owners), Extends(ipOwners, owners),
           NEW peer, Known(owners, peer), NEW family \in Families, NEW ip,
           PeerIPIs(owners, peer, family, ip)
    PROVE  /\ Extends(owners, ipOwners') /\ OwnersOK(ipOwners')
           /\ AliasResolves' /\ AliasTypes' /\ Shows(ipOwners', ip, peer)
<1>0. /\ AliasTypes
      /\ \A x \in DOMAIN peerIPs : peerIPs[x] \in DOMAIN owners /\ owners[peerIPs[x]] = x[1]
  BY DEF BookInv, BookTypeOK, AliasTypes, AliasResolves, Extends
<1>1. CASE /\ Literal(peer) /\ ip = IP(peer)
           /\ ipOwners' = Put(owners, IP(peer), peer) /\ UNCHANGED <<peerIPs, nextIP>>
  <2>1. /\ peer \in DOMAIN owners /\ owners[peer] = peer /\ IP(peer) = peer
    BY <1>1 DEF Known, OwnersOK, IP
  <2>2. /\ DOMAIN ipOwners' = DOMAIN owners
        /\ \A z \in DOMAIN owners : ipOwners'[z] = owners[z]
    BY <1>1, <2>1 DEF Put
  <2>3. Extends(owners, ipOwners') /\ OwnersOK(ipOwners') /\ Shows(ipOwners', ip, peer)
    BY <1>1, <2>1, <2>2 DEF Extends, OwnersOK, Shows
  <2>4. AliasResolves' /\ AliasTypes'
    BY <1>0, <1>1, <2>2 DEF AliasResolves, AliasTypes
  <2> QED
    BY <2>3, <2>4
<1>2. CASE /\ <<peer, family>> \in DOMAIN peerIPs /\ ip = peerIPs[<<peer, family>>]
           /\ ipOwners' = owners /\ UNCHANGED <<peerIPs, nextIP>>
  <2>1. Shows(owners, ip, peer)
    BY <1>0, <1>2 DEF Shows
  <2>2. AliasResolves' /\ AliasTypes'
    BY <1>0, <1>2 DEF AliasResolves, AliasTypes
  <2> QED
    BY <1>2, <2>1, <2>2 DEF Extends
<1>3. CASE /\ ~Literal(peer) /\ <<peer, family>> \notin DOMAIN peerIPs
           /\ \E v \in nextIP[family]..(Space[family] - 1) :
                 /\ StopsAt(owners, family, v)
                 /\ ip = Synthetic(family, v)
                 /\ Allocate(owners, peer, family, v)
                 /\ nextIP' = [nextIP EXCEPT ![family] = v + 1]
  <2>1. PICK v \in nextIP[family]..(Space[family] - 1) :
           /\ StopsAt(owners, family, v)
           /\ ip = Synthetic(family, v)
           /\ Allocate(owners, peer, family, v)
           /\ nextIP' = [nextIP EXCEPT ![family] = v + 1]
    BY <1>3
  <2>2. /\ nextIP[family] \in Nat /\ Space[family] \in Nat /\ v \in Nat
        /\ v \in 0..(Space[family] - 1) /\ nextIP' \in [Families -> Nat]
    <3>1. nextIP[family] \in Nat /\ Space[family] \in Nat
      BY <1>0, BookSpace DEF AliasTypes
    <3>2. v \in Nat /\ v + 1 \in Nat /\ v \in 0..(Space[family] - 1)
      BY <3>1
    <3>3. nextIP' \in [Families -> Nat]
      BY <1>0, <2>1, <3>2 DEF AliasTypes
    <3> QED
      BY <3>1, <3>2, <3>3
  <2>3. ip \notin DOMAIN owners
    BY <2>1, <2>2 DEF StopsAt
  <2>4. /\ DOMAIN ipOwners' = DOMAIN owners \cup {ip} /\ ipOwners'[ip] = peer
        /\ \A z \in DOMAIN owners : ipOwners'[z] = owners[z]
    BY <2>1, <2>3 DEF Allocate, Put
  <2> DEFINE key == <<peer, family>>
  <2>5. /\ DOMAIN peerIPs' = DOMAIN peerIPs \cup {key} /\ peerIPs'[key] = ip
        /\ \A z \in DOMAIN peerIPs : peerIPs'[z] = peerIPs[z]
    BY <1>3, <2>1 DEF Allocate, Put
  <2>6. ip[1] \in {"v4", "v6"}
    BY <2>1 DEF Synthetic
  <2>7. key[1] = peer /\ key[2] = family
    OBVIOUS
  <2> HIDE DEF key
  <2>8. Extends(owners, ipOwners') /\ OwnersOK(ipOwners') /\ Shows(ipOwners', ip, peer)
    BY <1>3, <2>3, <2>4, <2>6 DEF Extends, OwnersOK, Shows
  <2>9. AliasResolves'
    BY <1>0, <2>4, <2>5, <2>7 DEF AliasResolves
  <2>10. ip \in {Synthetic(key[2], u) : u \in 0..(Space[key[2]] - 1)}
    BY <2>1, <2>2, <2>7
  <2>11. AliasTypes'
    BY <1>0, <1>3, <2>2, <2>5, <2>7, <2>10 DEF AliasTypes
  <2> QED
    BY <2>8, <2>9, <2>11
<1> QED
  BY <1>1, <1>2, <1>3 DEF PeerIPIs

(* Nor does it when it fails.                                              *)
LEMMA PeerIPFailsFacts ==
    ASSUME BookInv, NEW owners, OwnersOK(owners), Extends(ipOwners, owners),
           NEW peer, NEW family \in Families, PeerIPFails(owners, peer, family)
    PROVE  /\ ipOwners' = owners /\ AliasResolves' /\ AliasTypes'
<1>0. AliasTypes
  BY DEF BookInv, BookTypeOK, AliasTypes
<1>1. ipOwners' = owners /\ peerIPs' = peerIPs
  BY DEF PeerIPFails
<1>2. nextIP' \in [Families -> Nat]
  <2>1. CASE UNCHANGED nextIP
    BY <1>0, <2>1 DEF AliasTypes
  <2>2. CASE \E v \in nextIP[family]..(nextIP[family] + Cardinality(DOMAIN owners)) :
                nextIP' = [nextIP EXCEPT ![family] = v + 1]
    <3>1. PICK v \in nextIP[family]..(nextIP[family] + Cardinality(DOMAIN owners)) :
             nextIP' = [nextIP EXCEPT ![family] = v + 1]
      BY <2>2
    <3>2. nextIP[family] \in Nat
      BY <1>0 DEF AliasTypes
    <3>3. v + 1 \in Nat
      BY <3>1, <3>2
    <3> QED
      BY <1>0, <3>1, <3>3 DEF AliasTypes
  <2> QED
    BY <2>1, <2>2 DEF PeerIPFails
<1>3. AliasTypes'
  BY <1>0, <1>1, <1>2 DEF AliasTypes
<1>4. AliasResolves'
  BY <1>1 DEF BookInv, AliasResolves, Extends
<1> QED
  BY <1>1, <1>3, <1>4

-----------------------------------------------------------------------------
(* What is left of BookTypeOK.                                             *)
OtherTypes ==
    /\ nextWildcard \in Nat /\ nextOrdinal \in Nat
    /\ nextListenPort \in ListenPortBase..MaxPort
    /\ \A k \in DOMAIN registry : k[2] \in Ports /\ registry[k] \in 1..Len(lis)
    /\ \A p \in partitions : Cardinality(p) \in {1, 2}
    /\ Len(conns) <= nextOrdinal

LEMMA BookTypeParts ==
    ASSUME BookInv
    PROVE  AliasTypes /\ OtherTypes
BY DEF BookInv, BookTypeOK, AliasTypes, OtherTypes

LEMMA BookInvFrom ==
    ASSUME OwnersOK(ipOwners'), AliasResolves', AliasTypes', OtherTypes',
           ListenersOK', OpenRegistered', DialOK', ConnsOK'
    PROVE  BookInv'
<1>1. BookTypeOK'
  BY DEF BookTypeOK, OwnersOK, AliasTypes, OtherTypes
<1> QED
  BY <1>1 DEF BookInv

(* What a growing book leaves as it was.                                   *)
LEMMA GrowthKeeps ==
    ASSUME BookInv, Extends(ipOwners, ipOwners')
    PROVE  /\ UNCHANGED lis => ListenersOK'
           /\ UNCHANGED dial => DialOK'
           /\ UNCHANGED conns => ConnsOK'
<1>1. UNCHANGED lis => ListenersOK'
  BY ExtendsKeeps DEF BookInv, ListenersOK
<1>2. UNCHANGED dial => DialOK'
  BY ExtendsKeeps DEF BookInv, DialOK
<1>3. UNCHANGED conns => ConnsOK'
  BY DEF BookInv, ConnsOK, Extends
<1> QED
  BY <1>1, <1>2, <1>3

LEMMA NothingIsKnown ==
    /\ ~Literal(NoHost) /\ NoDial.peer = NoHost /\ NoDial.local = NoHost
    /\ \A f : Known(f, NoHost)
    /\ \A n : ~Literal(Ephemeral(n)) /\ ~Literal(Wildcard(n))
BY DEF Literal, NoHost, NoDial, Known, Ephemeral, Wildcard

LEMMA BookInvInit == BookInit => BookInv
<1> SUFFICES ASSUME BookInit PROVE BookInv
  OBVIOUS
<1>0. Len(<< >>) = 0 /\ DOMAIN << >> = {} /\ 1..0 = {}
  OBVIOUS
<1>1. OwnersOK(ipOwners) /\ AliasResolves
  BY <1>0 DEF BookInit, OwnersOK, AliasResolves
<1>2. AliasTypes
  BY <1>0 DEF BookInit, AliasTypes
<1>3. OtherTypes
  BY <1>0, BookPorts DEF BookInit, OtherTypes
<1>4. IsSeq(<< >>)
  BY <1>0 DEF IsSeq
<1>5. ListenersOK /\ OpenRegistered /\ ConnsOK
  BY <1>0, <1>4 DEF BookInit, ListenersOK, OpenRegistered, ConnsOK
<1>6. DialOK
  BY NothingIsKnown DEF BookInit, DialOK
<1>7. BookTypeOK
  BY <1>1, <1>2, <1>3 DEF BookTypeOK, OwnersOK, AliasTypes, OtherTypes
<1> QED
  BY <1>1, <1>5, <1>6, <1>7 DEF BookInv

(* Two hosts are reserved, by a dial or by Partition, Heal and Reset.      *)
LEMMA TwoReserved ==
    ASSUME BookInv, NEW h, NEW k, ipOwners' = Reserved(Reserved(ipOwners, h), k),
           UNCHANGED <<peerIPs, nextIP>>
    PROVE  /\ Extends(ipOwners, ipOwners') /\ OwnersOK(ipOwners')
           /\ AliasResolves' /\ AliasTypes'
           /\ Known(ipOwners', CanonicalPeer(h)) /\ Known(ipOwners', CanonicalPeer(k))
<1> DEFINE once == Reserved(ipOwners, h)
<1>1. Extends(ipOwners, once) /\ OwnersOK(once)
  BY ReservedFacts DEF BookInv
<1>2. Extends(once, ipOwners') /\ OwnersOK(ipOwners')
  BY <1>1, ReservedFacts
<1>3. Extends(ipOwners, ipOwners')
  BY <1>1, <1>2, ExtendsTransitive
<1>4. AliasResolves' /\ AliasTypes'
  BY <1>3, BookTypeParts DEF BookInv, AliasResolves, AliasTypes, Extends
<1>5. Known(ipOwners', CanonicalPeer(h))
  BY <1>2, CanonicalKnown DEF BookInv
<1>6. Extends(Reserved(ipOwners, k), ipOwners')
  <2>1. CASE Literal(k) /\ IP(k) \notin DOMAIN ipOwners
    <3>1. Reserved(ipOwners, k) = Put(ipOwners, IP(k), IP(k))
      BY <2>1 DEF Reserved
    <3>2. IP(k) \in DOMAIN ipOwners'
      BY <1>1, <2>1, ReservedFacts
    <3>3. ipOwners'[IP(k)] = IP(k)
      <4>1. CASE IP(k) \in DOMAIN once
        <5>1. Literal(h) /\ IP(h) \notin DOMAIN ipOwners
          BY <2>1, <4>1 DEF Reserved
        <5>2. once = Put(ipOwners, IP(h), IP(h))
          BY <5>1 DEF Reserved
        <5>3. IP(k) = IP(h) /\ once[IP(h)] = IP(h)
          BY <2>1, <4>1, <5>2 DEF Put
        <5> QED
          BY <1>2, <4>1, <5>3 DEF Extends
      <4>2. CASE IP(k) \notin DOMAIN once
        <5>1. ipOwners' = Put(once, IP(k), IP(k))
          BY <2>1, <4>2 DEF Reserved
        <5> QED
          BY <5>1 DEF Put
      <4> QED
        BY <4>1, <4>2
    <3>4. DOMAIN Put(ipOwners, IP(k), IP(k)) = DOMAIN ipOwners \cup {IP(k)}
      BY DEF Put
    <3>5. \A z \in DOMAIN ipOwners \cup {IP(k)} :
             Put(ipOwners, IP(k), IP(k))[z] = IF z = IP(k) THEN IP(k) ELSE ipOwners[z]
      BY DEF Put
    <3> QED
      BY <1>3, <3>1, <3>2, <3>3, <3>4, <3>5 DEF Extends
  <2>2. CASE ~(Literal(k) /\ IP(k) \notin DOMAIN ipOwners)
    BY <1>3, <2>2 DEF Reserved
  <2> QED
    BY <2>1, <2>2
<1>7. Known(ipOwners', CanonicalPeer(k))
  BY <1>6, CanonicalKnown DEF BookInv
<1> QED
  BY <1>2, <1>3, <1>4, <1>5, <1>7

LEMMA InvName ==
    ASSUME BookInv, NEW a, NEW b, Partition(a, b) \/ Heal(a, b) \/ Reset(a, b)
    PROVE  BookInv' /\ Extends(ipOwners, ipOwners')
<1>1. /\ ipOwners' = Reserved(Reserved(ipOwners, a[1]), b[1])
      /\ UNCHANGED <<peerIPs, nextIP, names, lis, registry, dial, conns>>
      /\ partitions' \subseteq partitions \cup {Key(a, b)}
  BY DEF Partition, Heal, Reset, Name
<1>2. /\ Extends(ipOwners, ipOwners') /\ OwnersOK(ipOwners')
      /\ AliasResolves' /\ AliasTypes'
  BY <1>1, TwoReserved
<1>3. Cardinality(Key(a, b)) \in {1, 2}
  BY PairCardinality DEF Key
<1>4. OtherTypes'
  BY <1>1, <1>3, BookTypeParts DEF OtherTypes, names
<1>5. OpenRegistered'
  BY <1>1 DEF BookInv, OpenRegistered
<1> QED
  BY <1>1, <1>2, <1>4, <1>5, GrowthKeeps, BookInvFrom

LEMMA InvResolve ==
    ASSUME BookInv, NEW network, NEW a, NEW name, Resolve(network, a, name)
    PROVE  BookInv' /\ Extends(ipOwners, ipOwners')
<1>1. /\ ipOwners' = Reserved(Reserved(ipOwners, a[1]), name)
      /\ dial'.peer = CanonicalPeer(a[1]) /\ dial'.local = CanonicalPeer(name)
      /\ UNCHANGED <<peerIPs, nextIP, names, lis, registry, partitions, conns>>
  BY DEF Resolve
<1>2. /\ Extends(ipOwners, ipOwners') /\ OwnersOK(ipOwners')
      /\ AliasResolves' /\ AliasTypes'
      /\ Known(ipOwners', CanonicalPeer(a[1])) /\ Known(ipOwners', CanonicalPeer(name))
  BY <1>1, TwoReserved
<1>3. DialOK'
  BY <1>1, <1>2 DEF DialOK
<1>4. OtherTypes'
  BY <1>1, BookTypeParts DEF OtherTypes, names
<1>5. OpenRegistered'
  BY <1>1 DEF BookInv, OpenRegistered
<1> QED
  BY <1>1, <1>2, <1>3, <1>4, <1>5, GrowthKeeps, BookInvFrom

LEMMA InvGiveUp ==
    ASSUME BookInv, GiveUp
    PROVE  BookInv' /\ Extends(ipOwners, ipOwners')
<1>1. /\ dial' = NoDial
      /\ UNCHANGED <<ipOwners, peerIPs, nextIP, names, lis, registry, partitions, conns>>
  BY DEF GiveUp
<1>2. Extends(ipOwners, ipOwners') /\ OwnersOK(ipOwners')
  BY <1>1 DEF BookInv, Extends
<1>3. AliasResolves' /\ AliasTypes' /\ OtherTypes'
  BY <1>1, BookTypeParts DEF BookInv, AliasResolves, AliasTypes, OtherTypes, names
<1>4. DialOK'
  BY <1>1, NothingIsKnown DEF DialOK
<1>5. OpenRegistered'
  BY <1>1 DEF BookInv, OpenRegistered
<1> QED
  BY <1>1, <1>2, <1>3, <1>4, <1>5, GrowthKeeps, BookInvFrom

(* Closing a listener.                                                     *)
LEMMA CloseFacts ==
    ASSUME BookInv, NEW l \in 1..Len(lis), lis' = [lis EXCEPT ![l].open = FALSE]
    PROVE  /\ IsSeq(lis') /\ Len(lis') = Len(lis) /\ ~lis'[l].open
           /\ \A k \in 1..Len(lis) : k # l => lis'[k] = lis[k]
           /\ DOMAIN lis'[l] = DOMAIN lis[l]
           /\ lis'[l].peer = lis[l].peer /\ lis'[l].port = lis[l].port
           /\ lis'[l].ip = lis[l].ip /\ lis'[l].network = lis[l].network
<1> DEFINE r == [lis[l] EXCEPT !.open = FALSE]
<1>0. /\ lis = [i \in 1..Len(lis) |-> lis[i]] /\ Len(lis) \in Nat
      /\ DOMAIN lis[l] = {"peer", "port", "ip", "network", "open"}
  BY DEF BookInv, ListenersOK, IsSeq
<1>1. /\ DOMAIN r = DOMAIN lis[l] /\ ~r.open
      /\ r.peer = lis[l].peer /\ r.port = lis[l].port
      /\ r.ip = lis[l].ip /\ r.network = lis[l].network
  BY <1>0
<1>2. lis' = [lis EXCEPT ![l] = r]
  BY <1>0
<1> HIDE DEF r
<1>3. lis' = [i \in 1..Len(lis) |-> IF i = l THEN r ELSE lis[i]]
  BY <1>0, <1>2
<1>4. lis' \in [1..Len(lis) -> {lis'[i] : i \in 1..Len(lis)}]
  BY <1>3
<1>5. Len(lis') = Len(lis)
  BY <1>0, <1>4
<1>6. IsSeq(lis')
  BY <1>0, <1>3, <1>5 DEF IsSeq
<1> QED
  BY <1>1, <1>3, <1>5, <1>6

LEMMA InvCloseListener ==
    ASSUME BookInv, NEW l \in 1..Len(lis), CloseListener(l)
    PROVE  BookInv' /\ Extends(ipOwners, ipOwners')
<1> DEFINE key == <<lis[l].peer, lis[l].port>>
<1>1. /\ lis[l].open /\ lis' = [lis EXCEPT ![l].open = FALSE]
      /\ registry' = [k \in DOMAIN registry \ {key} |-> registry[k]]
      /\ UNCHANGED <<ipOwners, peerIPs, nextIP, names, partitions, dial, conns>>
  BY DEF CloseListener
<1>2. /\ IsSeq(lis') /\ Len(lis') = Len(lis) /\ ~lis'[l].open
      /\ \A k \in 1..Len(lis) : k # l => lis'[k] = lis[k]
      /\ DOMAIN lis'[l] = DOMAIN lis[l]
      /\ lis'[l].peer = lis[l].peer /\ lis'[l].port = lis[l].port
      /\ lis'[l].ip = lis[l].ip
  BY <1>1, CloseFacts
<1>3. Extends(ipOwners, ipOwners') /\ OwnersOK(ipOwners')
  BY <1>1 DEF BookInv, Extends
<1>4. AliasResolves' /\ AliasTypes'
  BY <1>1, BookTypeParts DEF BookInv, AliasResolves, AliasTypes
<1>5. ListenersOK'
  BY <1>1, <1>2 DEF BookInv, ListenersOK
<1>6. OtherTypes'
  BY <1>1, <1>2, BookTypeParts DEF OtherTypes, names
<1>7. OpenRegistered'
  <2> SUFFICES ASSUME NEW k \in 1..Len(lis), lis'[k].open
               PROVE  /\ <<lis'[k].peer, lis'[k].port>> \in DOMAIN registry'
                      /\ registry'[<<lis'[k].peer, lis'[k].port>>] = k
    BY <1>2 DEF OpenRegistered
  <2>1. k # l /\ lis'[k] = lis[k]
    BY <1>2
  <2>2. /\ <<lis[k].peer, lis[k].port>> \in DOMAIN registry
        /\ registry[<<lis[k].peer, lis[k].port>>] = k
        /\ registry[key] = l
    BY <1>1, <2>1 DEF BookInv, OpenRegistered
  <2>3. <<lis[k].peer, lis[k].port>> # key
    BY <2>1, <2>2
  <2> QED
    BY <1>1, <2>1, <2>2, <2>3
<1> QED
  BY <1>1, <1>3, <1>4, <1>5, <1>6, <1>7, GrowthKeeps, BookInvFrom

(* The port that Listen settles for, and where the rotation goes on.       *)
LEMMA TakesFacts ==
    ASSUME BookInv, NEW peer, NEW laddr, NEW port \in Ports, Takes(peer, laddr, port)
    PROVE  /\ <<peer, port>> \notin DOMAIN registry
           /\ nextListenPort' \in ListenPortBase..MaxPort
<1>1. nextListenPort \in ListenPortBase..MaxPort
  BY BookTypeParts DEF OtherTypes
<1>2. CASE UNCHANGED nextListenPort
  BY <1>1, <1>2 DEF Takes
<1>3. CASE \E steps \in 0..(MaxPort - ListenPortBase) :
              nextListenPort' = Rotate(nextListenPort, steps + 1)
  <2>1. PICK steps \in 0..(MaxPort - ListenPortBase) :
           nextListenPort' = Rotate(nextListenPort, steps + 1)
    BY <1>3
  <2>2. steps + 1 \in Nat
    BY BookPorts
  <2> QED
    BY <1>1, <2>1, <2>2, RotateInRange DEF Takes
<1> QED
  BY <1>2, <1>3 DEF Takes

(* A listener is entered at a free address.                                *)
LEMMA NewListener ==
    ASSUME BookInv, Extends(ipOwners, ipOwners'), NEW peer, Known(ipOwners', peer),
           NEW port \in Ports, <<peer, port>> \notin DOMAIN registry,
           NEW ip, Shows(ipOwners', ip, peer), NEW network,
           lis' = Append(lis, [peer |-> peer, port |-> port, ip |-> ip,
                               network |-> network, open |-> TRUE]),
           registry' = Put(registry, <<peer, port>>, Len(lis) + 1)
    PROVE  /\ ListenersOK' /\ OpenRegistered' /\ Len(lis') = Len(lis) + 1
           /\ \A k \in DOMAIN registry' : k[2] \in Ports /\ registry'[k] \in 1..Len(lis')
<1> DEFINE r == [peer |-> peer, port |-> port, ip |-> ip, network |-> network, open |-> TRUE]
           n == Len(lis) + 1
           key == <<peer, port>>
<1>0. /\ DOMAIN r = {"peer", "port", "ip", "network", "open"}
      /\ r.peer = peer /\ r.port = port /\ r.ip = ip /\ r.open = TRUE
  OBVIOUS
<1>1. IsSeq(lis) /\ Len(lis) \in Nat /\ lis' = Append(lis, r)
  BY DEF BookInv, ListenersOK, IsSeq
<1> HIDE DEF r
<1>2. /\ IsSeq(lis') /\ Len(lis') = n /\ lis'[n] = r
      /\ \A i \in 1..Len(lis) : lis'[i] = lis[i]
  BY <1>1, AppendFacts
<1>3. \A i \in 1..Len(lis') : i \in 1..Len(lis) \/ i = n
  BY <1>1, <1>2
<1>4. key[1] = peer /\ key[2] = port
  OBVIOUS
<1>5. key \notin DOMAIN registry
  OBVIOUS
<1>6. registry' = Put(registry, key, n)
  OBVIOUS
<1>7. n \in Nat /\ n \in 1..n /\ 1..Len(lis) \subseteq 1..n /\ n \notin 1..Len(lis)
  BY <1>1
<1>8. /\ DOMAIN registry' = DOMAIN registry \cup {key} /\ registry'[key] = n
      /\ \A k \in DOMAIN registry : registry'[k] = registry[k]
  BY <1>5, <1>6 DEF Put
<1> HIDE DEF n
<1>9. ListenersOK'
  <2> SUFFICES ASSUME NEW i \in 1..Len(lis')
               PROVE  /\ DOMAIN lis'[i] = {"peer", "port", "ip", "network", "open"}
                      /\ lis'[i].port \in Ports
                      /\ Known(ipOwners', lis'[i].peer)
                      /\ Shows(ipOwners', lis'[i].ip, lis'[i].peer)
    BY <1>2 DEF ListenersOK
  <2>1. CASE i = n
    BY <1>0, <1>2, <2>1
  <2>2. CASE i \in 1..Len(lis)
    BY <1>2, <2>2, ExtendsKeeps DEF BookInv, ListenersOK
  <2> QED
    BY <1>3, <2>1, <2>2
<1>10. OpenRegistered'
  <2> SUFFICES ASSUME NEW i \in 1..Len(lis'), lis'[i].open
               PROVE  /\ <<lis'[i].peer, lis'[i].port>> \in DOMAIN registry'
                      /\ registry'[<<lis'[i].peer, lis'[i].port>>] = i
    BY DEF OpenRegistered
  <2>1. CASE i = n
    BY <1>0, <1>2, <1>8, <2>1
  <2>2. CASE i \in 1..Len(lis)
    <3>1. /\ <<lis[i].peer, lis[i].port>> \in DOMAIN registry
          /\ registry[<<lis[i].peer, lis[i].port>>] = i
      BY <1>2, <2>2 DEF BookInv, OpenRegistered
    <3> QED
      BY <1>2, <1>8, <2>2, <3>1
  <2> QED
    BY <1>3, <2>1, <2>2
<1>11. \A k \in DOMAIN registry' : k[2] \in Ports /\ registry'[k] \in 1..Len(lis')
  <2> SUFFICES ASSUME NEW k \in DOMAIN registry'
               PROVE  k[2] \in Ports /\ registry'[k] \in 1..n
    BY <1>2
  <2>1. CASE k = key
    BY <1>4, <1>7, <1>8, <2>1
  <2>2. CASE k \in DOMAIN registry
    BY <1>7, <1>8, <2>2, BookTypeParts DEF OtherTypes
  <2> QED
    BY <1>8, <2>1, <2>2
<1> QED
  BY <1>2, <1>9, <1>10, <1>11 DEF n

LEMMA InvListen ==
    ASSUME BookInv, NEW network, NEW laddr, Listen(network, laddr)
    PROVE  BookInv' /\ Extends(ipOwners, ipOwners')
<1> DEFINE asked  == IF laddr[1] = NoHost THEN Wildcard(nextWildcard) ELSE laddr[1]
           peer   == CanonicalPeer(asked)
           owners == Reserved(ipOwners, asked)
           family == AddressFamily(network, peer)
<1>0. /\ nextWildcard' = IF laddr[1] = NoHost THEN nextWildcard + 1 ELSE nextWildcard
      /\ \/ /\ ipOwners' = owners
            /\ UNCHANGED <<peerIPs, nextIP, nextListenPort, lis, registry>>
         \/ \E port \in Ports :
               /\ Takes(peer, laddr, port)
               /\ \/ /\ PeerIPFails(owners, peer, family)
                     /\ UNCHANGED <<lis, registry>>
                  \/ \E ip \in Addresses(peer, family) :
                        /\ PeerIPIs(owners, peer, family, ip)
                        /\ lis' = Append(lis, [peer |-> peer, port |-> port, ip |-> ip,
                                               network |-> network, open |-> TRUE])
                        /\ registry' = Put(registry, <<peer, port>>, Len(lis) + 1)
      /\ UNCHANGED <<nextOrdinal, partitions, dial, conns>>
  BY DEF Listen
<1>1. /\ Extends(ipOwners, owners) /\ OwnersOK(owners)
  BY ReservedFacts DEF BookInv
<1>2. Known(owners, peer)
  <2>1. Extends(owners, owners)
    BY DEF Extends
  <2> QED
    BY <2>1, CanonicalKnown DEF BookInv
<1>3. family \in Families
  BY FamilyTyped
<1> HIDE DEF asked, peer, owners, family
<1>4. nextWildcard' \in Nat
  BY <1>0, BookTypeParts DEF OtherTypes
<1>5. CASE /\ ipOwners' = owners
           /\ UNCHANGED <<peerIPs, nextIP, nextListenPort, lis, registry>>
  <2>1. Extends(ipOwners, ipOwners') /\ OwnersOK(ipOwners')
    BY <1>1, <1>5
  <2>2. AliasResolves' /\ AliasTypes'
    BY <1>5, <2>1, BookTypeParts DEF BookInv, AliasResolves, AliasTypes, Extends
  <2>3. OtherTypes'
    BY <1>0, <1>4, <1>5, BookTypeParts DEF OtherTypes
  <2>4. OpenRegistered'
    BY <1>5 DEF BookInv, OpenRegistered
  <2> QED
    BY <1>0, <1>5, <2>1, <2>2, <2>3, <2>4, GrowthKeeps, BookInvFrom
<1>6. ASSUME NEW port \in Ports, Takes(peer, laddr, port),
             PeerIPFails(owners, peer, family), UNCHANGED <<lis, registry>>
      PROVE  BookInv' /\ Extends(ipOwners, ipOwners')
  <2>1. ipOwners' = owners /\ AliasResolves' /\ AliasTypes'
    BY <1>1, <1>3, <1>6, PeerIPFailsFacts
  <2>2. Extends(ipOwners, ipOwners') /\ OwnersOK(ipOwners')
    BY <1>1, <2>1
  <2>3. OtherTypes'
    BY <1>0, <1>4, <1>6, TakesFacts, BookTypeParts DEF OtherTypes
  <2>4. OpenRegistered'
    BY <1>6 DEF BookInv, OpenRegistered
  <2> QED
    BY <1>0, <1>6, <2>1, <2>2, <2>3, <2>4, GrowthKeeps, BookInvFrom
<1>7. ASSUME NEW port \in Ports, Takes(peer, laddr, port),
             NEW ip, PeerIPIs(owners, peer, family, ip),
             lis' = Append(lis, [peer |-> peer, port |-> port, ip |-> ip,
                                 network |-> network, open |-> TRUE]),
             registry' = Put(registry, <<peer, port>>, Len(lis) + 1)
      PROVE  BookInv' /\ Extends(ipOwners, ipOwners')
  <2>1. /\ Extends(owners, ipOwners') /\ OwnersOK(ipOwners')
        /\ AliasResolves' /\ AliasTypes' /\ Shows(ipOwners', ip, peer)
    BY <1>1, <1>2, <1>3, <1>7, PeerIPIsFacts
  <2>2. Extends(ipOwners, ipOwners')
    BY <1>1, <2>1, ExtendsTransitive
  <2>3. Known(ipOwners', peer)
    BY <1>2, <2>1, ExtendsKeeps
  <2>4. /\ <<peer, port>> \notin DOMAIN registry
        /\ nextListenPort' \in ListenPortBase..MaxPort
    BY <1>7, TakesFacts
  <2>5. /\ ListenersOK' /\ OpenRegistered' /\ Len(lis') = Len(lis) + 1
        /\ \A k \in DOMAIN registry' : k[2] \in Ports /\ registry'[k] \in 1..Len(lis')
    BY <1>7, <2>1, <2>2, <2>3, <2>4, NewListener
  <2>6. OtherTypes'
    BY <1>0, <1>4, <2>4, <2>5, BookTypeParts DEF OtherTypes
  <2> QED
    BY <1>0, <2>1, <2>2, <2>5, <2>6, GrowthKeeps, BookInvFrom
<1> QED
  BY <1>0, <1>5, <1>6, <1>7

(* A connection is entered under the names that its addresses mean.        *)
LEMMA NewConnection ==
    ASSUME BookInv, Extends(ipOwners, ipOwners'), NEW local, NEW peer, NEW ip, NEW remote,
           Shows(ipOwners', ip, local), Shows(ipOwners', remote, peer), NEW named,
           conns' = Append(conns, [pair |-> {local, peer}, local |-> ip,
                                   remote |-> remote, named |-> named])
    PROVE  ConnsOK' /\ Len(conns') = Len(conns) + 1
<1> DEFINE r == [pair |-> {local, peer}, local |-> ip, remote |-> remote, named |-> named]
           n == Len(conns) + 1
<1>0. r.pair = {local, peer} /\ r.local = ip /\ r.remote = remote
  OBVIOUS
<1>1. IsSeq(conns) /\ Len(conns) \in Nat /\ conns' = Append(conns, r)
  BY DEF BookInv, ConnsOK, IsSeq
<1> HIDE DEF r
<1>2. /\ IsSeq(conns') /\ Len(conns') = n /\ conns'[n] = r
      /\ \A i \in 1..Len(conns) : conns'[i] = conns[i]
  BY <1>1, AppendFacts
<1>3. \A i \in 1..Len(conns') : i \in 1..Len(conns) \/ i = n
  BY <1>1, <1>2
<1> HIDE DEF n
<1>4. ASSUME NEW i \in 1..Len(conns')
      PROVE  /\ conns'[i].local \in DOMAIN ipOwners'
             /\ conns'[i].remote \in DOMAIN ipOwners'
             /\ conns'[i].pair = {ipOwners'[conns'[i].local], ipOwners'[conns'[i].remote]}
  <2>1. CASE i = n
    BY <1>0, <1>2, <2>1 DEF Shows
  <2>2. CASE i \in 1..Len(conns)
    BY <1>2, <2>2 DEF BookInv, ConnsOK, Extends
  <2> QED
    BY <1>3, <2>1, <2>2
<1>5. ConnsOK'
  BY <1>2, <1>4 DEF ConnsOK
<1> QED
  BY <1>2, <1>5 DEF n

LEMMA InvConnect ==
    ASSUME BookInv, Connect
    PROVE  BookInv' /\ Extends(ipOwners, ipOwners')
<1>0. /\ dial' = NoDial
      /\ UNCHANGED <<nextWildcard, nextListenPort, lis, registry, partitions>>
  BY DEF Connect
<1>1. DialOK' /\ OpenRegistered'
  BY <1>0, NothingIsKnown DEF BookInv, DialOK, OpenRegistered
<1>2. Extends(ipOwners, ipOwners) /\ OwnersOK(ipOwners)
  BY DEF Extends, BookInv
<1>3. CASE UNCHANGED <<ipOwners, peerIPs, nextIP, nextOrdinal, conns>>
  <2>1. AliasResolves' /\ AliasTypes' /\ OtherTypes'
    BY <1>0, <1>3, BookTypeParts DEF BookInv, AliasResolves, AliasTypes, OtherTypes
  <2>2. Extends(ipOwners, ipOwners') /\ OwnersOK(ipOwners')
    BY <1>2, <1>3
  <2> QED
    BY <1>0, <1>1, <1>3, <2>1, <2>2, GrowthKeeps, BookInvFrom
<1>4. ASSUME nextOrdinal' = nextOrdinal + 1, NEW l \in Matches(dial),
             NEW local, local = IF dial.local = NoHost THEN Ephemeral(nextOrdinal)
                                ELSE dial.local,
             NEW family \in Families,
             \/ /\ PeerIPFails(ipOwners, local, family)
                /\ UNCHANGED conns
             \/ \E ip \in Addresses(local, family) :
                   /\ PeerIPIs(ipOwners, local, family, ip)
                   /\ conns' = Append(conns, [pair |-> Pair(local), local |-> ip,
                                              remote |-> lis[l].ip,
                                              named |-> dial.local # NoHost])
      PROVE  BookInv' /\ Extends(ipOwners, ipOwners')
  <2>0. /\ nextOrdinal' \in Nat /\ nextOrdinal \in Nat /\ Len(conns) <= nextOrdinal
        /\ Len(conns) \in Nat
    BY <1>4, BookTypeParts DEF OtherTypes, BookInv, ConnsOK, IsSeq
  <2>1. Known(ipOwners, local)
    <3>1. CASE dial.local = NoHost
      BY <1>4, <3>1, NothingIsKnown DEF Known
    <3>2. CASE dial.local # NoHost
      BY <1>4, <3>2 DEF BookInv, DialOK
    <3> QED
      BY <3>1, <3>2
  <2>2. l \in 1..Len(lis) /\ lis[l].peer = dial.peer
    BY <1>4 DEF Matches
  <2>3. Shows(ipOwners, lis[l].ip, dial.peer)
    BY <2>2 DEF BookInv, ListenersOK
  <2>4. CASE PeerIPFails(ipOwners, local, family) /\ UNCHANGED conns
    <3>1. ipOwners' = ipOwners /\ AliasResolves' /\ AliasTypes'
      BY <1>2, <2>4, PeerIPFailsFacts
    <3>2. Extends(ipOwners, ipOwners') /\ OwnersOK(ipOwners')
      BY <1>2, <3>1
    <3>3. OtherTypes'
      BY <1>0, <1>4, <2>0, <2>4, BookTypeParts DEF OtherTypes
    <3> QED
      BY <1>0, <1>1, <2>4, <3>1, <3>2, <3>3, GrowthKeeps, BookInvFrom
  <2>5. CASE \E ip \in Addresses(local, family) :
                /\ PeerIPIs(ipOwners, local, family, ip)
                /\ conns' = Append(conns, [pair |-> Pair(local), local |-> ip,
                                           remote |-> lis[l].ip,
                                           named |-> dial.local # NoHost])
    <3>1. PICK ip \in Addresses(local, family) :
             /\ PeerIPIs(ipOwners, local, family, ip)
             /\ conns' = Append(conns, [pair |-> Pair(local), local |-> ip,
                                        remote |-> lis[l].ip,
                                        named |-> dial.local # NoHost])
      BY <2>5
    <3>2. /\ Extends(ipOwners, ipOwners') /\ OwnersOK(ipOwners')
          /\ AliasResolves' /\ AliasTypes' /\ Shows(ipOwners', ip, local)
      BY <1>2, <2>1, <3>1, PeerIPIsFacts
    <3>3. Shows(ipOwners', lis[l].ip, dial.peer)
      BY <2>3, <3>2, ExtendsKeeps
    <3>4. conns' = Append(conns, [pair |-> {local, dial.peer}, local |-> ip,
                                  remote |-> lis[l].ip,
                                  named |-> dial.local # NoHost])
      BY <3>1 DEF Pair
    <3>5. ConnsOK' /\ Len(conns') = Len(conns) + 1
      BY <3>2, <3>3, <3>4, NewConnection
    <3>6. OtherTypes'
      BY <1>0, <1>4, <2>0, <3>5, BookTypeParts DEF OtherTypes
    <3> QED
      BY <1>0, <1>1, <3>2, <3>5, <3>6, GrowthKeeps, BookInvFrom
  <2> QED
    BY <1>4, <2>4, <2>5
<1>5. CASE /\ nextOrdinal' = nextOrdinal + 1
           /\ \E l \in Matches(dial) :
                LET local  == IF dial.local = NoHost THEN Ephemeral(nextOrdinal)
                              ELSE dial.local
                    family == AddressFamily(lis[l].network, lis[l].peer)
                IN  \/ /\ PeerIPFails(ipOwners, local, family)
                       /\ UNCHANGED conns
                    \/ \E ip \in Addresses(local, family) :
                          /\ PeerIPIs(ipOwners, local, family, ip)
                          /\ conns' = Append(conns, [pair |-> Pair(local), local |-> ip,
                                                     remote |-> lis[l].ip,
                                                     named |-> dial.local # NoHost])
  <2>1. \A l \in Matches(dial) : AddressFamily(lis[l].network, lis[l].peer) \in Families
    BY FamilyTyped
  <2> QED
    BY <1>4, <1>5, <2>1
<1> QED
  BY <1>3, <1>5 DEF Connect

-----------------------------------------------------------------------------
LEMMA BookInvNext ==
    ASSUME BookInv, [BookNext]_bookVars
    PROVE  BookInv' /\ Extends(ipOwners, ipOwners')
<1>1. CASE UNCHANGED bookVars
  <2>1. UNCHANGED <<ipOwners, peerIPs, nextIP, names, lis, registry, partitions, dial, conns>>
    BY <1>1 DEF bookVars
  <2>2. Extends(ipOwners, ipOwners') /\ OwnersOK(ipOwners')
    BY <2>1 DEF Extends, BookInv
  <2>3. AliasResolves' /\ AliasTypes' /\ OtherTypes'
    BY <2>1, BookTypeParts DEF BookInv, AliasResolves, AliasTypes, OtherTypes, names
  <2>4. OpenRegistered'
    BY <2>1 DEF BookInv, OpenRegistered
  <2> QED
    BY <2>1, <2>2, <2>3, <2>4, GrowthKeeps, BookInvFrom
<1> QED
  BY <1>1, InvListen, InvCloseListener, InvResolve, InvGiveUp, InvConnect, InvName
  DEF BookNext

(* What an address shown by a listener or a connection means.              *)
LEMMA ShownMeans ==
    ASSUME OwnersOK(ipOwners), NEW ip \in DOMAIN ipOwners
    PROVE  Literal(ip) /\ IP(ip) = ip /\ CanonicalPeer(ip) = ipOwners[ip]
BY DEF OwnersOK, Literal, IP, CanonicalPeer

LEMMA BookInvImplies ==
    ASSUME BookInv
    PROVE  BookTypeOK /\ AliasResolves /\ EndsNamePair /\ DialReachesListener
<1>1. EndsNamePair
  BY ShownMeans DEF BookInv, ConnsOK, EndsNamePair
<1>2. ASSUME NEW l \in 1..Len(lis), lis[l].open,
             NEW d, d = [NoDial EXCEPT !.target = lis[l].ip, !.port = lis[l].port,
                                       !.peer = CanonicalPeer(lis[l].ip)]
      PROVE  Matches(d) = {l}
  <2>0. /\ Shows(ipOwners, lis[l].ip, lis[l].peer) /\ lis[l].port \in Ports
        /\ OwnersOK(ipOwners)
    BY DEF BookInv, ListenersOK
  <2>1. /\ Literal(lis[l].ip) /\ IP(lis[l].ip) = lis[l].ip
        /\ CanonicalPeer(lis[l].ip) = lis[l].peer
    BY <2>0, ShownMeans DEF Shows
  <2>2. /\ d.target = lis[l].ip /\ d.port = lis[l].port /\ d.network = "tcp"
        /\ d.peer = lis[l].peer
    BY <1>2, <2>1 DEF NoDial
  <2>3. d.port > 0
    BY <2>0, <2>2, BookPorts DEF Ports
  <2>4. /\ <<lis[l].peer, lis[l].port>> \in DOMAIN registry
        /\ registry[<<lis[l].peer, lis[l].port>>] = l
    BY <1>2 DEF BookInv, OpenRegistered
  <2>5. l \in Matches(d)
    BY <2>1, <2>2, <2>4 DEF Matches
  <2>6. ASSUME NEW k \in Matches(d)
        PROVE  k = l
    <3>1. /\ registry[<<lis[k].peer, lis[k].port>>] = k
          /\ lis[k].peer = d.peer /\ lis[k].port = d.port
      BY <2>3 DEF Matches
    <3> QED
      BY <2>2, <2>4, <3>1
  <2> QED
    BY <2>5, <2>6
<1>3. DialReachesListener
  BY <1>2 DEF DialReachesListener
<1> QED
  BY <1>1, <1>3 DEF BookInv

(* The inductive invariant holds in every reachable state.                 *)
THEOREM BookInvariance == BookSpec => []BookInv
BY BookInvInit, BookInvNext, PTL DEF BookSpec

(* The address book keeps its shape: only addresses are owned, only names  *)
(* are given synthetic ones, ports stay in range, and the registry points  *)
(* to listeners that exist.                                                *)
THEOREM BookTypeCorrect == BookSpec => []BookTypeOK
BY BookInvariance, BookInvImplies, PTL

(* The synthetic address of a name means that name, so no two names ever   *)
(* share one, whatever literals were reserved before it was handed out.    *)
THEOREM AliasesResolve == BookSpec => []AliasResolves
BY BookInvariance, BookInvImplies, PTL

(* LocalAddr and RemoteAddr of a connection name the pair that Partition,  *)
(* Heal and Reset know it by, for as long as it exists.                    *)
THEOREM EndsAlwaysNamePair == BookSpec => []EndsNamePair
BY BookInvariance, BookInvImplies, PTL

(* Dialing the address that an open listener shows reaches that listener   *)
(* and no other, however many were opened and closed before.               *)
THEOREM DialAlwaysReaches == BookSpec => []DialReachesListener
BY BookInvariance, BookInvImplies, PTL

(* Whom an address means never changes once anybody has used it, so what a *)
(* dial resolved before it waited for Heal still holds after the wait.     *)
THEOREM MeaningNeverChanges == BookSpec => MeaningIsFixed
<1>1. ASSUME BookInv, [BookNext]_bookVars
      PROVE  [\A ip \in DOMAIN ipOwners :
                 ip \in DOMAIN ipOwners' /\ ipOwners'[ip] = ipOwners[ip]]_bookVars
  BY <1>1, BookInvNext DEF Extends
<1> QED
  BY <1>1, BookInvariance, PTL DEF BookSpec, MeaningIsFixed

=============================================================================
