----------------------------- MODULE DrawsProofs ----------------------------
(***************************************************************************)
(* Proofs about Draws, for every width of a word, every set of rates,      *)
(* ranges and throttles asked for and every length of a unit.              *)
(***************************************************************************)
EXTENDS Draws, FiniteSetTheorems, TLAPS

-----------------------------------------------------------------------------
(* Arithmetic.                                                             *)

(* Division of naturals, with a quotient and a remainder to name.          *)
LEMMA DivMod ==
    ASSUME NEW x \in Nat, NEW y \in Nat \ {0}
    PROVE  \E d \in Nat, r \in 0..(y - 1) :
               d = x \div y /\ r = x % y /\ x = d * y + r
<1>1. x % y \in 0..(y - 1) /\ x \div y \in Int
  OBVIOUS
<1>2. PICK d \in Int, r \in Int : d = x \div y /\ r = x % y
  BY <1>1
<1>3. x = d * y + r
  BY <1>2
<1>4. d >= 0
  <2>1. SUFFICES ASSUME d <= -1 PROVE FALSE
    OBVIOUS
  <2>2. d * y <= -y
    BY <2>1
  <2> QED
    BY <1>1, <1>2, <1>3, <2>2
<1>5. d \in Nat /\ r \in 0..(y - 1)
  BY <1>1, <1>2, <1>4
<1> QED
  BY <1>2, <1>3, <1>5

LEMMA MulMono ==
    ASSUME NEW a \in Nat, NEW b \in Nat, NEW c \in Nat, a <= b
    PROVE  a * c <= b * c
OBVIOUS

LEMMA DivBelow ==
    ASSUME NEW x \in Nat, NEW y \in Nat \ {0}, NEW q \in Nat, x < q * y
    PROVE  x \div y < q
<1>1. PICK d \in Nat, r \in Nat : d = x \div y /\ x = d * y + r
  BY DivMod
<1>2. SUFFICES ASSUME q <= d PROVE FALSE
  BY <1>1
<1>3. q * y <= d * y
  BY <1>2, MulMono
<1> QED
  BY <1>1, <1>3

LEMMA DivAbove ==
    ASSUME NEW x \in Nat, NEW y \in Nat \ {0}, NEW q \in Nat, q * y <= x
    PROVE  q <= x \div y
<1>1. PICK d \in Nat, r \in 0..(y-1) : d = x \div y /\ x = d * y + r
  BY DivMod
<1>2. SUFFICES ASSUME d + 1 <= q PROVE FALSE
  BY <1>1
<1>3. (d + 1) * y <= q * y
  BY <1>2, MulMono
<1>4. (d + 1) * y = d * y + y
  OBVIOUS
<1> QED
  BY <1>1, <1>3, <1>4

(* The high half of a word times n is below n.                             *)
LEMMA HiInRange ==
    ASSUME NEW word \in Words, NEW n \in Nat \ {0}
    PROVE  Hi(word, n) \in 0..(n - 1)
<1>1. W \in Nat \ {0} /\ word \in Nat /\ word < W
  BY WordAssumption DEF Words
<1>2. word * n \in Nat /\ n * W \in Nat /\ word * n < n * W
  BY <1>1
<1>3. (word * n) \div W < n
  BY <1>1, <1>2, DivBelow
<1>4. (word * n) \div W \in Nat
  BY <1>1, <1>2, DivMod
<1> QED
  BY <1>3, <1>4 DEF Hi

(* The 128-bit product and quotient give the exact delay or clamp it.      *)
LEMMA DelayExact ==
    ASSUME NEW size \in Nat, NEW bps \in Nat \ {0}
    PROVE  LET exact == (size * Second) \div bps
           IN  SerializationDelay(size, bps) =
                   IF exact > MaxDuration THEN MaxDuration ELSE exact
<1>1. W \in Nat \ {0} /\ Second \in Nat
  BY WordAssumption
<1>2. PICK x \in Nat : x = size * Second
  BY <1>1
<1>3. PICK h \in Nat, l \in 0..(W-1) : h = x \div W /\ l = x % W /\ x = h * W + l
  BY <1>1, DivMod
<1>4. /\ Hi(size, Second) = h /\ Lo(size, Second) = l
      /\ h < bps => Div(h, l, bps) = x \div bps
  BY <1>2, <1>3 DEF Hi, Lo, Div
<1>5. ASSUME h >= bps PROVE x \div bps > MaxDuration
  <2>1. bps * W <= h * W
    BY <1>1, <1>5, MulMono
  <2>2. W * bps <= x
    BY <1>1, <1>3, <2>1
  <2>3. W <= x \div bps
    BY <1>1, <2>2, DivAbove
  <2>4. MaxDuration < W
    BY <1>1 DEF MaxDuration
  <2>5. MaxDuration \in Int /\ x \div bps \in Int
    BY <1>1, DivMod DEF MaxDuration
  <2> QED
    BY <1>1, <2>3, <2>4, <2>5
<1>6. CASE h >= bps
  BY <1>2, <1>4, <1>5, <1>6 DEF SerializationDelay
<1>7. CASE h < bps
  BY <1>2, <1>4, <1>7 DEF SerializationDelay
<1> QED
  BY <1>6, <1>7

-----------------------------------------------------------------------------
(* The rejection of boundedUint64.  The words kept for a value are those   *)
(* whose product with n lies between W * value + Least(n) and the next     *)
(* multiple of W: an interval, and n divides its length in products.       *)
Least(n) == ((W - n) % W) % n

(* What is rejected at the bottom leaves a multiple of n.                  *)
LEMMA LeastFacts ==
    ASSUME NEW n \in 1..(W - 1)
    PROVE  \E t \in 0..(n - 1), m \in Nat : t = Least(n) /\ W - t = m * n
<1>1. W \in Nat /\ W - n \in Nat /\ n \in Nat \ {0} /\ W - n < W
  BY WordAssumption
<1>2. (W - n) % W = W - n
  BY <1>1
<1>3. PICK d \in Nat, t \in 0..(n - 1) : t = (W - n) % n /\ W - n = d * n + t
  BY <1>1, DivMod
<1>4. d + 1 \in Nat /\ W - t = (d + 1) * n
  BY <1>1, <1>3
<1> QED
  BY <1>2, <1>3, <1>4 DEF Least

LEMMA KeptInterval ==
    ASSUME NEW n \in 1..(W - 1), NEW t \in 0..(n - 1), NEW m \in Nat,
           t = Least(n), W - t = m * n, NEW x \in 0..(n - 1)
    PROVE  \E a \in Nat : {w \in Words : Keeps(w, n) /\ Hi(w, n) = x} = a..(a + m - 1)
<1>1. W \in Nat \ {0} /\ n \in Nat \ {0} /\ x \in Nat /\ t \in Nat
  BY WordAssumption
<1>2. PICK low \in Nat : low = x * W + t
  BY <1>1
<1>3. PICK a \in Nat : low <= a * n /\ a * n < low + n
  <2>1. PICK d \in Nat, r \in 0..(n - 1) : low + (n - 1) = d * n + r
    <3>1. low + (n - 1) \in Nat
      BY <1>1
    <3> QED
      BY <1>1, <3>1, DivMod
  <2>2. PICK p \in Nat : p = d * n
    BY <1>1
  <2>3. low <= p /\ p < low + n
    BY <1>1, <2>1, <2>2
  <2> QED
    BY <2>2, <2>3
<1>4. ASSUME NEW w \in Words
      PROVE  Keeps(w, n) /\ Hi(w, n) = x <=> low <= w * n /\ w * n < x * W + W
  <2>1. PICK z \in Nat, k \in Nat : z = w * n /\ k = x * W
    BY <1>1 DEF Words
  <2>2. PICK h \in Nat, l \in 0..(W - 1) : h = z \div W /\ l = z % W /\ z = h * W + l
    BY <1>1, DivMod
  <2>3. l \in Nat /\ l < W /\ low = k + t
    BY <1>1, <1>2, <2>1, <2>2
  <2>4. Keeps(w, n) <=> t <= l
    <3>1. Keeps(w, n) <=> ~(l < n /\ l < t)
      BY <2>1, <2>2 DEF Keeps, Lo, Least
    <3> QED
      BY <1>1, <2>3, <3>1
  <2>5. Hi(w, n) = h
    BY <2>1, <2>2 DEF Hi
  <2>6. ASSUME t <= l, h = x PROVE low <= z /\ z < k + W
    <3>1. z = k + l
      BY <2>1, <2>2, <2>6
    <3> QED
      BY <1>1, <2>3, <2>6, <3>1
  <2>7. ASSUME low <= z, z < k + W PROVE h = x /\ t <= l
    <3>1. k <= z
      BY <1>1, <2>3, <2>7
    <3>2. z < (x + 1) * W /\ x * W <= z
      <4>1. (x + 1) * W = k + W
        BY <1>1, <2>1
      <4> QED
        BY <2>1, <2>7, <3>1, <4>1
    <3>3. h < x + 1
      <4>1. x + 1 \in Nat
        BY <1>1
      <4>2. z \div W < x + 1
        BY <1>1, <3>2, <4>1, DivBelow
      <4> QED
        BY <2>2, <4>2
    <3>4. x <= h
      BY <1>1, <2>2, <3>2, DivAbove
    <3>5. h = x
      BY <1>1, <3>3, <3>4
    <3>6. z = k + l
      BY <2>1, <2>2, <3>5
    <3> QED
      BY <1>1, <2>3, <2>7, <3>5, <3>6
  <2> QED
    BY <2>1, <2>4, <2>5, <2>6, <2>7
<1>5. ASSUME NEW w \in Nat, low <= w * n
      PROVE  a <= w
  <2>1. SUFFICES ASSUME w + 1 <= a PROVE FALSE
    OBVIOUS
  <2>2. (w + 1) * n <= a * n
    BY <1>1, <2>1, MulMono
  <2>3. (w + 1) * n = w * n + n
    BY <1>1
  <2> QED
    BY <1>1, <1>2, <1>3, <1>5, <2>2, <2>3
<1>6. ASSUME NEW w \in Nat, w * n < x * W + W
      PROVE  w < a + m
  <2>1. SUFFICES ASSUME a + m <= w PROVE FALSE
    OBVIOUS
  <2>2. (a + m) * n <= w * n
    BY <1>1, <2>1, MulMono
  <2>3. (a + m) * n = a * n + m * n
    BY <1>1
  <2>4. low + m * n = x * W + W
    BY <1>1, <1>2
  <2> QED
    BY <1>1, <1>2, <1>3, <1>6, <2>2, <2>3, <2>4
<1>7. ASSUME NEW w \in Nat, a <= w, w < a + m
      PROVE  w \in Words /\ low <= w * n /\ w * n < x * W + W
  <2>1. a * n <= w * n
    BY <1>1, <1>7, MulMono
  <2>2. (w + 1) * n <= (a + m) * n
    BY <1>1, <1>7, MulMono
  <2>3. (w + 1) * n = w * n + n /\ (a + m) * n = a * n + m * n
    BY <1>1
  <2>4. low + m * n = x * W + W
    BY <1>1, <1>2
  <2>5. low <= w * n /\ w * n < x * W + W
    BY <1>1, <1>2, <1>3, <2>1, <2>2, <2>3, <2>4
  <2>6. x * W + W <= n * W
    <3>1. (x + 1) * W <= n * W
      BY <1>1, MulMono
    <3> QED
      BY <1>1, <3>1
  <2>7. w < W
    <3>1. SUFFICES ASSUME W <= w PROVE FALSE
      BY <1>1
    <3>2. W * n <= w * n
      BY <1>1, <3>1, MulMono
    <3> QED
      BY <1>1, <2>5, <2>6, <3>2
  <2> QED
    BY <1>1, <2>5, <2>7 DEF Words
<1>8. ASSUME NEW w
      PROVE  w \in {v \in Words : Keeps(v, n) /\ Hi(v, n) = x} <=> w \in a..(a + m - 1)
  <2>1. ASSUME w \in Words, Keeps(w, n), Hi(w, n) = x PROVE w \in a..(a + m - 1)
    <3>1. w \in Nat /\ low <= w * n /\ w * n < x * W + W
      BY <1>4, <2>1, WordAssumption DEF Words
    <3>2. a <= w /\ w < a + m
      BY <1>5, <1>6, <3>1
    <3> QED
      BY <3>1, <3>2
  <2>2. ASSUME w \in a..(a + m - 1) PROVE w \in Words /\ Keeps(w, n) /\ Hi(w, n) = x
    <3>1. w \in Nat /\ a <= w /\ w < a + m
      BY <2>2
    <3> QED
      BY <1>4, <1>7, <3>1
  <2> QED
    BY <2>1, <2>2
<1> QED
  BY <1>8

LEMMA AlwaysUnbiased ==
    ASSUME NEW n \in 1..(W - 1)
    PROVE  Unbiased(n)
<1>1. PICK t \in 0..(n - 1), m \in Nat : t = Least(n) /\ W - t = m * n
  BY LeastFacts
<1>2. ASSUME NEW x \in 0..(n - 1)
      PROVE  Cardinality({w \in Words : Keeps(w, n) /\ Hi(w, n) = x}) = m
  <2>1. PICK a \in Nat : {w \in Words : Keeps(w, n) /\ Hi(w, n) = x} = a..(a + m - 1)
    BY <1>1, KeptInterval
  <2>2. a \in Int /\ a + m - 1 \in Int
    OBVIOUS
  <2>3. Cardinality(a..(a + m - 1)) = IF a > a + m - 1 THEN 0 ELSE (a + m - 1) - a + 1
    BY <2>2, FS_Interval
  <2>4. Cardinality(a..(a + m - 1)) = m
    BY <2>3
  <2> QED
    BY <2>1, <2>4
<1> QED
  BY <1>2 DEF Unbiased

-----------------------------------------------------------------------------
(* The inductive invariant.                                                *)

FaultValues == [loss : Int, latency : Int \X Int, duplicate : Int, corrupt : Int,
                bandwidth : Int]

(* A fault that was not asked for has its default; no range asked for      *)
(* overflows a Duration.                                                   *)
ConfigOK(c) ==
    /\ c.on \subseteq Kinds \cup {"bandwidth"} /\ c.value \in FaultValues
    /\ \A k \in {"loss", "duplicate", "corrupt"} : k \notin c.on => c.value[k] = 0
    /\ "latency" \notin c.on => c.value.latency = <<0, 0>>
    /\ c.value.latency[2] < W \div 2

(* Only what validate has passed is used.                                  *)
BuiltOK == /\ built \in BOOLEAN
           /\ built => Valid(cfg)
           /\ ~built => last.fate = "none"

Fates == {"none", "partitioned", "dropped", "delivered"}

UnitOK == /\ last.fate \in Fates /\ last.size \in Sizes \cup {0}
          /\ last.serialization \in 0..MaxDuration

DrawInv == /\ ConfigOK(cfg) /\ BuiltOK /\ UnitOK
           /\ inStep \in [Kinds -> BOOLEAN]
           /\ StreamsIndependent /\ SiteInUnit /\ SerializationExact

LEMMA WidthFacts ==
    /\ W \in Nat /\ W >= 2 /\ W \div 2 \in Nat \ {0} /\ W \div 2 <= W - 1
    /\ MaxDuration \in Nat /\ Unit \in Nat \ {0}
<1>1. W \in Nat /\ W >= 2 /\ Unit \in Nat \ {0}
  BY WordAssumption
<1>2. W \div 2 \in Nat \ {0} /\ W \div 2 <= W - 1
  BY <1>1
<1> QED
  BY <1>1, <1>2 DEF MaxDuration

(* An option, or a setter, changes the fault of its kind and no other.     *)
LEMMA ApplyKeepsConfig ==
    ASSUME NEW c, ConfigOK(c), NEW o \in Options
    PROVE  /\ ConfigOK(Apply(c, o))
           /\ o[1] # "bandwidth" =>
                 /\ Apply(c, o).value.bandwidth = c.value.bandwidth
                 /\ ("bandwidth" \in Apply(c, o).on <=> "bandwidth" \in c.on)
<1>1. /\ Apply(c, o).on = c.on \cup {o[1]}
      /\ Apply(c, o).value = [c.value EXCEPT ![o[1]] = o[2]]
  BY DEF Apply
<1> DEFINE v == [c.value EXCEPT ![o[1]] = o[2]]
<1>2. ASSUME NEW k \in {"loss", "duplicate", "corrupt", "bandwidth"}, NEW i \in Int,
             o = <<k, i>>
      PROVE  /\ v \in FaultValues /\ v.latency = c.value.latency
             /\ \A j \in {"loss", "duplicate", "corrupt", "bandwidth"} :
                   j # k => v[j] = c.value[j]
  BY <1>2 DEF ConfigOK, FaultValues
<1>3. ASSUME NEW r \in Int \X Int, o = <<"latency", r>>
      PROVE  /\ v \in FaultValues /\ v.latency = r
             /\ \A j \in {"loss", "duplicate", "corrupt", "bandwidth"} : v[j] = c.value[j]
  BY <1>3 DEF ConfigOK, FaultValues
<1>4. \/ \E k \in {"loss", "duplicate", "corrupt", "bandwidth"}, i \in Int : o = <<k, i>>
      \/ \E r \in Ranges : o = <<"latency", r>>
  BY AskedAssumption
     DEF Options, WithPacketLoss, WithLatency, WithDuplication, WithCorruption,
         WithBandwidth
<1> HIDE DEF v
<1>5. CASE \E k \in {"loss", "duplicate", "corrupt", "bandwidth"}, i \in Int : o = <<k, i>>
  <2>1. PICK k \in {"loss", "duplicate", "corrupt", "bandwidth"}, i \in Int : o = <<k, i>>
    BY <1>5
  <2>2. /\ v \in FaultValues /\ v.latency = c.value.latency
        /\ \A j \in {"loss", "duplicate", "corrupt", "bandwidth"} :
              j # k => v[j] = c.value[j]
    BY <1>2, <2>1
  <2>3. o[1] = k
    BY <2>1
  <2> QED
    BY <1>1, <2>2, <2>3 DEF ConfigOK, v, Kinds
<1>6. CASE \E r \in Ranges : o = <<"latency", r>>
  <2>1. PICK r \in Ranges : o = <<"latency", r>>
    BY <1>6
  <2>2. r \in Int \X Int /\ r[2] < W \div 2 /\ o[1] = "latency"
    BY <2>1, AskedAssumption
  <2>3. /\ v \in FaultValues /\ v.latency = r
        /\ \A j \in {"loss", "duplicate", "corrupt", "bandwidth"} : v[j] = c.value[j]
    BY <1>3, <2>1, <2>2
  <2> QED
    BY <1>1, <2>2, <2>3 DEF ConfigOK, v, Kinds
<1> QED
  BY <1>4, <1>5, <1>6

LEMMA InvInit ==
    ASSUME DrawInit
    PROVE  DrawInv
<1>1. ConfigOK(cfg)
  BY WidthFacts DEF DrawInit, NoFaults, ConfigOK, FaultValues
<1>2. /\ last.fate = "none" /\ last.size = 0 /\ last.corrupted = FALSE
      /\ last.site = <<0, 0>> /\ last.serialization = 0
  BY DEF DrawInit, NoUnit, Undelivered
<1>3. BuiltOK
  BY <1>2 DEF DrawInit, BuiltOK
<1>4. UnitOK
  BY <1>2, WidthFacts DEF UnitOK, Fates
<1>5. inStep \in [Kinds -> BOOLEAN] /\ StreamsIndependent
  BY DEF DrawInit, StreamsIndependent, Kinds
<1>6. SiteInUnit /\ SerializationExact
  BY <1>2 DEF SiteInUnit, SerializationExact
<1> QED
  BY <1>1, <1>3, <1>4, <1>5, <1>6 DEF DrawInv

(* A new configuration, with the last unit as it is.                       *)
LEMMA InvConfig ==
    ASSUME DrawInv, ConfigOK(cfg)', BuiltOK', UNCHANGED <<inStep, last>>,
           \/ last.fate = "none"
           \/ /\ cfg'.value.bandwidth = cfg.value.bandwidth
              /\ ("bandwidth" \in cfg'.on <=> "bandwidth" \in cfg.on)
    PROVE  DrawInv'
<1>1. UnitOK' /\ SiteInUnit'
  BY DEF DrawInv, UnitOK, SiteInUnit
<1>2. (inStep \in [Kinds -> BOOLEAN])' /\ StreamsIndependent'
  BY DEF DrawInv, StreamsIndependent
<1>3. SerializationExact'
  BY DEF DrawInv, SerializationExact
<1> QED
  BY <1>1, <1>2, <1>3 DEF DrawInv

LEMMA InvApplyOption ==
    ASSUME DrawInv, NEW o \in Options, ApplyOption(o)
    PROVE  DrawInv'
<1>1. ConfigOK(cfg)'
  BY ApplyKeepsConfig DEF DrawInv, ApplyOption
<1>2. BuiltOK' /\ last.fate = "none"
  BY DEF DrawInv, BuiltOK, ApplyOption
<1> QED
  BY <1>1, <1>2, InvConfig DEF ApplyOption

LEMMA InvNewNetwork ==
    ASSUME DrawInv, NewNetwork
    PROVE  DrawInv'
<1>1. ConfigOK(cfg)'
  BY DEF DrawInv, NewNetwork
<1>2. BuiltOK' /\ last.fate = "none"
  BY DEF DrawInv, BuiltOK, NewNetwork
<1> QED
  BY <1>1, <1>2, InvConfig DEF NewNetwork

LEMMA ApplyValues ==
    ASSUME NEW c, ConfigOK(c), NEW k \in Kinds, NEW v
    PROVE  /\ Apply(c, <<k, v>>).on = c.on \cup {k}
           /\ Apply(c, <<k, v>>).value[k] = v
           /\ \A j \in Kinds \cup {"bandwidth"} :
                 j # k => Apply(c, <<k, v>>).value[j] = c.value[j]
<1>1. DOMAIN c.value = Kinds \cup {"bandwidth"}
  BY DEF ConfigOK, FaultValues, Kinds
<1> QED
  BY <1>1 DEF Apply

(* A setter validates the one value it changes.                            *)
LEMMA InvSetter ==
    ASSUME DrawInv, NEW k \in Kinds, NEW v, <<k, v>> \in Options, built,
           IF k = "latency" THEN ValidRange(v) ELSE ValidRate(v),
           cfg' = Apply(cfg, <<k, v>>), UNCHANGED <<built, inStep, last>>
    PROVE  DrawInv'
<1>1. PICK o \in Options : o = <<k, v>> /\ o[1] = k
  OBVIOUS
<1>2. k # "bandwidth"
  BY DEF Kinds
<1>3. /\ ConfigOK(cfg) /\ ConfigOK(cfg)'
      /\ cfg'.value.bandwidth = cfg.value.bandwidth
      /\ ("bandwidth" \in cfg'.on <=> "bandwidth" \in cfg.on)
  BY <1>1, <1>2, ApplyKeepsConfig DEF DrawInv
<1>4. /\ cfg'.on = cfg.on \cup {k} /\ cfg'.value[k] = v
      /\ \A j \in Kinds \cup {"bandwidth"} : j # k => cfg'.value[j] = cfg.value[j]
  BY <1>3, ApplyValues
<1>5. Valid(cfg)
  BY DEF DrawInv, BuiltOK
<1>6. Valid(cfg')
  <2>1. ASSUME NEW j \in {"loss", "duplicate", "corrupt"} \cap cfg'.on
        PROVE  ValidRate(cfg'.value[j])
    BY <1>4, <1>5 DEF Valid, Kinds
  <2>2. "latency" \in cfg'.on => ValidRange(cfg'.value.latency)
    BY <1>4, <1>5 DEF Valid, Kinds
  <2>3. "bandwidth" \in cfg'.on => ValidThrottle(cfg'.value.bandwidth)
    BY <1>3, <1>5 DEF Valid
  <2> QED
    BY <2>1, <2>2, <2>3 DEF Valid
<1>7. BuiltOK'
  BY <1>6 DEF DrawInv, BuiltOK
<1> QED
  BY <1>3, <1>7, InvConfig

LEMMA InvSetters ==
    ASSUME DrawInv,
           \/ \E rate \in Rates : SetPacketLoss(rate) \/ SetDuplication(rate)
                                  \/ SetCorruption(rate)
           \/ \E range \in Ranges : SetLatency(range)
    PROVE  DrawInv'
<1>1. ASSUME NEW rate \in Rates, SetPacketLoss(rate) PROVE DrawInv'
  <2>1. "loss" \in Kinds /\ <<"loss", rate>> \in Options /\ "loss" # "latency"
    BY DEF Kinds, Options, WithPacketLoss
  <2> QED
    BY <1>1, <2>1, InvSetter DEF SetPacketLoss, WithPacketLoss
<1>2. ASSUME NEW rate \in Rates, SetDuplication(rate) PROVE DrawInv'
  <2>1. "duplicate" \in Kinds /\ <<"duplicate", rate>> \in Options
        /\ "duplicate" # "latency"
    BY DEF Kinds, Options, WithDuplication
  <2> QED
    BY <1>2, <2>1, InvSetter DEF SetDuplication, WithDuplication
<1>3. ASSUME NEW rate \in Rates, SetCorruption(rate) PROVE DrawInv'
  <2>1. "corrupt" \in Kinds /\ <<"corrupt", rate>> \in Options /\ "corrupt" # "latency"
    BY DEF Kinds, Options, WithCorruption
  <2> QED
    BY <1>3, <2>1, InvSetter DEF SetCorruption, WithCorruption
<1>4. ASSUME NEW range \in Ranges, SetLatency(range) PROVE DrawInv'
  <2>1. "latency" \in Kinds /\ <<"latency", range>> \in Options
    BY DEF Kinds, Options, WithLatency
  <2> QED
    BY <1>4, <2>1, InvSetter DEF SetLatency, WithLatency
<1> QED
  BY <1>1, <1>2, <1>3, <1>4

-----------------------------------------------------------------------------
(* Units.                                                                  *)

(* A site is a byte of the unit and a bit of the byte.                     *)
LEMMA SiteInside ==
    ASSUME NEW n \in Nat \ {0}, NEW site \in CorruptionSite(n)
    PROVE  site.value \in (0..(n - 1)) \X (0..(BitsPerByte - 1))
<1>1. PICK byte \in BoundedUint64(n), bit \in BoundedUint64(BitsPerByte) :
           site = [value |-> <<byte.value, bit.value>>, words |-> byte.words + bit.words]
  BY DEF CorruptionSite
<1>2. ASSUME NEW k \in Nat \ {0}, NEW d \in BoundedUint64(k)
      PROVE  d.value \in 0..(k - 1)
  <2>1. PICK word \in Words : d.value = Hi(word, k)
    BY DEF BoundedUint64
  <2> QED
    BY <2>1, HiInRange
<1>3. BitsPerByte \in Nat \ {0}
  BY WordAssumption
<1>4. byte.value \in 0..(n - 1) /\ bit.value \in 0..(BitsPerByte - 1)
  BY <1>2, <1>3
<1> QED
  BY <1>1, <1>4

(* A fault that is configured draws, whichever others are.                 *)
LEMMA TrialAlone ==
    ASSUME NEW c, NEW offer, NEW k \in Kinds
    PROVE  Trials(c, offer)[k] = Trials(Only(c, k), offer)[k]
<1>1. k \in Only(c, k).on <=> k \in c.on
  BY DEF Only
<1> QED
  BY <1>1 DEF Trials

(* Only the draws of corruption go beyond its trial.                       *)
LEMMA DrawsAreTrials ==
    ASSUME NEW c, NEW partitioned \in BOOLEAN, NEW offer, NEW site, NEW size,
           NEW k \in Kinds, k # "corrupt"
    PROVE  Evaluate(c, partitioned, offer, site, size).draws[k]
             = IF partitioned THEN Idle(k) ELSE Trials(c, offer)[k]
<1>1. DOMAIN Trials(c, offer) = Kinds
  BY DEF Trials
<1>2. CASE partitioned
  BY <1>2 DEF Evaluate
<1>3. CASE ~partitioned
  BY <1>1, <1>3 DEF Evaluate
<1> QED
  BY <1>2, <1>3

(* So neither what another fault decides nor whether it is configured is   *)
(* seen by the streams of the other three.                                 *)
LEMMA DecideKeepsStep ==
    ASSUME DrawInv, NEW partitioned \in BOOLEAN, NEW offer, NEW site, NEW size,
           Decide(partitioned, offer, site, size)
    PROVE  (inStep \in [Kinds -> BOOLEAN])' /\ StreamsIndependent'
<1>1. inStep' = [k \in Kinds |-> inStep[k]
                   /\ Evaluate(cfg, partitioned, offer, site, size).draws[k]
                        = Evaluate(Only(cfg, k), partitioned, offer, site, size).draws[k]]
  BY DEF Decide
<1>2. ASSUME NEW k \in {"loss", "latency", "duplicate"}
      PROVE  inStep'[k]
  <2>1. k \in Kinds /\ k # "corrupt" /\ inStep[k]
    BY DEF Kinds, DrawInv, StreamsIndependent
  <2>2. PICK c, o : c = cfg /\ o = Only(cfg, k)
    OBVIOUS
  <2>3. Trials(c, offer)[k] = Trials(o, offer)[k]
    BY <2>1, <2>2, TrialAlone
  <2>4. Evaluate(c, partitioned, offer, site, size).draws[k]
          = Evaluate(o, partitioned, offer, site, size).draws[k]
    BY <2>1, <2>3, DrawsAreTrials
  <2> QED
    BY <1>1, <2>1, <2>2, <2>4
<1>3. StreamsIndependent'
  BY <1>2 DEF StreamsIndependent
<1> QED
  BY <1>1, <1>3

LEMMA InvDeliver ==
    ASSUME DrawInv, NEW size \in Sizes, Deliver(size)
    PROVE  DrawInv'
<1>1. PICK offer \in Offers : \E site \in Sites(offer, size) :
        Decide(FALSE, offer, site, size)
  BY DEF Deliver
<1>2. PICK site \in Sites(offer, size) : Decide(FALSE, offer, site, size)
  BY <1>1
<1>3. /\ last'.fate = IF offer.loss.value THEN "dropped" ELSE "delivered"
      /\ last'.size = size /\ last'.corrupted = offer.corrupt.value
      /\ last'.site = IF offer.loss.value THEN <<0, 0>> ELSE site.value
      /\ last'.serialization = Serialization(cfg, size, offer.loss.value)
  <2>1. /\ Trials(cfg, offer)["loss"] = offer.loss
        /\ Trials(cfg, offer)["corrupt"] = offer.corrupt
    BY DEF Trials, Kinds, Offers, Decision
  <2>2. (offer.corrupt.value /\ size > 0) \/ site = NoSite
    BY DEF Sites
  <2>3. last' = [fate |-> IF offer.loss.value THEN "dropped" ELSE "delivered",
                 size |-> size, corrupted |-> offer.corrupt.value,
                 site |-> IF ~offer.loss.value /\ offer.corrupt.value /\ size > 0
                          THEN site.value ELSE <<0, 0>>,
                 serialization |-> Serialization(cfg, size, offer.loss.value)]
    BY <1>2, <2>1 DEF Decide, Evaluate, NoSite
  <2> QED
    BY <2>2, <2>3 DEF NoSite
<1>4. built /\ built' = built /\ cfg' = cfg
  BY <1>2 DEF Decide
<1>5. ConfigOK(cfg)' /\ BuiltOK'
  BY <1>4 DEF DrawInv, BuiltOK
<1>6. size \in Nat
  BY WidthFacts, WordAssumption
<1>7. "bandwidth" \in cfg.on => cfg.value.bandwidth \in Nat \ {0}
  BY <1>4 DEF DrawInv, BuiltOK, Valid, ValidThrottle, ConfigOK, FaultValues
<1>8. /\ Serialization(cfg, size, offer.loss.value) \in 0..MaxDuration
      /\ "bandwidth" \in cfg.on /\ ~offer.loss.value =>
            LET exact == (size * Second) \div cfg.value.bandwidth
            IN  Serialization(cfg, size, offer.loss.value) =
                    IF exact > MaxDuration THEN MaxDuration ELSE exact
  <2>1. CASE "bandwidth" \in cfg.on /\ ~offer.loss.value
    <3>1. PICK bps \in Nat \ {0} : bps = cfg.value.bandwidth
      BY <1>7, <2>1
    <3>2. PICK x \in Nat : x = size * Second
      BY <1>6, WordAssumption
    <3>3. PICK e \in Nat : e = x \div bps
      BY DivMod
    <3>4. SerializationDelay(size, bps) = IF e > MaxDuration THEN MaxDuration ELSE e
      BY <1>6, <3>2, <3>3, DelayExact
    <3>5. Serialization(cfg, size, offer.loss.value) = SerializationDelay(size, bps)
      BY <2>1, <3>1 DEF Serialization
    <3>6. (IF e > MaxDuration THEN MaxDuration ELSE e) \in 0..MaxDuration
      BY WidthFacts
    <3> QED
      BY <3>1, <3>2, <3>3, <3>4, <3>5, <3>6
  <2>2. CASE ~("bandwidth" \in cfg.on /\ ~offer.loss.value)
    <3>1. Serialization(cfg, size, offer.loss.value) = 0
      BY <2>2 DEF Serialization
    <3>2. 0 \in 0..MaxDuration
      BY WidthFacts
    <3> QED
      BY <2>2, <3>1, <3>2
  <2> QED
    BY <2>1, <2>2
<1>9. UnitOK'
  BY <1>3, <1>8 DEF UnitOK, Fates
<1>10. SerializationExact'
  BY <1>3, <1>4, <1>8 DEF SerializationExact
<1>11. SiteInUnit'
  <2>1. CASE offer.loss.value
    BY <1>3, <2>1 DEF SiteInUnit
  <2>2. CASE ~offer.loss.value /\ offer.corrupt.value /\ size > 0
    <3>1. site \in CorruptionSite(size) /\ size \in Nat \ {0}
      BY <1>6, <2>2 DEF Sites
    <3>2. site.value \in (0..(size - 1)) \X (0..(BitsPerByte - 1))
      BY <3>1, SiteInside
    <3> QED
      BY <1>3, <2>2, <3>2 DEF SiteInUnit
  <2>3. CASE ~offer.loss.value /\ ~(offer.corrupt.value /\ size > 0)
    <3>1. site.value = <<0, 0>>
      BY <2>3 DEF Sites, NoSite
    <3> QED
      BY <1>3, <2>3, <3>1 DEF SiteInUnit
  <2> QED
    BY <2>1, <2>2, <2>3
<1>12. (inStep \in [Kinds -> BOOLEAN])' /\ StreamsIndependent'
  <2>1. PICK partitioned \in BOOLEAN : Decide(partitioned, offer, site, size)
    BY <1>2
  <2> QED
    BY <2>1, DecideKeepsStep
<1> QED
  BY <1>5, <1>9, <1>10, <1>11, <1>12 DEF DrawInv

LEMMA InvDeliverPartitioned ==
    ASSUME DrawInv, DeliverPartitioned
    PROVE  DrawInv'
<1>1. /\ last'.fate = "partitioned" /\ last'.size = 0 /\ last'.corrupted = FALSE
      /\ last'.site = <<0, 0>> /\ last'.serialization = 0
      /\ built /\ UNCHANGED <<built, cfg>>
  BY DEF DeliverPartitioned, Decide, Evaluate, Undelivered
<1>2. ConfigOK(cfg)' /\ BuiltOK'
  BY <1>1 DEF DrawInv, BuiltOK
<1>3. UnitOK'
  BY <1>1, WidthFacts DEF UnitOK, Fates
<1>4. SiteInUnit' /\ SerializationExact'
  BY <1>1 DEF SiteInUnit, SerializationExact
<1>5. (inStep \in [Kinds -> BOOLEAN])' /\ StreamsIndependent'
  <2>1. \E offer, site, size : Decide(TRUE, offer, site, size)
    BY Zenon DEF DeliverPartitioned
  <2>2. PICK offer, site, size : Decide(TRUE, offer, site, size)
    BY <2>1
  <2>3. PICK partitioned \in BOOLEAN : Decide(partitioned, offer, site, size)
    BY <2>2
  <2> QED
    BY <2>3, DecideKeepsStep
<1> QED
  BY <1>2, <1>3, <1>4, <1>5 DEF DrawInv

LEMMA InvNext ==
    ASSUME DrawInv, [DrawNext]_drawVars
    PROVE  DrawInv'
<1>1. ASSUME NEW o \in Options, ApplyOption(o) PROVE DrawInv'
  BY <1>1, InvApplyOption
<1>2. CASE NewNetwork
  BY <1>2, InvNewNetwork
<1>3. ASSUME NEW size \in Sizes, Deliver(size) PROVE DrawInv'
  BY <1>3, InvDeliver
<1>4. CASE DeliverPartitioned
  BY <1>4, InvDeliverPartitioned
<1>5. CASE \/ \E rate \in Rates : SetPacketLoss(rate) \/ SetDuplication(rate)
                                  \/ SetCorruption(rate)
           \/ \E range \in Ranges : SetLatency(range)
  BY <1>5, InvSetters
<1>6. CASE UNCHANGED drawVars
  <2>1. ConfigOK(cfg)' /\ BuiltOK' /\ UNCHANGED <<cfg, inStep, last>>
    BY <1>6 DEF drawVars, DrawInv, BuiltOK
  <2> QED
    BY <2>1, InvConfig
<1> QED
  BY <1>1, <1>2, <1>3, <1>4, <1>5, <1>6 DEF DrawNext

-----------------------------------------------------------------------------
(* DrawInv holds of every configuration that options and setters produce   *)
(* and of every unit that the evaluator decides.                           *)
THEOREM DrawInvariance == DrawSpec => []DrawInv
<1>1. DrawInit => DrawInv
  BY InvInit
<1>2. DrawInv /\ [DrawNext]_drawVars => DrawInv'
  BY InvNext
<1> QED
  BY <1>1, <1>2, PTL DEF DrawSpec

(* The range the evaluator draws latencies from, once NewNetwork returned. *)
LEMMA LatencyValid ==
    ASSUME DrawInv, built
    PROVE  \E lo \in Nat, hi \in Nat : /\ cfg.value.latency = <<lo, hi>>
                                       /\ lo <= hi /\ hi < W \div 2
<1>1. PICK lo \in Int, hi \in Int : cfg.value.latency = <<lo, hi>>
  BY DEF DrawInv, ConfigOK, FaultValues
<1>2. hi < W \div 2
  BY <1>1 DEF DrawInv, ConfigOK
<1>3. CASE "latency" \in cfg.on
  <2>1. ValidRange(<<lo, hi>>)
    BY <1>1, <1>3 DEF DrawInv, BuiltOK, Valid
  <2>2. lo >= 0 /\ hi >= 0 /\ lo <= hi
    BY <2>1 DEF ValidRange
  <2> QED
    BY <1>1, <1>2, <2>2
<1>4. CASE "latency" \notin cfg.on
  <2>1. <<lo, hi>> = <<0, 0>>
    BY <1>1, <1>4 DEF DrawInv, ConfigOK
  <2>2. lo = 0 /\ hi = 0
    BY <2>1
  <2> QED
    BY <1>1, <1>2, <2>2
<1> QED
  BY <1>3, <1>4

(* n.faults is always a configuration the evaluator can work with: what    *)
(* validate or a setter refuses never reaches it.                          *)
THEOREM DrawTypeCorrect == DrawSpec => []DrawTypeOK
<1>1. ASSUME DrawInv PROVE DrawTypeOK
  <2>1. /\ built \in BOOLEAN /\ cfg.on \subseteq Kinds \cup {"bandwidth"}
        /\ inStep \in [Kinds -> BOOLEAN] /\ last.fate \in Fates
        /\ last.size \in Sizes \cup {0} /\ last.serialization \in 0..MaxDuration
    BY <1>1 DEF DrawInv, ConfigOK, BuiltOK, UnitOK
  <2>2. ASSUME built, NEW k \in {"loss", "duplicate", "corrupt"}
        PROVE  cfg.value[k] \in 0..Unit
    <3>1. cfg.value[k] \in Int
      BY <1>1 DEF DrawInv, ConfigOK, FaultValues
    <3>2. CASE k \in cfg.on
      <4>1. ValidRate(cfg.value[k])
        BY <1>1, <2>2, <3>2 DEF DrawInv, BuiltOK, Valid
      <4> QED
        BY <3>1, <4>1, WidthFacts DEF ValidRate
    <3>3. CASE k \notin cfg.on
      <4>1. cfg.value[k] = 0
        BY <1>1, <3>3 DEF DrawInv, ConfigOK
      <4> QED
        BY <4>1, WidthFacts
    <3> QED
      BY <3>2, <3>3
  <2>3. ASSUME built
        PROVE  cfg.value.latency \in {r \in Nat \X Nat : r[1] <= r[2]}
    <3>1. PICK lo \in Nat, hi \in Nat : cfg.value.latency = <<lo, hi>> /\ lo <= hi
      BY <1>1, <2>3, LatencyValid
    <3> QED
      BY <3>1
  <2>4. built /\ "bandwidth" \in cfg.on => cfg.value.bandwidth \in Nat \ {0}
    BY <1>1 DEF DrawInv, BuiltOK, Valid, ValidThrottle, ConfigOK, FaultValues
  <2> QED
    BY <2>1, <2>2, <2>3, <2>4 DEF DrawTypeOK, Fates
<1> QED
  BY <1>1, DrawInvariance, PTL

(* The draw discipline of installFaultPolicy: loss, latency and            *)
(* duplication decide and draw on every unit as they would with no other   *)
(* fault configured, for any options, any setters between the units and    *)
(* any partitions that both networks have.                                 *)
THEOREM StreamsStayIndependent == DrawSpec => []StreamsIndependent
<1>1. DrawInv => StreamsIndependent
  BY DEF DrawInv
<1> QED
  BY <1>1, DrawInvariance, PTL

(* corruptionSite flips a bit inside a delivered unit, and nothing else.   *)
THEOREM SitesInUnit == DrawSpec => []SiteInUnit
<1>1. DrawInv => SiteInUnit
  BY DEF DrawInv
<1> QED
  BY <1>1, DrawInvariance, PTL

(* serializationDelay is exact or clamped, for words of any width.         *)
THEOREM DelaysExact == DrawSpec => []SerializationExact
<1>1. DrawInv => SerializationExact
  BY DEF DrawInv
<1> QED
  BY <1>1, DrawInvariance, PTL

(* boundedUint64 is unbiased for every range that can be configured and    *)
(* every length that can be written: none of them exceeds a word.          *)
THEOREM DrawsNeverBiased == DrawSpec => []DrawsUnbiased
<1>1. ASSUME DrawInv PROVE DrawsUnbiased
  <2>1. ASSUME built
        PROVE  Unbiased(cfg.value.latency[2] - cfg.value.latency[1] + 1)
    <3>1. PICK lo \in Nat, hi \in Nat : /\ cfg.value.latency = <<lo, hi>>
                                        /\ lo <= hi /\ hi < W \div 2
      BY <1>1, <2>1, LatencyValid
    <3>2. PICK n \in 1..(W - 1) : n = hi - lo + 1
      BY <3>1, WidthFacts
    <3>3. cfg.value.latency[2] - cfg.value.latency[1] + 1 = n
      BY <3>1, <3>2
    <3> QED
      BY <3>3, AlwaysUnbiased
  <2>2. ASSUME last.size > 0 PROVE Unbiased(last.size)
    <3>1. last.size \in 0..(W \div 2 - 1)
      <4>1. last.size \in Sizes \cup {0}
        BY <1>1 DEF DrawInv, UnitOK
      <4>2. Sizes \subseteq 0..(W \div 2 - 1) /\ last.size # 0
        BY <2>2, WordAssumption
      <4> QED
        BY <4>1, <4>2
    <3>2. last.size \in 1..(W - 1)
      BY <2>2, <3>1, WidthFacts
    <3> QED
      BY <3>2, AlwaysUnbiased
  <2> QED
    BY <2>1, <2>2 DEF DrawsUnbiased
<1> QED
  BY <1>1, DrawInvariance, PTL

(* uniformDuration never leaves the range asked for, at either end.        *)
LatencyInRange ==
    built => \A d \in UniformDuration(cfg.value.latency) :
                 d.value \in cfg.value.latency[1]..cfg.value.latency[2]

(* Every latency drawn for a unit lies between the minimum and the maximum *)
(* that WithLatency or SetLatency was given.                               *)
THEOREM LatenciesInRange == DrawSpec => []LatencyInRange
<1>1. ASSUME DrawInv, built, NEW d \in UniformDuration(cfg.value.latency)
      PROVE  d.value \in cfg.value.latency[1]..cfg.value.latency[2]
  <2>1. PICK lo \in Nat, hi \in Nat : cfg.value.latency = <<lo, hi>> /\ lo <= hi
    BY <1>1, LatencyValid
  <2>2. PICK n \in Nat \ {0} : n = hi - lo + 1
    BY <2>1
  <2>3. cfg.value.latency[1] = lo /\ cfg.value.latency[2] = hi
    BY <2>1
  <2>4. PICK e \in BoundedUint64(n) : d = [e EXCEPT !.value = lo + @]
    BY <1>1, <2>2, <2>3 DEF UniformDuration
  <2>5. PICK word \in Words : \E k : e = [value |-> Hi(word, n), words |-> k]
    BY DEF BoundedUint64
  <2>6. d.value = lo + Hi(word, n)
    BY <2>4, <2>5
  <2>7. Hi(word, n) \in 0..(n - 1)
    BY HiInRange
  <2> QED
    BY <2>1, <2>2, <2>3, <2>6, <2>7
<1>2. DrawInv => LatencyInRange
  BY <1>1 DEF LatencyInRange
<1> QED
  BY <1>2, DrawInvariance, PTL
=============================================================================
