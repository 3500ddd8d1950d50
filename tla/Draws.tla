------------------------------- MODULE Draws --------------------------------
(***************************************************************************)
(* What the evaluator of one connection direction draws from its random    *)
(* streams, and the word arithmetic behind it (rand.go, corrupt.go,        *)
(* bandwidth.go, the decisions in faults.go), with the options and setters *)
(* that configure it (options.go, netchaos.go).  Every fault kind has a    *)
(* stream of its own; what it holds is a nondeterministic choice, so the   *)
(* model follows how far each stream is read.  Pipe.tla has what becomes   *)
(* of the units.                                                           *)
(***************************************************************************)
EXTENDS Integers, Sequences, FiniteSets

CONSTANTS
    W,             \* words are 0..W-1 (2^64 in the code)
    Rates,         \* rates asked for, in units of 1/Unit
    Unit,          \* what bernoulli keeps of a word: 2^53
    Ranges,        \* latency ranges <<min, max>> asked for
    Throttles,     \* bytes per second asked for
    Second,        \* time.Second
    BitsPerByte,   \* 8
    Sizes,         \* lengths of the units written
    MaxResamples   \* bound: words one bounded draw rejects

ASSUME WordAssumption == /\ W \in Nat /\ Unit \in Nat \ {0} /\ W % (2 * Unit) = 0
                         /\ Second \in 1..(W - 1) /\ BitsPerByte \in 1..(W - 1)
                         /\ Sizes \subseteq 0..(W \div 2 - 1)
ASSUME AskedAssumption == /\ Rates \subseteq Int /\ Throttles \subseteq Int
                          /\ Ranges \subseteq Int \X Int
                          /\ \A r \in Ranges : r[2] < W \div 2
                          /\ \A b \in Throttles : b < W \div 2
ASSUME DrawCaps == MaxResamples \in Nat

VARIABLES
    built,         \* has NewNetwork returned?
    cfg,           \* its cfg, then n.faults: the faults enabled, their values
    inStep,        \* history: has the fault of a kind decided and drawn as
                   \* if no other fault were configured?
    last           \* the last unit evaluated

drawVars == <<built, cfg, inStep, last>>

-----------------------------------------------------------------------------
Words       == 0..(W - 1)
MaxDuration == W \div 2 - 1      \* math.MaxInt64
Kinds       == {"loss", "latency", "duplicate", "corrupt"}

(* bits.Mul64 and bits.Div64, which panics where the quotient is no word.  *)
Panics == -1
Hi(x, y) == (x * y) \div W
Lo(x, y) == (x * y) % W
Div(hi, lo, y) == IF y <= hi THEN Panics ELSE (hi * W + lo) \div y

(* The words boundedUint64 keeps: a low half below -n % n is drawn again.  *)
(* Seeded fault: none is.                                                  *)
KeepsAll(word, n) == word \in Words

Keeps(word, n) == ~(Lo(word, n) < n /\ Lo(word, n) < ((W - n) % W) % n)

(* What a draw may come to: its value, and the words it took.              *)
BoundedUint64(n) ==
    {[value |-> Hi(word, n), words |-> rejected + 1] :
        word \in {v \in Words : Keeps(v, n)},
        rejected \in 0..(IF \A v \in Words : Keeps(v, n) THEN 0 ELSE MaxResamples)}

Bernoulli(rate) ==
    {[value |-> rate >= Unit \/ (rate > 0 /\ word \div (W \div Unit) < rate),
      words |-> 1] : word \in Words}

UniformDuration(range) ==
    {[d EXCEPT !.value = range[1] + @] : d \in BoundedUint64(range[2] - range[1] + 1)}

(* Seeded fault: one byte beyond the unit.                                 *)
CorruptionSiteBeyond(n) ==
    {[value |-> <<byte.value, bit.value>>, words |-> byte.words + bit.words] :
        byte \in BoundedUint64(n + 1), bit \in BoundedUint64(BitsPerByte)}

CorruptionSite(n) ==
    {[value |-> <<byte.value, bit.value>>, words |-> byte.words + bit.words] :
        byte \in BoundedUint64(n), bit \in BoundedUint64(BitsPerByte)}

(* How long size bytes occupy the link, clamped where it does not fit.     *)
(* Seeded fault: the clamp only looks at the quotient.                     *)
SerializationDelayLateClamp(size, bps) ==
    LET q == Div(Hi(size, Second), Lo(size, Second), bps)
    IN  IF q > MaxDuration THEN MaxDuration ELSE q

SerializationDelay(size, bps) ==
    IF Hi(size, Second) >= bps THEN MaxDuration
    ELSE LET q == Div(Hi(size, Second), Lo(size, Second), bps)
         IN  IF q > MaxDuration THEN MaxDuration ELSE q

-----------------------------------------------------------------------------
(* Options, and the setters of the same names.                             *)
WithPacketLoss(rate)  == <<"loss", rate>>
WithLatency(range)    == <<"latency", range>>
WithDuplication(rate) == <<"duplicate", rate>>
WithCorruption(rate)  == <<"corrupt", rate>>
WithBandwidth(bps)    == <<"bandwidth", bps>>

Options == {WithPacketLoss(r) : r \in Rates} \cup {WithLatency(r) : r \in Ranges}
           \cup {WithDuplication(r) : r \in Rates}
           \cup {WithCorruption(r) : r \in Rates}
           \cup {WithBandwidth(b) : b \in Throttles}

NoFaults == [on |-> {}, value |-> [loss |-> 0, latency |-> <<0, 0>>, duplicate |-> 0,
                                   corrupt |-> 0, bandwidth |-> 0]]

Apply(c, o) == [on |-> c.on \cup {o[1]}, value |-> [c.value EXCEPT ![o[1]] = o[2]]]

ValidRate(rate)   == rate >= 0 /\ rate <= Unit
ValidRange(range) == range[1] >= 0 /\ range[2] >= 0 /\ range[1] <= range[2]
ValidThrottle(b)  == b > 0

(* Seeded fault: the rates of loss only.                                   *)
ValidForgets(c) ==
    /\ "loss" \in c.on => ValidRate(c.value.loss)
    /\ "latency" \in c.on => ValidRange(c.value.latency)
    /\ "bandwidth" \in c.on => ValidThrottle(c.value.bandwidth)

Valid(c) ==
    /\ \A k \in {"loss", "duplicate", "corrupt"} \cap c.on : ValidRate(c.value[k])
    /\ "latency" \in c.on => ValidRange(c.value.latency)
    /\ "bandwidth" \in c.on => ValidThrottle(c.value.bandwidth)

Undelivered(fate) == [fate |-> fate, size |-> 0, corrupted |-> FALSE,
                      site |-> <<0, 0>>, serialization |-> 0]

NoUnit == Undelivered("none")

DrawInit ==
    /\ built = FALSE /\ cfg = NoFaults
    /\ inStep = [k \in Kinds |-> TRUE]
    /\ last = NoUnit

(* NewNetwork applies its options in their order, as many as there are.    *)
ApplyOption(o) ==
    /\ ~built
    /\ cfg' = Apply(cfg, o)
    /\ UNCHANGED <<built, inStep, last>>

(* It validates once, after the last of them, and panics if that fails.    *)
NewNetwork ==
    /\ ~built
    /\ Valid(cfg)
    /\ built' = TRUE
    /\ UNCHANGED <<cfg, inStep, last>>

SetPacketLoss(rate) ==
    /\ built
    /\ ValidRate(rate)
    /\ cfg' = Apply(cfg, WithPacketLoss(rate))
    /\ UNCHANGED <<built, inStep, last>>

SetLatency(range) ==
    /\ built
    /\ ValidRange(range)
    /\ cfg' = Apply(cfg, WithLatency(range))
    /\ UNCHANGED <<built, inStep, last>>

SetDuplication(rate) ==
    /\ built
    /\ ValidRate(rate)
    /\ cfg' = Apply(cfg, WithDuplication(rate))
    /\ UNCHANGED <<built, inStep, last>>

SetCorruption(rate) ==
    /\ built
    /\ ValidRate(rate)
    /\ cfg' = Apply(cfg, WithCorruption(rate))
    /\ UNCHANGED <<built, inStep, last>>

-----------------------------------------------------------------------------
(* What a fault that is not configured decides and draws.                  *)
Idle(kind) == [value |-> IF kind = "latency" THEN 0 ELSE FALSE, words |-> 0]
NoSite     == [value |-> <<0, 0>>, words |-> 0]

(* What the streams may hold next: for the decision of each kind on one    *)
(* unit, and for the site of a corruption after it.                        *)
Decision(kind) ==
    IF kind \notin cfg.on THEN {Idle(kind)}
    ELSE IF kind = "latency" THEN UniformDuration(cfg.value.latency)
    ELSE Bernoulli(cfg.value[kind])

Offers == [loss : Decision("loss"), latency : Decision("latency"),
           duplicate : Decision("duplicate"), corrupt : Decision("corrupt")]

Sites(offer, size) == IF offer.corrupt.value /\ size > 0 THEN CorruptionSite(size)
                      ELSE {NoSite}

(* The evaluator draws the decision of every fault that c configures.      *)
(* Seeded fault: it returns as soon as the unit is lost.                   *)
TrialsLazily(c, offer) ==
    LET lost == "loss" \in c.on /\ offer.loss.value
    IN  [k \in Kinds |-> IF k \in c.on /\ (lost => k = "loss") THEN offer[k]
                         ELSE Idle(k)]

Trials(c, offer) == [k \in Kinds |-> IF k \in c.on THEN offer[k] ELSE Idle(k)]

Serialization(c, size, dropped) ==
    IF "bandwidth" \in c.on /\ ~dropped
    THEN SerializationDelay(size, c.value.bandwidth) ELSE 0

(* What it makes of a unit under configuration c: the event it records,    *)
(* and what each fault decided with how many words of its stream.  The     *)
(* partition gate returns before any draw, a drop before the site's.       *)
Evaluate(c, partitioned, offer, site, size) ==
    LET trial   == Trials(c, offer)
        dropped == trial["loss"].value
        drawn   == IF ~dropped /\ trial["corrupt"].value /\ size > 0 THEN site
                   ELSE NoSite
    IN  IF partitioned
        THEN [event |-> Undelivered("partitioned"), draws |-> [k \in Kinds |-> Idle(k)]]
        ELSE [event |-> [fate |-> IF dropped THEN "dropped" ELSE "delivered",
                         size |-> size, corrupted |-> trial["corrupt"].value,
                         site |-> drawn.value,
                         serialization |-> Serialization(c, size, dropped)],
              draws |-> [trial EXCEPT !["corrupt"].words = @ + drawn.words]]

(* The same configuration without the faults of the other kinds.           *)
Only(c, kind) == [c EXCEPT !.on = @ \cap {kind}]

(* p.deliver.  Beside the connection runs one for each kind that has only  *)
(* the fault of that kind: same seed, same units, same partitions.         *)
Decide(partitioned, offer, site, size) ==
    LET Under(c) == Evaluate(c, partitioned, offer, site, size)
        full     == Under(cfg)
    IN  /\ built
        /\ last' = full.event
        /\ inStep' = [k \in Kinds |-> inStep[k]
                         /\ full.draws[k] = Under(Only(cfg, k)).draws[k]]
        /\ UNCHANGED <<built, cfg>>

(* A unit that clears the partition gate.                                  *)
Deliver(size) ==
    \E offer \in Offers : \E site \in Sites(offer, size) :
        Decide(FALSE, offer, site, size)

(* A unit that does not: what the streams hold does not matter.            *)
DeliverPartitioned == Decide(TRUE, [k \in Kinds |-> Idle(k)], NoSite, 0)

DrawNext ==
    \/ \E o \in Options : ApplyOption(o)
    \/ NewNetwork
    \/ \E size \in Sizes : Deliver(size)
    \/ DeliverPartitioned
    \/ \E rate \in Rates : \/ SetPacketLoss(rate) \/ SetDuplication(rate)
                           \/ SetCorruption(rate)
    \/ \E range \in Ranges : SetLatency(range)

DrawSpec == DrawInit /\ [][DrawNext]_drawVars

-----------------------------------------------------------------------------
(* Whatever options and setters were called, n.faults is a configuration   *)
(* the evaluator can work with: an invalid value panicked first.           *)
DrawTypeOK ==
    /\ built \in BOOLEAN /\ cfg.on \subseteq Kinds \cup {"bandwidth"}
    /\ built => /\ \A k \in {"loss", "duplicate", "corrupt"} : cfg.value[k] \in 0..Unit
                /\ cfg.value.latency \in {r \in Nat \X Nat : r[1] <= r[2]}
                /\ "bandwidth" \in cfg.on => cfg.value.bandwidth \in Nat \ {0}
    /\ inStep \in [Kinds -> BOOLEAN]
    /\ last.fate \in {"none", "partitioned", "dropped", "delivered"}
    /\ last.size \in Sizes \cup {0} /\ last.serialization \in 0..MaxDuration

(* The draw discipline: on every unit, loss, latency and duplication       *)
(* decide as they would with no other fault configured, and their streams  *)
(* stand where they would, whatever the others decide and however setters  *)
(* change them between units.  Only partitions shift a stream (a           *)
(* partitioned unit draws nothing), so both networks have the same.        *)
StreamsIndependent ==
    \A k \in {"loss", "latency", "duplicate"} : inStep[k]

(* docs/04-api-design.md says the same of corruption, "(and, if            *)
(* corrupting, its byte/bit indices)".                                     *)
CorruptionIndependent == inStep["corrupt"]

(* boundedUint64 has no bias, for the latency range now configured or the  *)
(* unit now at hand: every value in range comes from as many words.        *)
Unbiased(n) ==
    \A x, y \in 0..(n - 1) :
        Cardinality({w \in Words : Keeps(w, n) /\ Hi(w, n) = x})
          = Cardinality({w \in Words : Keeps(w, n) /\ Hi(w, n) = y})

DrawsUnbiased ==
    /\ built => Unbiased(cfg.value.latency[2] - cfg.value.latency[1] + 1)
    /\ last.size > 0 => Unbiased(last.size)

(* A bit is flipped inside a unit that is delivered, and nowhere else.     *)
SiteInUnit ==
    IF last.corrupted /\ last.fate = "delivered" /\ last.size > 0
    THEN last.site \in (0..(last.size - 1)) \X (0..(BitsPerByte - 1))
    ELSE last.site = <<0, 0>>

(* serializationDelay is size * Second / bps in exact arithmetic, or the   *)
(* largest Duration where that does not fit: it never wraps.               *)
SerializationExact ==
    "bandwidth" \in cfg.on /\ last.fate = "delivered" =>
        LET exact == (last.size * Second) \div cfg.value.bandwidth
        IN  last.serialization = IF exact > MaxDuration THEN MaxDuration ELSE exact
=============================================================================
