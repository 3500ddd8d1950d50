----------------------------- MODULE PipeProofs -----------------------------
(***************************************************************************)
(* Proofs about Pipe, for every bound, every set of callers, every size of *)
(* read and write and every fault configuration.                           *)
(***************************************************************************)
EXTENDS Pipe, TLAPS

-----------------------------------------------------------------------------
(* Facts about tilings, independent of the pipe.                           *)

(* The fields of a payload, and their types.                               *)
LEMMA IntervalFields ==
    ASSUME NEW p \in Interval
    PROVE  p.lo \in Nat /\ p.hi \in Nat /\ p.unit \in Nat \ {0}
BY DEF Interval

(* A sequence is empty exactly when its length is 0.                       *)
LEMMA EmptyIffLenZero ==
    ASSUME NEW S, NEW s \in Seq(S)
    PROVE  s = <<>> <=> Len(s) = 0
OBVIOUS

(* A function on 1..m is a sequence of length m.                           *)
LEMMA FunctionIsSeq ==
    ASSUME NEW S, NEW m \in Nat, NEW f \in [1..m -> S]
    PROVE  f \in Seq(S) /\ Len(f) = m /\ DOMAIN f = 1..m
OBVIOUS

(* Nothing is tiled by nothing.                                            *)
LEMMA TilesEmpty ==
    ASSUME NEW from \in Nat, NEW l
    PROVE  Tiles(<<>>, from, from, l)
BY DEF Tiles

(* Two tilings that meet make one.                                         *)
LEMMA TilesConcat ==
    ASSUME NEW s \in Seq(Interval), NEW u \in Seq(Interval),
           NEW from \in Nat, NEW mid \in Nat, NEW to \in Nat, NEW l,
           Tiles(s, from, mid, l), Tiles(u, mid, to, l)
    PROVE  Tiles(s \o u, from, to, l)
<1> DEFINE t == s \o u
           m == Len(s)
<1> SUFFICES Tiles(t, from, to, l)
  OBVIOUS
<1> USE IntervalFields
<1>1. /\ t \in Seq(Interval) /\ Len(t) = m + Len(u) /\ m \in Nat /\ Len(u) \in Nat
      /\ DOMAIN t = 1..(m + Len(u)) /\ DOMAIN s = 1..m /\ DOMAIN u = 1..Len(u)
      /\ \A i \in 1..m : t[i] = s[i]
      /\ \A i \in 1..Len(u) : t[m + i] = u[i]
  OBVIOUS
<1>3. \A i \in DOMAIN t : \/ i \in 1..m /\ t[i] = s[i]
                          \/ i > m /\ i - m \in 1..Len(u) /\ t[i] = u[i - m]
  <2> SUFFICES ASSUME NEW i \in DOMAIN t, ~(i \in 1..m)
               PROVE  i > m /\ i - m \in 1..Len(u) /\ t[i] = u[i - m]
    BY <1>1
  <2>1. i - m \in 1..Len(u) /\ i = m + (i - m)
    BY <1>1
  <2> QED
    BY <1>1, <2>1
<1> HIDE DEF t, m
<1>4. from <= to /\ (Len(t) = 0 => from = to)
  BY <1>1 DEF Tiles, m
<1>5. ASSUME Len(t) > 0
      PROVE  t[1].lo = from /\ t[Len(t)].hi = to
  <2>1. CASE m = 0
    BY <1>1, <1>5, <2>1 DEF Tiles, m
  <2>2. CASE m # 0 /\ Len(u) = 0
    BY <1>1, <1>5, <2>2 DEF Tiles, m
  <2>3. CASE m # 0 /\ Len(u) # 0
    <3>1. t[1] = s[1] /\ t[Len(t)] = u[Len(u)]
      BY <1>1, <2>3
    <3> QED
      BY <1>1, <2>3, <3>1 DEF Tiles
  <2> QED
    BY <2>1, <2>2, <2>3
<1>6. \A i \in DOMAIN t :
        /\ from <= t[i].lo /\ t[i].lo <= t[i].hi /\ t[i].hi <= to
        /\ \A b \in (t[i].lo + 1)..t[i].hi : l[b] = t[i].unit
  <2> SUFFICES ASSUME NEW i \in DOMAIN t
               PROVE  /\ from <= t[i].lo /\ t[i].lo <= t[i].hi /\ t[i].hi <= to
                      /\ \A b \in (t[i].lo + 1)..t[i].hi : l[b] = t[i].unit
    OBVIOUS
  <2>1. CASE i \in 1..m /\ t[i] = s[i]
    BY <1>1, <2>1 DEF Tiles
  <2>2. CASE i - m \in 1..Len(u) /\ t[i] = u[i - m]
    <3>1. PICK k \in DOMAIN u : t[i] = u[k]
      BY <1>1, <2>2
    <3>2. /\ mid <= u[k].lo /\ u[k].lo <= u[k].hi /\ u[k].hi <= to
          /\ \A b \in (u[k].lo + 1)..u[k].hi : l[b] = u[k].unit
      BY DEF Tiles
    <3>3. from <= mid /\ u[k] \in Interval
      BY <1>1 DEF Tiles
    <3> QED
      BY <3>1, <3>2, <3>3
  <2> QED
    BY <1>3, <2>1, <2>2
<1>7. \A i, j \in DOMAIN t : i < j => t[i].hi <= t[j].lo
  <2> SUFFICES ASSUME NEW i \in DOMAIN t, NEW j \in DOMAIN t, i < j
               PROVE  t[i].hi <= t[j].lo
    OBVIOUS
  <2>1. CASE i \in 1..m /\ j \in 1..m
    BY <1>1, <2>1 DEF Tiles
  <2>2. CASE i \in 1..m /\ j > m
    <3>1. t[i] = s[i] /\ t[j] = u[j - m] /\ j - m \in 1..Len(u)
      BY <1>1, <1>3, <2>2
    <3>2. t[i].hi <= mid /\ mid <= t[j].lo
      BY <1>1, <2>2, <3>1 DEF Tiles
    <3> QED
      BY <1>1, <2>2, <3>1, <3>2
  <2>3. CASE i > m
    <3>1. t[i] = u[i - m] /\ t[j] = u[j - m] /\ j - m \in 1..Len(u) /\ i - m \in 1..Len(u)
      BY <1>1, <1>3, <2>3
    <3>2. i - m < j - m /\ i - m \in DOMAIN u /\ j - m \in DOMAIN u
      BY <1>1, <3>1
    <3>3. u[i - m].hi <= u[j - m].lo
      BY <3>2 DEF Tiles
    <3> QED
      BY <3>1, <3>3
  <2> QED
    BY <1>1, <2>1, <2>2, <2>3
<1>8. \A i \in 1..(Len(t) - 1) : t[i].hi = t[i + 1].lo
  <2> SUFFICES ASSUME NEW i \in 1..(Len(t) - 1)
               PROVE  t[i].hi = t[i + 1].lo
    OBVIOUS
  <2>1. CASE i < m
    BY <1>1, <2>1 DEF Tiles
  <2>2. CASE i = m
    <3>1. t[i] = s[Len(s)] /\ t[i + 1] = u[1] /\ Len(s) > 0 /\ Len(u) > 0
      BY <1>1, <2>2 DEF m
    <3> QED
      BY <3>1 DEF Tiles
  <2>3. CASE i > m
    <3>1. /\ t[i] = u[i - m] /\ t[i + 1] = u[(i - m) + 1]
          /\ i - m \in 1..(Len(u) - 1)
      <4>1. i \in DOMAIN t /\ i + 1 \in DOMAIN t
        BY <1>1
      <4>2. t[i] = u[i - m] /\ t[i + 1] = u[(i + 1) - m] /\ (i + 1) - m = (i - m) + 1
        BY <1>1, <1>3, <2>3, <4>1
      <4> QED
        BY <1>1, <2>3, <4>2
    <3> QED
      BY <3>1 DEF Tiles
  <2> QED
    BY <1>1, <2>1, <2>2, <2>3
<1>9. \A b \in (from + 1)..to : \E i \in DOMAIN t : t[i].lo < b /\ b <= t[i].hi
  <2> SUFFICES ASSUME NEW b \in (from + 1)..to
               PROVE  \E i \in DOMAIN t : t[i].lo < b /\ b <= t[i].hi
    OBVIOUS
  <2>1. CASE b <= mid
    <3>1. PICK i \in DOMAIN s : s[i].lo < b /\ b <= s[i].hi
      BY <2>1 DEF Tiles
    <3> QED
      BY <1>1, <3>1
  <2>2. CASE b > mid
    <3>1. PICK i \in DOMAIN u : u[i].lo < b /\ b <= u[i].hi
      <4>1. b \in (mid + 1)..to
        BY <2>2
      <4> QED
        BY <4>1 DEF Tiles
    <3>2. m + i \in DOMAIN t /\ t[m + i] = u[i]
      BY <1>1, <3>1
    <3> QED
      BY <3>1, <3>2
  <2> QED
    BY <2>1, <2>2
<1> QED
  BY <1>4, <1>5, <1>6, <1>7, <1>8, <1>9 DEF Tiles

(* A payload that starts where a tiling ends extends it.                   *)
LEMMA TilesAppend ==
    ASSUME NEW s \in Seq(Interval), NEW from \in Nat, NEW to \in Nat, NEW l,
           NEW p \in Interval, Tiles(s, from, to, l),
           p.lo = to, p.lo <= p.hi,
           \A b \in (p.lo + 1)..p.hi : l[b] = p.unit
    PROVE  Tiles(Append(s, p), from, p.hi, l)
<1> USE IntervalFields
<1>1. <<p>> \in Seq(Interval) /\ Len(<<p>>) = 1 /\ <<p>>[1] = p /\ DOMAIN <<p>> = 1..1
  OBVIOUS
<1>2. Tiles(<<p>>, to, p.hi, l)
  BY <1>1 DEF Tiles
<1>3. Append(s, p) = s \o <<p>>
  OBVIOUS
<1> QED
  <2>1. p.hi \in Nat
    OBVIOUS
  <2>2. Tiles(s \o <<p>>, from, p.hi, l)
    BY <1>1, <1>2, <2>1, TilesConcat
  <2> QED
    BY <1>3, <2>2

(* The first k payloads of a tiling, and the rest, are tilings.            *)
LEMMA TilesSplit ==
    ASSUME NEW s \in Seq(Interval), NEW from \in Nat, NEW to \in Nat, NEW l,
           NEW k \in 1..(Len(s) - 1), Tiles(s, from, to, l)
    PROVE  /\ s[k].hi \in Nat
           /\ Tiles([i \in 1..k |-> s[i]], from, s[k].hi, l)
           /\ Tiles([i \in 1..(Len(s) - k) |-> s[k + i]], s[k].hi, to, l)
<1> USE IntervalFields
<1> DEFINE t == [i \in 1..k |-> s[i]]
           u == [i \in 1..(Len(s) - k) |-> s[k + i]]
           mid == s[k].hi
<1>1. /\ Len(s) \in Nat /\ DOMAIN s = 1..Len(s) /\ k \in DOMAIN s /\ k \in Nat
      /\ k + 1 \in DOMAIN s /\ Len(s) - k \in Nat \ {0}
      /\ \A i \in DOMAIN s : s[i] \in Interval
  OBVIOUS
<1>2. /\ Len(t) = k /\ DOMAIN t = 1..k /\ \A i \in 1..k : t[i] = s[i]
  BY <1>1
<1>3. /\ Len(u) = Len(s) - k /\ DOMAIN u = 1..(Len(s) - k)
      /\ \A i \in DOMAIN u : u[i] = s[k + i] /\ k + i \in DOMAIN s
  BY <1>1
<1>4. mid \in Nat /\ from <= mid /\ mid <= to
  BY <1>1 DEF Tiles
<1>5. mid = s[k + 1].lo
  BY <1>1 DEF Tiles
<1>6. \A i \in 1..k : s[i].hi <= mid
  <2> SUFFICES ASSUME NEW i \in 1..k, i # k PROVE s[i].hi <= mid
    BY <1>1
  <2>1. i \in DOMAIN s /\ i < k
    BY <1>1
  <2>2. s[i].hi <= s[k].lo /\ s[k].lo <= s[k].hi
    BY <1>1, <2>1 DEF Tiles
  <2> QED
    BY <1>1, <2>1, <2>2
<1>7. \A i \in DOMAIN s : i > k => mid <= s[i].lo
  BY <1>1 DEF Tiles
<1> HIDE DEF t, u, mid
<1>8. Tiles(t, from, mid, l)
  <2>1. t[1].lo = from /\ t[Len(t)].hi = mid /\ Len(t) > 0
    BY <1>1, <1>2 DEF Tiles, mid
  <2>2. \A i \in DOMAIN t :
          /\ from <= t[i].lo /\ t[i].lo <= t[i].hi /\ t[i].hi <= mid
          /\ \A b \in (t[i].lo + 1)..t[i].hi : l[b] = t[i].unit
    <3> SUFFICES ASSUME NEW i \in 1..k
                 PROVE  /\ from <= s[i].lo /\ s[i].lo <= s[i].hi /\ s[i].hi <= mid
                        /\ \A b \in (s[i].lo + 1)..s[i].hi : l[b] = s[i].unit
      BY <1>2
    <3>1. i \in DOMAIN s
      BY <1>1
    <3> QED
      BY <1>6, <3>1 DEF Tiles
  <2>3. \A i, j \in DOMAIN t : i < j => t[i].hi <= t[j].lo
    BY <1>1, <1>2 DEF Tiles
  <2>4. \A i \in 1..(Len(t) - 1) : t[i].hi = t[i + 1].lo
    BY <1>1, <1>2 DEF Tiles
  <2>5. ASSUME NEW b \in (from + 1)..mid
        PROVE  \E i \in DOMAIN t : t[i].lo < b /\ b <= t[i].hi
    <3>1. b \in (from + 1)..to
      BY <1>4
    <3>2. PICK i \in DOMAIN s : s[i].lo < b /\ b <= s[i].hi
      BY <3>1 DEF Tiles
    <3>3. i <= k
      BY <1>1, <1>4, <1>7, <3>2
    <3> QED
      BY <1>1, <1>2, <3>2, <3>3
  <2> QED
    BY <1>2, <1>4, <2>1, <2>2, <2>3, <2>4, <2>5 DEF Tiles
<1>9. Tiles(u, mid, to, l)
  <2>1. u[1].lo = mid /\ u[Len(u)].hi = to /\ Len(u) > 0
    <3>1. u[1] = s[k + 1] /\ u[Len(u)] = s[Len(s)]
      BY <1>1, <1>3
    <3> QED
      BY <1>1, <1>3, <1>5, <3>1 DEF Tiles
  <2>2. \A i \in DOMAIN u :
          /\ mid <= u[i].lo /\ u[i].lo <= u[i].hi /\ u[i].hi <= to
          /\ \A b \in (u[i].lo + 1)..u[i].hi : l[b] = u[i].unit
    <3> SUFFICES ASSUME NEW i \in DOMAIN u
                 PROVE  /\ mid <= s[k + i].lo /\ s[k + i].lo <= s[k + i].hi
                        /\ s[k + i].hi <= to
                        /\ \A b \in (s[k + i].lo + 1)..s[k + i].hi :
                              l[b] = s[k + i].unit
      BY <1>3
    <3>1. k + i \in DOMAIN s /\ k + i > k
      BY <1>1, <1>3
    <3> QED
      BY <1>7, <3>1 DEF Tiles
  <2>3. \A i, j \in DOMAIN u : i < j => u[i].hi <= u[j].lo
    <3> SUFFICES ASSUME NEW i \in DOMAIN u, NEW j \in DOMAIN u, i < j
                 PROVE  s[k + i].hi <= s[k + j].lo
      BY <1>3
    <3>1. k + i \in DOMAIN s /\ k + j \in DOMAIN s /\ k + i < k + j
      BY <1>1, <1>3
    <3> QED
      BY <3>1 DEF Tiles
  <2>4. \A i \in 1..(Len(u) - 1) : u[i].hi = u[i + 1].lo
    <3> SUFFICES ASSUME NEW i \in 1..(Len(u) - 1) PROVE u[i].hi = u[i + 1].lo
      OBVIOUS
    <3>1. /\ i \in DOMAIN u /\ i + 1 \in DOMAIN u /\ k + i \in 1..(Len(s) - 1)
          /\ k + (i + 1) = (k + i) + 1
      BY <1>1, <1>3
    <3>2. u[i] = s[k + i] /\ u[i + 1] = s[(k + i) + 1]
      BY <1>3, <3>1
    <3> QED
      BY <3>1, <3>2 DEF Tiles
  <2>5. ASSUME NEW b \in (mid + 1)..to
        PROVE  \E i \in DOMAIN u : u[i].lo < b /\ b <= u[i].hi
    <3>1. b \in (from + 1)..to
      BY <1>4
    <3>2. PICK i \in DOMAIN s : s[i].lo < b /\ b <= s[i].hi
      BY <3>1 DEF Tiles
    <3>3. i > k
      BY <1>1, <1>4, <1>6, <3>2
    <3>4. i - k \in DOMAIN u /\ u[i - k] = s[i]
      BY <1>1, <1>3, <3>3
    <3> QED
      BY <3>2, <3>4
  <2> QED
    BY <1>3, <1>4, <2>1, <2>2, <2>3, <2>4, <2>5 DEF Tiles
<1> QED
  BY <1>4, <1>8, <1>9 DEF t, u, mid

(* A tiling only depends on the stream it covers.                          *)
LEMMA TilesStream ==
    ASSUME NEW s \in Seq(Interval), NEW from \in Nat, NEW to \in Nat, NEW l, NEW m,
           Tiles(s, from, to, l), \A b \in 1..to : m[b] = l[b]
    PROVE  Tiles(s, from, to, m)
<1>1. ASSUME NEW i \in DOMAIN s, NEW b \in (s[i].lo + 1)..s[i].hi
      PROVE  m[b] = s[i].unit
  <2>1. s[i] \in Interval /\ s[i].hi <= to /\ l[b] = s[i].unit
    BY DEF Tiles
  <2>2. b \in 1..to
    BY <2>1, IntervalFields
  <2> QED
    BY <2>1, <2>2
<1> QED
  BY <1>1 DEF Tiles

(* Trimming the head of a tiling moves its start.                          *)
LEMMA TilesTrim ==
    ASSUME NEW s \in Seq(Interval), NEW from \in Nat, NEW to \in Nat, NEW l,
           NEW limit \in Nat, Tiles(s, from, to, l), Len(s) > 0,
           from <= limit, limit <= s[1].hi,
           NEW t \in Seq(Interval), Len(t) = Len(s),
           t[1].lo = limit, t[1].hi = s[1].hi, t[1].unit = s[1].unit,
           \A i \in 2..Len(s) : t[i] = s[i]
    PROVE  Tiles(t, limit, to, l)
<1> USE IntervalFields
<1>1. /\ Len(s) \in Nat /\ DOMAIN s = 1..Len(s) /\ DOMAIN t = DOMAIN s
      /\ 1 \in DOMAIN s
      /\ \A i \in DOMAIN s : s[i] \in Interval /\ t[i] \in Interval
  OBVIOUS
<1>2. \A i \in DOMAIN s : t[i].hi = s[i].hi /\ t[i].unit = s[i].unit
  BY <1>1
<1>3. s[1].lo = from /\ s[1].hi <= to /\ limit <= to
  <2>1. s[1].lo = from /\ s[1].hi <= to
    BY <1>1 DEF Tiles
  <2>2. s[1].hi \in Nat
    BY <1>1
  <2> QED
    BY <2>1, <2>2
<1>4. \A i \in DOMAIN s : i # 1 => t[i].lo = s[i].lo /\ s[1].hi <= t[i].lo
  <2> SUFFICES ASSUME NEW i \in DOMAIN s, i # 1
               PROVE  t[i].lo = s[i].lo /\ s[1].hi <= t[i].lo
    OBVIOUS
  <2>1. i \in 2..Len(s) /\ 1 < i
    BY <1>1
  <2> QED
    BY <1>1, <2>1 DEF Tiles
<1>5. \A i \in DOMAIN t :
        /\ limit <= t[i].lo /\ t[i].lo <= t[i].hi /\ t[i].hi <= to
        /\ \A b \in (t[i].lo + 1)..t[i].hi : l[b] = t[i].unit
  <2> SUFFICES ASSUME NEW i \in DOMAIN s
               PROVE  /\ limit <= t[i].lo /\ t[i].lo <= t[i].hi /\ t[i].hi <= to
                      /\ \A b \in (t[i].lo + 1)..t[i].hi : l[b] = t[i].unit
    BY <1>1
  <2>1. /\ s[i].lo <= s[i].hi /\ s[i].hi <= to
        /\ \A b \in (s[i].lo + 1)..s[i].hi : l[b] = s[i].unit
    BY DEF Tiles
  <2>2. limit <= t[i].lo /\ t[i].lo <= t[i].hi /\ s[i].lo <= t[i].lo
    <3>1. CASE i = 1
      BY <1>1, <1>3, <3>1
    <3>2. CASE i # 1
      BY <1>1, <1>2, <1>4, <2>1, <3>2
    <3> QED
      BY <3>1, <3>2
  <2> QED
    BY <1>1, <1>2, <2>1, <2>2
<1>6. \A i, j \in DOMAIN t : i < j => t[i].hi <= t[j].lo
  <2> SUFFICES ASSUME NEW i \in DOMAIN s, NEW j \in DOMAIN s, i < j
               PROVE  t[i].hi <= t[j].lo
    BY <1>1
  <2>1. j # 1 /\ s[i].hi <= s[j].lo
    BY <1>1 DEF Tiles
  <2> QED
    BY <1>2, <1>4, <2>1
<1>7. \A i \in 1..(Len(t) - 1) : t[i].hi = t[i + 1].lo
  <2> SUFFICES ASSUME NEW i \in 1..(Len(s) - 1)
               PROVE  t[i].hi = t[i + 1].lo
    OBVIOUS
  <2>1. i \in DOMAIN s /\ i + 1 \in DOMAIN s /\ i + 1 # 1
    BY <1>1
  <2>2. s[i].hi = s[i + 1].lo
    BY DEF Tiles
  <2> QED
    BY <1>2, <1>4, <2>1, <2>2
<1>8. ASSUME NEW b \in (limit + 1)..to
      PROVE  \E i \in DOMAIN t : t[i].lo < b /\ b <= t[i].hi
  <2>1. b \in (from + 1)..to
    OBVIOUS
  <2>2. PICK i \in DOMAIN s : s[i].lo < b /\ b <= s[i].hi
    BY <2>1 DEF Tiles
  <2>3. t[i].lo < b
    <3>1. CASE i = 1
      BY <3>1
    <3>2. CASE i # 1
      BY <1>4, <2>2, <3>2
    <3> QED
      BY <3>1, <3>2
  <2> QED
    BY <1>1, <1>2, <2>2, <2>3
<1>9. t[Len(t)].hi = to
  <2>1. Len(t) \in DOMAIN s /\ s[Len(s)].hi = to
    BY <1>1 DEF Tiles
  <2> QED
    BY <1>2, <2>1
<1> QED
  BY <1>3, <1>5, <1>6, <1>7, <1>8, <1>9 DEF Tiles

(* The copy loop with room for n bytes consumed k payloads of s whole and  *)
(* stopped in the next one.                                                *)
Consumes(s, k, n) ==
    /\ \A i \in 1..k : s[i].hi <= s[1].lo + n
    /\ s[k + 1].lo >= s[1].lo + n \/ s[k + 1].hi > s[1].lo + n

(* What the copy loop leaves of a tiling, with k payloads consumed and     *)
(* room for n bytes: nothing, or the tiling of what follows the n bytes.   *)
LEMMA TilesRead ==
    ASSUME NEW s \in Seq(Interval), NEW from \in Nat, NEW to \in Nat, NEW l,
           Tiles(s, from, to, l), NEW n \in Nat, NEW k \in 0..(Len(s) - 1),
           Consumes(s, k, n)
    PROVE  /\ from + n <= to
           /\ Leftover(s, k, n) \in Seq(Interval)
           /\ Len(Leftover(s, k, n)) = Len(s) - k
           /\ Tiles(Leftover(s, k, n), from + n, to, l)
<1> USE IntervalFields
<1> DEFINE limit == from + n
           head  == [s[k + 1] EXCEPT !.lo = s[1].lo + n]
           rest  == [i \in 1..(Len(s) - k) |-> IF i = 1 THEN head ELSE s[k + i]]
<1>1. /\ Len(s) \in Nat /\ Len(s) > 0 /\ DOMAIN s = 1..Len(s) /\ k + 1 \in DOMAIN s
      /\ 1 \in DOMAIN s /\ \A i \in DOMAIN s : s[i] \in Interval
      /\ Len(s) - k \in Nat /\ Len(s) - k > 0 /\ k \in Nat
  <2>1. Len(s) \in Nat /\ DOMAIN s = 1..Len(s) /\ \A i \in DOMAIN s : s[i] \in Interval
    OBVIOUS
  <2>2. k \in Nat /\ k < Len(s)
    BY <2>1
  <2>3. Len(s) > 0 /\ Len(s) - k \in Nat /\ Len(s) - k > 0 /\ k + 1 \in 1..Len(s) /\ 1 \in 1..Len(s)
    BY <2>1, <2>2
  <2> QED
    BY <2>1, <2>2, <2>3
<1>0. s[k + 1] \in Interval /\ s[1] \in Interval
  BY <1>1
<1>2. /\ s[1].lo = from /\ s[k + 1].hi <= to /\ s[k + 1].lo <= s[k + 1].hi
      /\ s[k + 1].lo \in Nat /\ s[k + 1].hi \in Nat /\ s[1].lo + n = limit
  <2>1. s[1].lo = from
    BY <1>1 DEF Tiles
  <2>2. s[k + 1].hi <= to /\ s[k + 1].lo <= s[k + 1].hi
    BY <1>1 DEF Tiles
  <2> QED
    BY <1>0, <2>1, <2>2
<1>3. s[k + 1].lo <= limit
  <2>1. CASE k = 0
    BY <1>1, <1>2, <2>1
  <2>2. CASE k # 0
    <3>1. k \in 1..(Len(s) - 1)
      BY <1>1, <2>2
    <3>2. s[k].hi = s[k + 1].lo
      BY <3>1 DEF Tiles
    <3>3. s[k].hi <= s[1].lo + n
      BY <3>1 DEF Consumes
    <3> QED
      BY <1>2, <3>2, <3>3
  <2> QED
    BY <2>1, <2>2
<1>4. limit <= s[k + 1].hi /\ limit \in Nat
  BY <1>2 DEF Consumes
<1>5. /\ head \in Interval /\ head.lo = limit /\ head.hi = s[k + 1].hi
      /\ head.unit = s[k + 1].unit
  BY <1>0, <1>2, <1>4 DEF Interval
<1> HIDE DEF head
<1>6. \A i \in 1..(Len(s) - k) : (IF i = 1 THEN head ELSE s[k + i]) \in Interval
  <2> SUFFICES ASSUME NEW i \in 1..(Len(s) - k) PROVE s[k + i] \in Interval
    BY <1>5
  <2>1. k + i \in DOMAIN s
    BY <1>1
  <2> QED
    BY <1>1, <2>1
<1>7. /\ rest \in Seq(Interval) /\ Len(rest) = Len(s) - k
      /\ rest[1] = head /\ \A i \in 2..(Len(s) - k) : rest[i] = s[k + i]
  <2>1. rest \in [1..(Len(s) - k) -> Interval]
    BY <1>6
  <2>2. rest \in Seq(Interval) /\ Len(rest) = Len(s) - k
    BY <1>1, <2>1, FunctionIsSeq
  <2>3. rest[1] = head /\ \A i \in 2..(Len(s) - k) : rest[i] = s[k + i]
    BY <1>1
  <2> QED
    BY <2>2, <2>3
<1> HIDE DEF rest
<1>8. Tiles(rest, limit, to, l)
  <2>1. CASE k = 0
    <3>1. limit <= s[1].hi /\ from <= limit /\ Len(rest) = Len(s) /\ Len(s) > 0
      BY <1>1, <1>4, <1>7, <2>1
    <3>2. rest[1].lo = limit /\ rest[1].hi = s[1].hi /\ rest[1].unit = s[1].unit
      BY <1>5, <1>7, <2>1
    <3>3. \A i \in 2..Len(s) : rest[i] = s[i]
      BY <1>1, <1>7, <2>1
    <3> QED
      BY <1>4, <1>7, <3>1, <3>2, <3>3, TilesTrim
  <2>2. CASE k # 0
    <3> DEFINE u == [i \in 1..(Len(s) - k) |-> s[k + i]]
    <3>1. k \in 1..(Len(s) - 1)
      BY <1>1, <2>2
    <3>2. s[k].hi \in Nat /\ Tiles(u, s[k].hi, to, l)
      BY <3>1, TilesSplit
    <3>3. ASSUME NEW i \in 1..(Len(s) - k) PROVE s[k + i] \in Interval
      <4>1. k + i \in DOMAIN s
        BY <1>1
      <4> QED
        BY <1>1, <4>1
    <3>4. /\ u \in Seq(Interval) /\ Len(u) = Len(s) - k /\ u[1] = s[k + 1]
          /\ \A i \in 2..(Len(s) - k) : u[i] = s[k + i]
      <4>1. u \in [1..(Len(s) - k) -> Interval]
        BY <3>3
      <4>2. u \in Seq(Interval) /\ Len(u) = Len(s) - k
        BY <1>1, <4>1, FunctionIsSeq
      <4>3. u[1] = s[k + 1] /\ \A i \in 2..(Len(s) - k) : u[i] = s[k + i]
        BY <1>1
      <4> QED
        BY <4>2, <4>3
    <3>5. s[k].hi = s[k + 1].lo
      BY <1>1, <3>1 DEF Tiles
    <3> HIDE DEF u
    <3> QED
      <4>1. limit <= u[1].hi /\ s[k].hi <= limit /\ Len(rest) = Len(u) /\ Len(u) > 0
        <5>1. s[k + 1].lo \in Nat /\ s[k + 1].hi \in Nat
          BY <1>0
        <5>2. Len(rest) = Len(u) /\ Len(u) > 0
          BY <1>1, <1>7, <3>4
        <5> QED
          BY <1>3, <1>4, <3>4, <3>5, <5>1, <5>2
      <4>2. rest[1].lo = limit /\ rest[1].hi = u[1].hi /\ rest[1].unit = u[1].unit
        BY <1>5, <1>7, <3>4
      <4>3. \A i \in 2..Len(u) : rest[i] = u[i]
        BY <1>7, <3>4
      <4> QED
        BY <1>4, <1>7, <3>2, <3>4, <4>1, <4>2, <4>3, TilesTrim
  <2> QED
    BY <2>1, <2>2
<1> QED
  <2>1. rest = Leftover(s, k, n)
    BY DEF rest, head, Leftover
  <2>2. from + n <= to
    BY <1>2, <1>4
  <2> QED
    BY <1>7, <1>8, <2>1, <2>2

-----------------------------------------------------------------------------
(* The steps of Pipe with their parameters in range.                       *)
LEMMA Steps ==
    ASSUME TypeOK, Next
    PROVE  \/ \E w \in Writers, n \in WriteSizes :
                 Admit(w, n) \/ WriteBlocks(w, n) \/ WriteRefused(w)
           \/ \E r \in Readers, n \in Nat :
                 ReadAborted(r) \/ ReadData(r, n) \/ ReadEmpty(r, n)
           \/ TimerFires \/ ReleaseDueLatency \/ Tick
           \/ Close \/ Abort
           \/ SetLatency \/ SetPacketLoss \/ SetDuplication
           \/ \E p \in BOOLEAN : PartitionChange(p)
<1>1. ASSUME NEW w \in Writers, Write(w) \/ RetryWrite(w)
      PROVE  \E n \in WriteSizes : TryWrite(w, n)
  BY <1>1 DEF Write, RetryWrite, TypeOK
<1>2. ASSUME NEW r \in Readers, Read(r) \/ RetryRead(r)
      PROVE  \E n \in Nat : TryRead(r, n)
  BY <1>2, SizeAssumption DEF Read, RetryRead, TypeOK, Call
<1>3. Partition \/ Heal \/ ChangeElsewhere => \E p \in BOOLEAN : PartitionChange(p)
  BY DEF Partition, Heal, ChangeElsewhere, TypeOK
<1> QED
  BY <1>1, <1>2, <1>3 DEF Next, TryWrite, TryRead

(* A broadcast moves calls from parked to woken and nothing else.          *)
LEMMA WakeCalls ==
    ASSUME NEW S, NEW calls \in [S -> Call], NEW ch
    PROVE  /\ Wake(calls, ch) \in [S -> Call]
           /\ \A c \in S : /\ Wake(calls, ch)[c].len = calls[c].len
                           /\ Wake(calls, ch)[c].at =
                                IF calls[c].at = ch THEN "woken" ELSE calls[c].at
BY DEF Wake, Call, Places

(* An idle call and a parked one are calls.                                *)
LEMMA CallTypes ==
    /\ Idle \in Call /\ Idle.at = "idle"
    /\ \A n \in Nat, ch \in Places :
         Parked(ch, n) \in Call /\ Parked(ch, n).at = ch /\ Parked(ch, n).len = n
BY DEF Idle, Parked, Call, Places

(* The calls in progress stay well formed under a broadcast.               *)
LEMMA WakeTypes ==
    ASSUME TypeOK, NEW ch, ch # "idle"
    PROVE  /\ Wake(rd, ch) \in [Readers -> Call] /\ Wake(wr, ch) \in [Writers -> Call]
           /\ \A w \in Writers : Wake(wr, ch)[w].at # "idle" =>
                                   Wake(wr, ch)[w].len \in WriteSizes
<1>1. /\ rd \in [Readers -> Call] /\ wr \in [Writers -> Call]
      /\ \A w \in Writers : wr[w].at # "idle" => wr[w].len \in WriteSizes
  BY DEF TypeOK
<1>2. Wake(rd, ch) \in [Readers -> Call]
  BY <1>1, WakeCalls
<1>3. /\ Wake(wr, ch) \in [Writers -> Call]
      /\ \A w \in Writers : Wake(wr, ch)[w].len = wr[w].len
      /\ \A w \in Writers : Wake(wr, ch)[w].at =
                               IF wr[w].at = ch THEN "woken" ELSE wr[w].at
  BY <1>1, WakeCalls
<1>4. ASSUME NEW w \in Writers, Wake(wr, ch)[w].at # "idle"
      PROVE  wr[w].at # "idle"
  BY <1>3, <1>4
<1> QED
  BY <1>1, <1>2, <1>3, <1>4

(* Accepting m bytes of one unit.                                          *)
LEMMA Grows ==
    ASSUME NEW S, NEW l \in Seq(S), NEW u \in S, NEW m \in Nat
    PROVE  LET g == l \o [b \in 1..m |-> u]
           IN  /\ g \in Seq(S) /\ Len(g) = Len(l) + m
               /\ \A b \in 1..Len(l) : g[b] = l[b]
               /\ \A b \in (Len(l) + 1)..(Len(l) + m) : g[b] = u
<1> DEFINE x == [b \in 1..m |-> u]
           g == l \o x
<1>1. x \in Seq(S) /\ Len(x) = m /\ \A b \in 1..m : x[b] = u
  OBVIOUS
<1> HIDE DEF x
<1>2. /\ g \in Seq(S) /\ Len(g) = Len(l) + m /\ Len(l) \in Nat
      /\ \A b \in 1..Len(l) : g[b] = l[b]
      /\ \A b \in 1..m : g[Len(l) + b] = x[b]
  BY <1>1
<1>3. ASSUME NEW b \in (Len(l) + 1)..(Len(l) + m) PROVE g[b] = u
  <2>1. b - Len(l) \in 1..m /\ Len(l) + (b - Len(l)) = b
    BY <1>2
  <2> QED
    BY <1>1, <1>2, <2>1
<1> QED
  BY <1>2, <1>3 DEF x

(* A tiling determines where it ends.                                      *)
LEMMA TilesEnd ==
    ASSUME NEW s \in Seq(Interval), NEW from \in Nat, NEW to, NEW l,
           Tiles(s, from, to, l)
    PROVE  EndOf(s, from) = to
<1>1. Len(s) \in Nat
  OBVIOUS
<1> QED
  BY <1>1 DEF Tiles, EndOf

(* A unit accepted once, or twice, extends the tiling of the whole stream. *)
LEMMA TilesAccept ==
    ASSUME NEW s \in Seq(Interval), NEW from \in Nat, NEW l \in Seq(Nat \ {0}),
           NEW u \in Nat \ {0}, NEW size \in Nat, Tiles(s, from, Len(l), l)
    PROVE  LET first  == FirstCopy(l, u, size)
               second == SecondCopy(l, u, size)
               once   == Extend(l, u, size)
               twice  == Extend(l, u, 2 * size)
           IN  /\ first \in Interval /\ second \in Interval
               /\ once \in Seq(Nat \ {0}) /\ twice \in Seq(Nat \ {0})
               /\ Len(once) = Len(l) + size /\ Len(twice) = Len(l) + 2 * size
               /\ \A b \in 1..Len(l) : once[b] = l[b] /\ twice[b] = l[b]
               /\ Tiles(Append(s, first), from, Len(once), once)
               /\ Tiles(Append(Append(s, first), second), from, Len(twice), twice)
<1> DEFINE first  == FirstCopy(l, u, size)
           second == SecondCopy(l, u, size)
           once   == Extend(l, u, size)
           twice  == Extend(l, u, 2 * size)
<1>1. /\ Len(l) \in Nat /\ 2 * size \in Nat
      /\ Len(l) + size \in Nat /\ Len(l) + 2 * size \in Nat
      /\ Len(l) <= Len(l) + size /\ Len(l) + size <= Len(l) + 2 * size
  OBVIOUS
<1>2. /\ first \in Interval /\ second \in Interval
      /\ first.unit = u /\ first.lo = Len(l) /\ first.hi = Len(l) + size
      /\ second.unit = u /\ second.lo = Len(l) + size /\ second.hi = Len(l) + 2 * size
  BY <1>1 DEF Payload, Interval, FirstCopy, SecondCopy
<1>3. /\ once \in Seq(Nat \ {0}) /\ Len(once) = Len(l) + size
      /\ \A b \in 1..Len(l) : once[b] = l[b]
      /\ \A b \in (Len(l) + 1)..(Len(l) + size) : once[b] = u
  BY <1>1, Grows DEF Extend
<1>4. /\ twice \in Seq(Nat \ {0}) /\ Len(twice) = Len(l) + 2 * size
      /\ \A b \in 1..Len(l) : twice[b] = l[b]
      /\ \A b \in (Len(l) + 1)..(Len(l) + 2 * size) : twice[b] = u
  BY <1>1, Grows DEF Extend
<1> HIDE DEF first, second, once, twice
<1>5. Tiles(s, from, Len(l), once) /\ Tiles(s, from, Len(l), twice)
  BY <1>1, <1>3, <1>4, TilesStream
<1>6. Tiles(Append(s, first), from, Len(l) + size, once)
  <2>1. Tiles(Append(s, first), from, first.hi, once)
    BY <1>1, <1>2, <1>3, <1>5, TilesAppend
  <2> QED
    BY <1>2, <2>1
<1>7. Tiles(Append(s, first), from, Len(l) + size, twice)
  <2>1. \A b \in (first.lo + 1)..first.hi : twice[b] = first.unit
    BY <1>1, <1>2, <1>4
  <2>2. Tiles(Append(s, first), from, first.hi, twice)
    BY <1>1, <1>2, <1>5, <2>1, TilesAppend
  <2> QED
    BY <1>2, <2>2
<1>8. Tiles(Append(Append(s, first), second), from, Len(l) + 2 * size, twice)
  <2>1. \A b \in (second.lo + 1)..second.hi : twice[b] = second.unit
    BY <1>1, <1>2, <1>4
  <2>2. Append(s, first) \in Seq(Interval)
    BY <1>2
  <2>3. Tiles(Append(Append(s, first), second), from, second.hi, twice)
    BY <1>1, <1>2, <1>7, <2>1, <2>2, TilesAppend
  <2> QED
    BY <1>2, <2>3
<1> QED
  BY <1>2, <1>3, <1>4, <1>6, <1>8 DEF first, second, once, twice

(* The payloads of the held units.                                         *)
LEMMA DataOfUnits ==
    ASSUME NEW p \in Seq(HeldUnit)
    PROVE  /\ DataOf(p) \in Seq(Interval) /\ Len(DataOf(p)) = Len(p)
           /\ \A i \in 1..Len(p) : DataOf(p)[i] = p[i].data
<1>1. Len(p) \in Nat /\ DOMAIN p = 1..Len(p) /\ \A i \in 1..Len(p) : p[i] \in HeldUnit
  OBVIOUS
<1>2. \A i \in 1..Len(p) : p[i].data \in Interval
  BY <1>1 DEF HeldUnit
<1>3. DataOf(p) \in [1..Len(p) -> Interval]
  BY <1>1, <1>2 DEF DataOf
<1> QED
  BY <1>1, <1>3, FunctionIsSeq DEF DataOf

(* Holding back one more unit appends its payload.                         *)
LEMMA DataOfAppend ==
    ASSUME NEW p \in Seq(HeldUnit), NEW d \in Interval, NEW at \in Nat
    PROVE  /\ Append(p, Unit(d, at)) \in Seq(HeldUnit)
           /\ DataOf(Append(p, Unit(d, at))) = Append(DataOf(p), d)
<1> DEFINE q == Append(p, Unit(d, at))
<1>1. Unit(d, at) \in HeldUnit /\ Unit(d, at).data = d
  BY DEF Unit, HeldUnit
<1>2. /\ q \in Seq(HeldUnit) /\ Len(q) = Len(p) + 1 /\ Len(p) \in Nat
      /\ q[Len(p) + 1] = Unit(d, at) /\ \A i \in 1..Len(p) : q[i] = p[i]
  BY <1>1
<1> HIDE DEF q
<1>3. /\ DataOf(q) \in Seq(Interval) /\ Len(DataOf(q)) = Len(p) + 1
      /\ \A i \in 1..(Len(p) + 1) : DataOf(q)[i] = q[i].data
  BY <1>2, DataOfUnits
<1>4. /\ DataOf(p) \in Seq(Interval) /\ Len(DataOf(p)) = Len(p)
      /\ \A i \in 1..Len(p) : DataOf(p)[i] = p[i].data
  BY DataOfUnits
<1>5. /\ Append(DataOf(p), d) \in Seq(Interval) /\ Len(Append(DataOf(p), d)) = Len(p) + 1
      /\ Append(DataOf(p), d)[Len(p) + 1] = d
      /\ \A i \in 1..Len(p) : Append(DataOf(p), d)[i] = p[i].data
  BY <1>4
<1>6. \A i \in 1..(Len(p) + 1) : DataOf(q)[i] = Append(DataOf(p), d)[i]
  BY <1>1, <1>2, <1>3, <1>5
<1>7. DataOf(q) = Append(DataOf(p), d)
  BY <1>3, <1>5, <1>6
<1> QED
  BY <1>2, <1>7 DEF q

-----------------------------------------------------------------------------
(* StreamInv is inductive, action by action.                               *)

(* An admitted write is recorded by one event.                             *)
LEMMA EventTypes ==
    ASSUME TypeOK, NEW size \in Nat, NEW d \in BOOLEAN,
           NEW fate \in {"partitioned", "dropped", "delivered"}
    PROVE  Append(trace, Event(fate, size, d)) \in Seq(Events)
<1>1. Event(fate, size, d) \in Events
  BY DEF Event, Events
<1> QED
  BY <1>1 DEF TypeOK

(* Units are numbered from 1.                                              *)
LEMMA NextUnitType == ASSUME TypeOK PROVE NextUnit \in Nat \ {0}
<1>1. Len(trace) \in Nat
  BY DEF TypeOK
<1> QED
  BY <1>1 DEF NextUnit

(* The last byte made readable has a position.                             *)
LEMMA AvailType == ASSUME TypeOK PROVE Avail \in Nat
<1>1. readable \in Seq(Interval) /\ Len(got) \in Nat
  BY DEF TypeOK
<1>2. CASE Len(readable) = 0
  BY <1>1, <1>2 DEF Avail, EndOf
<1>3. CASE Len(readable) # 0
  <2>1. readable[Len(readable)] \in Interval
    BY <1>1, <1>3
  <2> QED
    BY <1>3, <2>1, IntervalFields DEF Avail, EndOf
<1> QED
  BY <1>2, <1>3

(* What the evaluator does with an admitted write keeps the tiling.        *)
LEMMA DeliverNowStream ==
    ASSUME StreamInv, ~readClosed, NEW n \in Nat, DeliverNow(n),
           UNCHANGED <<readClosed, faults, got>>
    PROVE  /\ readable' \in Seq(Interval) /\ pending' \in Seq(HeldUnit)
           /\ bufBytes' \in Int /\ trace' \in Seq(Events)
           /\ log' \in Seq(Nat \ {0}) /\ timer' = timer /\ busyUntil' = busyUntil
           /\ QueueTilesStream' /\ ExactAccounting' /\ InOrder'
<1> DEFINE first  == FirstCopy(log, NextUnit, n)
           second == SecondCopy(log, NextUnit, n)
<1>0. TypeOK /\ QueueTilesStream /\ ExactAccounting /\ InOrder
  BY DEF StreamInv
<1>1. /\ readable \in Seq(Interval) /\ pending \in Seq(HeldUnit) /\ log \in Seq(Nat \ {0})
      /\ Len(log) \in Nat /\ Len(got) \in Nat /\ bufBytes \in Int
  BY <1>0 DEF TypeOK
<1>2. pending = <<>> /\ DataOf(pending) = <<>> /\ Len(DataOf(pending)) = 0
  BY <1>0, <1>1 DEF QueueTilesStream, DeliverNow, DataOf
<1>3. Avail = Len(log) /\ Tiles(readable, Len(got), Len(log), log)
  BY <1>0, <1>2 DEF QueueTilesStream, Tiles
<1>4. /\ \E d \in BOOLEAN : trace' = Append(trace, Event("delivered", n, d))
      /\ \/ /\ readable' = Append(Append(readable, first), second)
            /\ bufBytes' = bufBytes + 2 * n
            /\ log' = Extend(log, NextUnit, 2 * n)
         \/ /\ readable' = Append(readable, first)
            /\ bufBytes' = bufBytes + n
            /\ log' = Extend(log, NextUnit, n)
  BY DEF DeliverNow, Draws
<1>5. trace' \in Seq(Events)
  BY <1>0, <1>4, EventTypes
<1>6. /\ first \in Interval /\ second \in Interval
      /\ log' \in Seq(Nat \ {0}) /\ Len(log') \in Nat
      /\ Len(log') - Len(log) = bufBytes' - bufBytes /\ bufBytes' \in Int
      /\ Len(log') >= Len(log)
      /\ \A b \in 1..Len(log) : log'[b] = log[b]
      /\ Tiles(readable', Len(got), Len(log'), log')
  <2> DEFINE once  == Extend(log, NextUnit, n)
             twice == Extend(log, NextUnit, 2 * n)
  <2>1. /\ first \in Interval /\ second \in Interval
        /\ once \in Seq(Nat \ {0}) /\ twice \in Seq(Nat \ {0})
        /\ Len(once) = Len(log) + n /\ Len(twice) = Len(log) + 2 * n
        /\ \A b \in 1..Len(log) : once[b] = log[b] /\ twice[b] = log[b]
        /\ Tiles(Append(readable, first), Len(got), Len(once), once)
        /\ Tiles(Append(Append(readable, first), second), Len(got), Len(twice), twice)
    <3>1. NextUnit \in Nat \ {0}
      BY <1>0, NextUnitType
    <3> QED
      BY <1>1, <1>3, <3>1, TilesAccept
  <2> HIDE DEF once, twice, first, second
  <2>2. CASE /\ log' = twice /\ readable' = Append(Append(readable, first), second)
             /\ bufBytes' = bufBytes + 2 * n
    <3>1. Len(log') = Len(log) + 2 * n /\ log' \in Seq(Nat \ {0})
      BY <2>1, <2>2
    <3>2. /\ Len(log') \in Nat /\ Len(log') >= Len(log) /\ bufBytes' \in Int
          /\ Len(log') - Len(log) = bufBytes' - bufBytes
      BY <1>1, <2>2, <3>1
    <3>3. \A b \in 1..Len(log) : log'[b] = log[b]
      BY <2>1, <2>2
    <3>4. Tiles(readable', Len(got), Len(log'), log')
      BY <2>1, <2>2, Zenon
    <3> QED
      BY <2>1, <3>1, <3>2, <3>3, <3>4
  <2>3. CASE /\ log' = once /\ readable' = Append(readable, first)
             /\ bufBytes' = bufBytes + n
    <3>1. Len(log') = Len(log) + n /\ log' \in Seq(Nat \ {0})
      BY <2>1, <2>3
    <3>2. /\ Len(log') \in Nat /\ Len(log') >= Len(log) /\ bufBytes' \in Int
          /\ Len(log') - Len(log) = bufBytes' - bufBytes
      BY <1>1, <2>3, <3>1
    <3>3. \A b \in 1..Len(log) : log'[b] = log[b]
      BY <2>1, <2>3
    <3>4. Tiles(readable', Len(got), Len(log'), log')
      BY <2>1, <2>3, Zenon
    <3> QED
      BY <2>1, <3>1, <3>2, <3>3, <3>4
  <2> QED
    BY <1>4, <2>2, <2>3 DEF once, twice, first, second
<1>7. readable' \in Seq(Interval)
  <2> HIDE DEF first, second
  <2>1. Append(readable, first) \in Seq(Interval)
    BY <1>1, <1>6
  <2>2. Append(Append(readable, first), second) \in Seq(Interval)
    BY <1>6, <2>1
  <2>3. \/ readable' = Append(readable, first)
        \/ readable' = Append(Append(readable, first), second)
    BY <1>4 DEF first, second
  <2> QED
    BY <2>1, <2>2, <2>3
<1>8. EndOf(readable', Len(got)) = Len(log')
  BY <1>1, <1>6, <1>7, TilesEnd
<1>9. QueueTilesStream'
  <2>1. pending' = <<>> /\ DataOf(pending') = <<>>
    BY <1>2 DEF DeliverNow
  <2>2. Tiles(DataOf(pending'), Len(log'), Len(log'), log')
    BY <1>6, <2>1, TilesEmpty
  <2> QED
    <3>1. Avail' = Len(log') /\ Len(got') = Len(got)
      BY <1>8 DEF Avail
    <3> QED
      BY <1>6, <2>1, <2>2, <3>1 DEF QueueTilesStream
<1>10. ExactAccounting'
  BY <1>0, <1>1, <1>6 DEF ExactAccounting
<1>11. InOrder'
  <2>1. got' = got /\ Len(got) <= Len(log) /\ \A b \in 1..Len(got) : got[b] = log[b]
    BY <1>0 DEF InOrder
  <2>2. Len(got) <= Len(log')
    BY <1>1, <1>6, <2>1
  <2>3. \A b \in 1..Len(got) : b \in 1..Len(log)
    BY <1>1, <2>1
  <2> QED
    BY <1>6, <2>1, <2>2, <2>3 DEF InOrder
<1> QED
  BY <1>1, <1>4, <1>5, <1>6, <1>7, <1>9, <1>10, <1>11 DEF DeliverNow

(* Times stay natural numbers.                                             *)
LEMMA TimeTypes ==
    ASSUME TypeOK, NEW n \in Nat, NEW d \in Delays
    PROVE  /\ TransmittedAt(n) \in Nat
           /\ ReleaseAt(TransmittedAt(n), d) \in Nat
<1>1. d \in Nat
  BY DEF TypeOK, Delays, FaultConfig
<1>2. SerializationDelay(n) \in Nat
  BY RateAssumption, SMTT(30) DEF SerializationDelay
<1>3. TransmittedAt(n) \in Nat
  BY <1>2 DEF TypeOK, TransmittedAt, Max2
<1>4. pending # <<>> => pending[Len(pending)].releaseAt \in Nat
  <2> SUFFICES ASSUME pending # <<>> PROVE pending[Len(pending)].releaseAt \in Nat
    OBVIOUS
  <2>1. pending \in Seq(HeldUnit) /\ Len(pending) \in Nat /\ Len(pending) # 0
    BY EmptyIffLenZero DEF TypeOK
  <2>2. pending[Len(pending)] \in HeldUnit
    BY <2>1
  <2> QED
    BY <2>2 DEF HeldUnit
<1> QED
  BY <1>1, <1>3, <1>4 DEF ReleaseAt, Max2

(* The latency timer is armed for a natural time, or off.                  *)
LEMMA ArmTypes ==
    ASSUME TypeOK, NEW units \in Seq(HeldUnit)
    PROVE  ArmLatencyTimer(units) \in [armed : BOOLEAN, at : Nat]
<1>1. CASE units = <<>>
  BY <1>1 DEF ArmLatencyTimer, Off
<1>2. CASE units # <<>>
  <2>1. units[1] \in HeldUnit
    BY <1>2
  <2>2. units[1].releaseAt \in Nat
    BY <2>1 DEF HeldUnit
  <2> QED
    BY <1>2, <2>2 DEF ArmLatencyTimer, Max2, TypeOK
<1> QED
  BY <1>1, <1>2

(* A unit held back, and its copy, extend what pending tiles.              *)
LEMMA DeliverLaterStream ==
    ASSUME StreamInv, ~readClosed, NEW n \in Nat, DeliverLater(n),
           UNCHANGED <<readClosed, faults, got>>
    PROVE  /\ readable' \in Seq(Interval) /\ pending' \in Seq(HeldUnit)
           /\ bufBytes' \in Int /\ trace' \in Seq(Events)
           /\ log' \in Seq(Nat \ {0}) /\ busyUntil' \in Nat
           /\ timer' \in [armed : BOOLEAN, at : Nat]
           /\ QueueTilesStream' /\ ExactAccounting' /\ InOrder'
<1> DEFINE first  == FirstCopy(log, NextUnit, n)
           second == SecondCopy(log, NextUnit, n)
<1>0. TypeOK /\ QueueTilesStream /\ ExactAccounting /\ InOrder
  BY DEF StreamInv
<1>1. /\ readable \in Seq(Interval) /\ pending \in Seq(HeldUnit) /\ log \in Seq(Nat \ {0})
      /\ Len(log) \in Nat /\ Len(got) \in Nat /\ bufBytes \in Int
  BY <1>0 DEF TypeOK
<1>2. /\ Tiles(readable, Len(got), Avail, log) /\ Avail <= Len(log)
      /\ Tiles(DataOf(pending), Avail, Len(log), log)
  BY <1>0 DEF QueueTilesStream, Tiles
<1>3. Avail \in Nat
  BY <1>0, AvailType
<1>4. PICK drawn \in Delays :
        LET at    == ReleaseAt(TransmittedAt(n), drawn)
            units == Append(pending, Unit(first, at))
        IN  /\ \E d \in BOOLEAN : trace' = Append(trace, Event("delivered", n, d))
            /\ timer' = ArmLatencyForAppend(units)
            /\ \/ /\ pending' = Append(units, Unit(second, at))
                  /\ bufBytes' = bufBytes + 2 * n
                  /\ log' = Extend(log, NextUnit, 2 * n)
               \/ /\ pending' = units
                  /\ bufBytes' = bufBytes + n
                  /\ log' = Extend(log, NextUnit, n)
  BY DEF DeliverLater, Draws
<1> DEFINE at    == ReleaseAt(TransmittedAt(n), drawn)
           units == Append(pending, Unit(first, at))
           held  == DataOf(pending)
<1>5. trace' \in Seq(Events)
  BY <1>0, <1>4, EventTypes
<1>6. TransmittedAt(n) \in Nat /\ at \in Nat
  BY <1>0, TimeTypes
<1>7. held \in Seq(Interval)
  BY <1>1, DataOfUnits
<1> DEFINE once  == Extend(log, NextUnit, n)
           twice == Extend(log, NextUnit, 2 * n)
<1>8. /\ first \in Interval /\ second \in Interval
      /\ once \in Seq(Nat \ {0}) /\ twice \in Seq(Nat \ {0})
      /\ Len(once) = Len(log) + n /\ Len(twice) = Len(log) + 2 * n
      /\ \A b \in 1..Len(log) : once[b] = log[b] /\ twice[b] = log[b]
      /\ Tiles(Append(held, first), Avail, Len(once), once)
      /\ Tiles(Append(Append(held, first), second), Avail, Len(twice), twice)
  <2>1. NextUnit \in Nat \ {0}
    BY <1>0, NextUnitType
  <2> QED
    BY <1>1, <1>2, <1>3, <1>7, <2>1, TilesAccept
<1> HIDE DEF first, second, at
<1>9. units \in Seq(HeldUnit) /\ DataOf(units) = Append(held, first)
  BY <1>1, <1>6, <1>8, DataOfAppend
<1>10. /\ pending' \in Seq(HeldUnit) /\ log' \in Seq(Nat \ {0}) /\ Len(log') \in Nat
       /\ Len(log') - Len(log) = bufBytes' - bufBytes /\ bufBytes' \in Int
       /\ Len(log') >= Len(log)
       /\ \A b \in 1..Len(log) : log'[b] = log[b]
       /\ Tiles(DataOf(pending'), Avail, Len(log'), log')
  <2> HIDE DEF units, once, twice, held
  <2>1. CASE /\ pending' = Append(units, Unit(second, at)) /\ log' = twice
             /\ bufBytes' = bufBytes + 2 * n
    <3>1. /\ pending' \in Seq(HeldUnit)
          /\ DataOf(pending') = Append(Append(held, first), second)
      BY <1>6, <1>8, <1>9, <2>1, DataOfAppend
    <3>2. Len(log') = Len(log) + 2 * n /\ log' \in Seq(Nat \ {0})
      BY <1>8, <2>1
    <3>3. /\ Len(log') \in Nat /\ Len(log') >= Len(log) /\ bufBytes' \in Int
          /\ Len(log') - Len(log) = bufBytes' - bufBytes
      BY <1>1, <2>1, <3>2
    <3>4. \A b \in 1..Len(log) : log'[b] = log[b]
      BY <1>8, <2>1
    <3>5. Tiles(DataOf(pending'), Avail, Len(log'), log')
      BY <1>8, <2>1, <3>1, Zenon
    <3> QED
      BY <3>1, <3>2, <3>3, <3>4, <3>5
  <2>2. CASE pending' = units /\ log' = once /\ bufBytes' = bufBytes + n
    <3>2. Len(log') = Len(log) + n /\ log' \in Seq(Nat \ {0})
      BY <1>8, <2>2
    <3>3. /\ Len(log') \in Nat /\ Len(log') >= Len(log) /\ bufBytes' \in Int
          /\ Len(log') - Len(log) = bufBytes' - bufBytes
      BY <1>1, <2>2, <3>2
    <3>4. \A b \in 1..Len(log) : log'[b] = log[b]
      BY <1>8, <2>2
    <3>5. Tiles(DataOf(pending'), Avail, Len(log'), log')
      BY <1>8, <1>9, <2>2, Zenon
    <3> QED
      BY <1>9, <2>2, <3>2, <3>3, <3>4, <3>5
  <2> QED
    BY <1>4, <2>1, <2>2 DEF units, once, twice, first, second, at
<1>11. timer' \in [armed : BOOLEAN, at : Nat]
  <2>1. timer' = ArmLatencyForAppend(units)
    BY <1>4 DEF first, at
  <2> HIDE DEF units
  <2>2. ArmLatencyTimer(units) \in [armed : BOOLEAN, at : Nat]
    BY <1>0, <1>9, ArmTypes
  <2>3. timer \in [armed : BOOLEAN, at : Nat]
    BY <1>0 DEF TypeOK
  <2> QED
    BY <2>1, <2>2, <2>3 DEF ArmLatencyForAppend
<1>12. busyUntil' \in Nat /\ readable' = readable
  BY <1>0, <1>6 DEF DeliverLater, TypeOK
<1>13. QueueTilesStream'
  <2>1. Avail' = Avail
    BY <1>12 DEF Avail
  <2>2. \A b \in 1..Avail : log'[b] = log[b]
    BY <1>1, <1>2, <1>3, <1>10
  <2>3. Tiles(readable, Len(got), Avail, log')
    BY <1>1, <1>2, <1>3, <2>2, TilesStream
  <2>4. faults'.latency \/ faults'.bandwidth
    BY DEF DeliverLater
  <2> QED
    BY <1>10, <1>12, <2>1, <2>3, <2>4 DEF QueueTilesStream
<1>14. ExactAccounting'
  BY <1>0, <1>1, <1>10 DEF ExactAccounting
<1>15. InOrder'
  <2>1. got' = got /\ Len(got) <= Len(log) /\ \A b \in 1..Len(got) : got[b] = log[b]
    BY <1>0 DEF InOrder
  <2>2. Len(got) <= Len(log')
    BY <1>1, <1>10, <2>1
  <2>3. \A b \in 1..Len(got) : b \in 1..Len(log)
    BY <1>1, <2>1
  <2> QED
    BY <1>10, <2>1, <2>2, <2>3 DEF InOrder
<1> QED
  BY <1>1, <1>5, <1>10, <1>11, <1>12, <1>13, <1>14, <1>15

(* Reading on from a prefix of l yields a longer prefix.                   *)
LEMMA ReadsOn ==
    ASSUME NEW S, NEW l \in Seq(S), NEW g \in Seq(S), NEW c \in Nat,
           Len(g) + c <= Len(l), \A b \in 1..Len(g) : g[b] = l[b]
    PROVE  LET h == g \o [b \in 1..c |-> l[Len(g) + b]]
           IN  /\ h \in Seq(S) /\ Len(h) = Len(g) + c
               /\ \A b \in 1..Len(h) : h[b] = l[b]
<1> DEFINE x == [b \in 1..c |-> l[Len(g) + b]]
           h == g \o x
<1>1. Len(g) \in Nat /\ Len(l) \in Nat
  OBVIOUS
<1>2. ASSUME NEW b \in 1..c PROVE l[Len(g) + b] \in S
  <2>1. Len(g) + b \in 1..Len(l)
    BY <1>1
  <2> QED
    BY <2>1
<1>3. x \in [1..c -> S]
  BY <1>2
<1>4. x \in Seq(S) /\ Len(x) = c /\ \A b \in 1..c : x[b] = l[Len(g) + b]
  BY <1>3, FunctionIsSeq
<1> HIDE DEF x
<1>5. /\ h \in Seq(S) /\ Len(h) = Len(g) + c
      /\ \A b \in 1..Len(g) : h[b] = g[b]
      /\ \A b \in 1..c : h[Len(g) + b] = x[b]
  BY <1>4
<1>6. ASSUME NEW b \in 1..Len(h) PROVE h[b] = l[b]
  <2>1. CASE b \in 1..Len(g)
    BY <1>5, <2>1
  <2>2. CASE b \notin 1..Len(g)
    <3>1. b - Len(g) \in 1..c /\ Len(g) + (b - Len(g)) = b
      BY <1>1, <1>5, <2>2
    <3> QED
      BY <1>4, <1>5, <3>1
  <2> QED
    BY <2>1, <2>2
<1> QED
  BY <1>5, <1>6 DEF x

(* The bytes read are the next ones of the stream, and what is left of     *)
(* readable tiles the stream from there.                                   *)
LEMMA ReadDataTiles ==
    ASSUME StreamInv, ~readClosed, readable # <<>>, NEW n \in Nat,
           NEW k \in 0..Len(readable), StopsAt(k, n)
    PROVE  LET h == got \o [b \in 1..Copied(k, n) |-> UnitAt(readable[1].lo + b)]
           IN  /\ Copied(k, n) \in Nat /\ Len(got) + Copied(k, n) <= Avail
               /\ Leftover(readable, k, n) \in Seq(Interval) /\ Len(Leftover(readable, k, n)) = Len(readable) - k
               /\ Tiles(Leftover(readable, k, n), Len(got) + Copied(k, n), Avail, log)
               /\ h = got \o [b \in 1..Copied(k, n) |-> log[Len(got) + b]]
<1>0. TypeOK /\ QueueTilesStream /\ ExactAccounting /\ InOrder
  BY DEF StreamInv
<1>1. /\ readable \in Seq(Interval) /\ Len(readable) \in Nat /\ Len(readable) > 0
      /\ Len(got) \in Nat /\ Tiles(readable, Len(got), Avail, log)
      /\ DOMAIN readable = 1..Len(readable)
      /\ \A i \in 1..Len(readable) : readable[i] \in Interval
  <2>1. readable \in Seq(Interval) /\ Len(got) \in Nat
    BY <1>0 DEF TypeOK
  <2>2. Len(readable) \in Nat /\ Len(readable) # 0
    BY <2>1, EmptyIffLenZero
  <2> QED
    BY <1>0, <2>1, <2>2 DEF QueueTilesStream
<1>2. /\ readable[1].lo = Len(got) /\ readable[Len(readable)].hi = Avail
      /\ Avail \in Nat /\ Len(got) <= Avail
  <2>1. /\ readable[1].lo = Len(got) /\ readable[Len(readable)].hi = Avail
        /\ Len(got) <= Avail
    BY <1>1 DEF Tiles
  <2>2. readable[Len(readable)] \in Interval
    BY <1>1
  <2> QED
    BY <2>1, <2>2, IntervalFields
<1> DEFINE c == Copied(k, n)
<1>3. /\ c \in Nat /\ Len(got) + c <= Avail
      /\ Leftover(readable, k, n) \in Seq(Interval) /\ Len(Leftover(readable, k, n)) = Len(readable) - k
      /\ Tiles(Leftover(readable, k, n), Len(got) + c, Avail, log)
  <2>1. CASE k = Len(readable)
    <3>1. c = Avail - Len(got)
      BY <1>2, <2>1 DEF Copied
    <3>2. Leftover(readable, k, n) = <<>> /\ Len(Leftover(readable, k, n)) = 0
      BY <1>1, <2>1 DEF Leftover
    <3>3. Len(got) + c = Avail /\ c \in Nat
      BY <1>1, <1>2, <3>1
    <3>4. Tiles(<<>>, Avail, Avail, log)
      BY <1>2, TilesEmpty
    <3>5. Leftover(readable, k, n) \in Seq(Interval)
      BY <3>2
    <3> QED
      BY <1>1, <1>2, <2>1, <3>2, <3>3, <3>4, <3>5
  <2>2. CASE k # Len(readable)
    <3>1. k \in 0..(Len(readable) - 1) /\ k < Len(readable) /\ k \in Nat
      <4>1. Len(readable) \in Nat
        BY <1>1
      <4> QED
        BY <2>2, <4>1
    <3>2. c = n
      BY <2>2 DEF Copied
    <3>3. Consumes(readable, k, n)
      <4>1. \A i \in 1..k : readable[i].hi <= readable[1].lo + n
        BY DEF StopsAt, Drained, ReadLimit
      <4>2. readable[k + 1] \in Interval /\ readable[1] \in Interval
        BY <1>1, <3>1
      <4>3. /\ readable[k + 1].lo \in Nat /\ readable[k + 1].hi \in Nat
            /\ readable[1].lo + n \in Nat
        BY <4>2, IntervalFields
      <4>4. ~(readable[k + 1].lo < readable[1].lo + n /\ readable[k + 1].hi <= readable[1].lo + n)
        BY <3>1 DEF StopsAt, Drained, ReadLimit
      <4>5. readable[k + 1].lo >= readable[1].lo + n \/ readable[k + 1].hi > readable[1].lo + n
        BY <4>3, <4>4
      <4> QED
        BY <4>1, <4>5 DEF Consumes
    <3>4. /\ Len(got) + n <= Avail /\ Leftover(readable, k, n) \in Seq(Interval)
          /\ Len(Leftover(readable, k, n)) = Len(readable) - k
          /\ Tiles(Leftover(readable, k, n), Len(got) + n, Avail, log)
      <4>1. readable \in Seq(Interval) /\ Len(got) \in Nat /\ Avail \in Nat
        BY <1>1, <1>2
      <4>2. Tiles(readable, Len(got), Avail, log) /\ k \in 0..(Len(readable) - 1)
        BY <1>1, <3>1
      <4> QED
        BY <3>3, <4>1, <4>2, TilesRead, ZenonT(60)
    <3> QED
      BY <3>2, <3>4
  <2> QED
    BY <2>1, <2>2
<1>4. ASSUME NEW b \in 1..c
      PROVE  UnitAt(readable[1].lo + b) = log[Len(got) + b]
  <2> DEFINE pos == Len(got) + b
             P(i) == readable[i].lo < pos /\ pos <= readable[i].hi
             i0 == CHOOSE i \in DOMAIN readable : P(i)
  <2>1. pos \in (Len(got) + 1)..Avail
    BY <1>1, <1>2, <1>3
  <2>2. \E i \in DOMAIN readable : P(i)
    BY <1>1, <2>1 DEF Tiles
  <2>3. i0 \in DOMAIN readable /\ P(i0)
    BY <2>2
  <2>4. UnitAt(pos) = readable[i0].unit
    BY DEF UnitAt
  <2> HIDE DEF i0
  <2>5. pos \in (readable[i0].lo + 1)..readable[i0].hi
    <3>1. readable[i0] \in Interval
      BY <1>1, <2>3
    <3> QED
      BY <2>1, <2>3, <3>1, IntervalFields
  <2>6. log[pos] = readable[i0].unit
    BY <1>1, <2>3, <2>5 DEF Tiles
  <2> QED
    BY <1>2, <2>4, <2>6
<1> HIDE DEF c
<1>5. [b \in 1..c |-> UnitAt(readable[1].lo + b)] = [b \in 1..c |-> log[Len(got) + b]]
  BY <1>4
<1> QED
  BY <1>3, <1>5 DEF c

(* The first k held units and the others tile what all of them did.        *)
LEMMA ReleaseTiles ==
    ASSUME NEW p \in Seq(HeldUnit), NEW from \in Nat, NEW to \in Nat, NEW l,
           Tiles(DataOf(p), from, to, l), NEW k \in 0..Len(p)
    PROVE  LET moved == [i \in 1..k |-> p[i].data]
               left  == SubSeq(p, k + 1, Len(p))
           IN  /\ moved \in Seq(Interval) /\ left \in Seq(HeldUnit)
               /\ Len(moved) = k /\ Len(left) = Len(p) - k
               /\ \E mid \in Nat : /\ Tiles(moved, from, mid, l)
                                   /\ Tiles(DataOf(left), mid, to, l)
<1> DEFINE moved == [i \in 1..k |-> p[i].data]
           left  == SubSeq(p, k + 1, Len(p))
           D     == DataOf(p)
<1>1. /\ Len(p) \in Nat /\ k \in Nat /\ k <= Len(p)
      /\ \A i \in 1..Len(p) : p[i] \in HeldUnit
  OBVIOUS
<1>2. /\ D \in Seq(Interval) /\ Len(D) = Len(p)
      /\ \A i \in 1..Len(p) : D[i] = p[i].data
  BY DataOfUnits
<1>3. \A i \in 1..k : p[i].data \in Interval
  BY <1>1 DEF HeldUnit
<1>4. moved \in Seq(Interval) /\ Len(moved) = k
  <2>1. moved \in [1..k -> Interval]
    BY <1>3
  <2> QED
    BY <1>1, <2>1, FunctionIsSeq
<1>5. /\ left \in Seq(HeldUnit) /\ Len(left) = Len(p) - k
      /\ \A i \in 1..(Len(p) - k) : left[i] = p[k + i]
  OBVIOUS
<1>6. /\ DataOf(left) \in Seq(Interval) /\ Len(DataOf(left)) = Len(p) - k
      /\ \A i \in 1..(Len(p) - k) : DataOf(left)[i] = p[k + i].data
  <2> HIDE DEF left
  <2> QED
    BY <1>5, DataOfUnits
<1>7. CASE k = 0
  <2>1. moved = <<>>
    BY <1>4, <1>7, EmptyIffLenZero
  <2>2. left = p
    BY <1>1, <1>7
  <2>3. Tiles(<<>>, from, from, l)
    BY TilesEmpty
  <2> QED
    BY <1>4, <1>5, <2>1, <2>2, <2>3
<1>8. CASE k = Len(p)
  <2>1. moved = D
    BY <1>1, <1>2, <1>8
  <2>2. DataOf(left) = <<>>
    BY <1>6, <1>8, EmptyIffLenZero
  <2>3. Tiles(<<>>, to, to, l)
    BY TilesEmpty
  <2>4. Tiles(moved, from, to, l)
    BY <2>1
  <2> HIDE DEF moved, left
  <2> QED
    BY <1>4, <1>5, <2>2, <2>3, <2>4 DEF moved, left
<1>9. CASE k # 0 /\ k # Len(p)
  <2>1. k \in 1..(Len(D) - 1)
    BY <1>1, <1>2, <1>9
  <2>2. /\ D[k].hi \in Nat
        /\ Tiles([i \in 1..k |-> D[i]], from, D[k].hi, l)
        /\ Tiles([i \in 1..(Len(D) - k) |-> D[k + i]], D[k].hi, to, l)
    <3> HIDE DEF D
    <3>1. Tiles(D, from, to, l)
      BY DEF D
    <3> QED
      BY <1>2, <2>1, <3>1, TilesSplit
  <2>3. moved = [i \in 1..k |-> D[i]]
    BY <1>1, <1>2
  <2>4. DataOf(left) = [i \in 1..(Len(D) - k) |-> D[k + i]]
    <3> DEFINE u == [i \in 1..(Len(p) - k) |-> D[k + i]]
    <3>1. \A i \in 1..(Len(p) - k) : D[k + i] = p[k + i].data /\ D[k + i] \in Interval
      BY <1>1, <1>2
    <3>2. u \in [1..(Len(p) - k) -> Interval]
      <4> HIDE DEF D
      <4> QED
        BY <3>1
    <3>3. u \in Seq(Interval) /\ Len(u) = Len(p) - k
      <4> HIDE DEF u
      <4> QED
        BY <1>1, <3>2, FunctionIsSeq
    <3>4. \A i \in 1..(Len(p) - k) : DataOf(left)[i] = u[i]
      <4> HIDE DEF D, left
      <4> QED
        BY <1>6, <3>1
    <3>5. u = [i \in 1..(Len(D) - k) |-> D[k + i]]
      <4> HIDE DEF D
      <4> QED
        BY <1>2
    <3> HIDE DEF u, left, D
    <3>6. DataOf(left) = u
      BY <1>1, <1>6, <3>3, <3>4
    <3> QED
      BY <3>5, <3>6
  <2> HIDE DEF moved, left, D
  <2> QED
    BY <1>4, <1>5, <2>2, <2>3, <2>4 DEF moved, left
<1> QED
  BY <1>7, <1>8, <1>9

(* The callback moves a tiling from pending to readable.                   *)
LEMMA ReleaseStream ==
    ASSUME StreamInv, ReleaseDueLatency
    PROVE  StreamInv'
<1>0. TypeOK /\ QueueTilesStream /\ ExactAccounting /\ InOrder
  BY DEF StreamInv
<1>u. /\ now' = now /\ bufBytes' = bufBytes /\ busyUntil' = busyUntil
      /\ closed' = closed /\ readClosed' = readClosed /\ eofSeen' = eofSeen
      /\ faults' = faults /\ partitioned' = partitioned /\ trace' = trace
      /\ log' = log /\ got' = got /\ callbacks' = callbacks - 1 /\ callbacks > 0
  BY DEF ReleaseDueLatency, ends, net, hist
<1>c. callbacks' \in Nat
  BY <1>0, <1>u DEF TypeOK
<1>i. InOrder' /\ ExactAccounting'
  BY <1>0, <1>u DEF InOrder, ExactAccounting
<1>1. CASE readClosed
  <2>1. /\ readable' = readable /\ pending' = pending /\ timer' = timer
        /\ rd' = rd /\ wr' = wr
    BY <1>1 DEF ReleaseDueLatency
  <2>2. TypeOK'
    BY <1>0, <1>u, <1>c, <2>1 DEF TypeOK
  <2>3. QueueTilesStream'
    BY <1>1, <1>u DEF QueueTilesStream
  <2> QED
    BY <1>i, <2>2, <2>3 DEF StreamInv
<1>2. CASE ~readClosed
  <2>1. PICK k \in 0..Len(pending) :
          /\ readable' = readable \o [i \in 1..k |-> pending[i].data]
          /\ pending' = SubSeq(pending, k + 1, Len(pending))
          /\ timer' = ArmLatencyTimer(pending')
          /\ rd' = IF k > 0 THEN Wake(rd, "notify") ELSE rd
          /\ wr' = IF k > 0 THEN Wake(wr, "notify") ELSE wr
    BY <1>2 DEF ReleaseDueLatency
  <2> DEFINE moved == [i \in 1..k |-> pending[i].data]
  <2>2. /\ readable \in Seq(Interval) /\ pending \in Seq(HeldUnit)
        /\ Len(got) \in Nat /\ Len(log) \in Nat
    BY <1>0 DEF TypeOK
  <2>3. /\ Tiles(readable, Len(got), Avail, log)
        /\ Tiles(DataOf(pending), Avail, Len(log), log)
        /\ pending # <<>> => faults.latency \/ faults.bandwidth
    BY <1>0, <1>2 DEF QueueTilesStream
  <2>4. Avail \in Nat
    BY <1>0, AvailType
  <2>5. /\ moved \in Seq(Interval) /\ pending' \in Seq(HeldUnit)
        /\ Len(pending') = Len(pending) - k
        /\ \E mid \in Nat : /\ Tiles(moved, Avail, mid, log)
                            /\ Tiles(DataOf(pending'), mid, Len(log), log)
    BY <2>1, <2>2, <2>3, <2>4, ReleaseTiles
  <2>6. PICK mid \in Nat : /\ Tiles(moved, Avail, mid, log)
                           /\ Tiles(DataOf(pending'), mid, Len(log), log)
    BY <2>5
  <2> HIDE DEF moved
  <2>7. readable' = readable \o moved /\ readable' \in Seq(Interval)
    BY <2>1, <2>2, <2>5 DEF moved
  <2>8. Tiles(readable', Len(got), mid, log)
    BY <2>2, <2>3, <2>4, <2>5, <2>6, <2>7, TilesConcat
  <2>9. EndOf(readable', Len(got)) = mid
    BY <2>2, <2>7, <2>8, TilesEnd
  <2>10. QueueTilesStream'
    <3>1. Avail' = mid
      BY <1>u, <2>9 DEF Avail
    <3>2. pending' # <<>> => pending # <<>>
      <4>1. Len(pending') # 0 => Len(pending) # 0
        BY <2>2, <2>5
      <4> QED
        BY <2>2, <2>5, <4>1, EmptyIffLenZero
    <3> QED
      BY <1>u, <2>3, <2>6, <2>8, <3>1, <3>2 DEF QueueTilesStream
  <2>11. timer' \in [armed : BOOLEAN, at : Nat]
    <3>1. ArmLatencyTimer(pending') \in [armed : BOOLEAN, at : Nat]
      BY <1>0, <2>5, ArmTypes
    <3> QED
      BY <2>1, <3>1
  <2>12. /\ rd' \in [Readers -> Call] /\ wr' \in [Writers -> Call]
         /\ \A w \in Writers : wr'[w].at # "idle" => wr'[w].len \in WriteSizes
    <3>1. CASE k > 0
      BY <1>0, <2>1, <3>1, WakeTypes
    <3>2. CASE ~(k > 0)
      BY <1>0, <2>1, <3>2 DEF TypeOK
    <3> QED
      BY <3>1, <3>2
  <2>13. TypeOK'
    BY <1>0, <1>u, <1>c, <2>5, <2>7, <2>11, <2>12 DEF TypeOK
  <2> QED
    BY <1>i, <2>10, <2>13 DEF StreamInv
<1> QED
  BY <1>1, <1>2

(* Replacing one entry of the calls in progress.                           *)
LEMMA CallReplaced ==
    ASSUME NEW S, NEW calls \in [S -> Call], NEW c \in S, NEW v \in Call
    PROVE  /\ [calls EXCEPT ![c] = v] \in [S -> Call]
           /\ [calls EXCEPT ![c] = v][c] = v
           /\ \A d \in S : d # c => [calls EXCEPT ![c] = v][d] = calls[d]
OBVIOUS

(* Steps that leave the queue, the history and what the queue depends on   *)
(* alone only have types to keep.                                          *)
LEMMA QuietStream ==
    ASSUME StreamInv, UNCHANGED <<readable, pending, bufBytes, readClosed, log, got>>,
           faults'.latency \/ ~faults.latency, faults'.bandwidth \/ ~faults.bandwidth
    PROVE  QueueTilesStream' /\ ExactAccounting' /\ InOrder'
<1>0. TypeOK /\ QueueTilesStream /\ ExactAccounting /\ InOrder
  BY DEF StreamInv
<1>1. Avail' = Avail
  BY DEF Avail
<1>2. pending # <<>> /\ ~readClosed => faults'.latency \/ faults'.bandwidth
  BY <1>0 DEF QueueTilesStream
<1>3. QueueTilesStream'
  BY <1>0, <1>1, <1>2 DEF QueueTilesStream
<1> QED
  BY <1>0, <1>3 DEF ExactAccounting, InOrder

(* An admitted write, whatever becomes of it.                              *)
LEMMA AdmitStream ==
    ASSUME StreamInv, NEW w \in Writers, NEW n \in WriteSizes, Admit(w, n)
    PROVE  StreamInv'
<1>0. TypeOK /\ QueueTilesStream /\ ExactAccounting /\ InOrder /\ n \in Nat
  BY SizeAssumption DEF StreamInv
<1>u. /\ now' = now /\ closed' = closed /\ readClosed' = readClosed /\ ~readClosed
      /\ eofSeen' = eofSeen /\ callbacks' = callbacks
      /\ faults' = faults /\ partitioned' = partitioned /\ got' = got
  BY DEF Admit, ends, net
<1>1. /\ rd' \in [Readers -> Call] /\ wr' \in [Writers -> Call]
      /\ \A v \in Writers : wr'[v].at # "idle" => wr'[v].len \in WriteSizes
  <2>1. \/ rd' = Wake(rd, "notify") /\ wr' = [Wake(wr, "notify") EXCEPT ![w] = Idle]
        \/ rd' = rd /\ wr' = [wr EXCEPT ![w] = Idle]
    BY DEF Admit
  <2>2. CASE rd' = Wake(rd, "notify") /\ wr' = [Wake(wr, "notify") EXCEPT ![w] = Idle]
    <3>1. /\ Wake(rd, "notify") \in [Readers -> Call] /\ Wake(wr, "notify") \in [Writers -> Call]
          /\ \A v \in Writers : Wake(wr, "notify")[v].at # "idle" =>
                                   Wake(wr, "notify")[v].len \in WriteSizes
      BY <1>0, WakeTypes
    <3>2. /\ wr' \in [Writers -> Call] /\ wr'[w] = Idle
          /\ \A v \in Writers : v # w => wr'[v] = Wake(wr, "notify")[v]
      BY <2>2, <3>1, CallTypes, CallReplaced
    <3> QED
      BY <2>2, <3>1, <3>2, CallTypes
  <2>3. CASE rd' = rd /\ wr' = [wr EXCEPT ![w] = Idle]
    <3>1. /\ rd \in [Readers -> Call] /\ wr \in [Writers -> Call]
          /\ \A v \in Writers : wr[v].at # "idle" => wr[v].len \in WriteSizes
      BY <1>0 DEF TypeOK
    <3>2. /\ wr' \in [Writers -> Call] /\ wr'[w] = Idle
          /\ \A v \in Writers : v # w => wr'[v] = wr[v]
      BY <2>3, <3>1, CallTypes, CallReplaced
    <3> QED
      BY <2>3, <3>1, <3>2, CallTypes
  <2> QED
    BY <2>1, <2>2, <2>3
<1>2. CASE DeliverPartitioned(n) \/ DeliverDropped(n)
  <2>1. /\ \E f \in {"partitioned", "dropped", "delivered"}, m \in Nat, d \in BOOLEAN :
             trace' = Append(trace, Event(f, m, d))
        /\ readable' = readable /\ pending' = pending /\ bufBytes' = bufBytes
        /\ timer' = timer /\ busyUntil' = busyUntil /\ log' = log
    BY <1>0, <1>2 DEF DeliverPartitioned, DeliverDropped, Draws, queue
  <2>2. trace' \in Seq(Events)
    BY <1>0, <2>1, EventTypes
  <2>3. TypeOK'
    BY <1>0, <1>u, <1>1, <2>1, <2>2 DEF TypeOK
  <2> QED
    BY <1>u, <2>1, <2>3, QuietStream DEF StreamInv
<1>3. CASE DeliverNow(n)
  <2>1. /\ readable' \in Seq(Interval) /\ pending' \in Seq(HeldUnit)
        /\ bufBytes' \in Int /\ trace' \in Seq(Events)
        /\ log' \in Seq(Nat \ {0}) /\ timer' = timer /\ busyUntil' = busyUntil
        /\ QueueTilesStream' /\ ExactAccounting' /\ InOrder'
    BY <1>0, <1>u, <1>3, DeliverNowStream
  <2>2. TypeOK'
    BY <1>0, <1>u, <1>1, <2>1 DEF TypeOK
  <2> QED
    BY <2>1, <2>2 DEF StreamInv
<1>4. CASE DeliverLater(n)
  <2>1. /\ readable' \in Seq(Interval) /\ pending' \in Seq(HeldUnit)
        /\ bufBytes' \in Int /\ trace' \in Seq(Events)
        /\ log' \in Seq(Nat \ {0}) /\ busyUntil' \in Nat
        /\ timer' \in [armed : BOOLEAN, at : Nat]
        /\ QueueTilesStream' /\ ExactAccounting' /\ InOrder'
    BY <1>0, <1>u, <1>4, DeliverLaterStream
  <2>2. TypeOK'
    BY <1>0, <1>u, <1>1, <2>1 DEF TypeOK
  <2> QED
    BY <2>1, <2>2 DEF StreamInv
<1> QED
  BY <1>2, <1>3, <1>4 DEF Admit

(* Where a Read that copied nothing leaves the calls.                      *)
LEMMA EndOrWaitTypes ==
    ASSUME NEW r \in Readers, NEW n \in Nat, NEW woken \in [Readers -> Call],
           eofSeen \in BOOLEAN, EndOrWait(r, n, woken)
    PROVE  rd' \in [Readers -> Call] /\ eofSeen' \in BOOLEAN
<1>1. Idle \in Call /\ Parked("notify", n) \in Call /\ Parked("partition", n) \in Call
  BY CallTypes DEF Places
<1>2. \E v \in Call : rd' = [woken EXCEPT ![r] = v]
  BY <1>1 DEF EndOrWait
<1>3. eofSeen' = eofSeen \/ eofSeen' = TRUE
  BY DEF EndOrWait
<1> QED
  BY <1>2, <1>3, CallReplaced

(* A Read takes the next bytes of the stream and nothing else.             *)
LEMMA ReadDataStream ==
    ASSUME StreamInv, NEW r \in Readers, NEW n \in Nat, ReadData(r, n)
    PROVE  StreamInv'
<1>0. TypeOK /\ QueueTilesStream /\ ExactAccounting /\ InOrder
  BY DEF StreamInv
<1>u. /\ now' = now /\ closed' = closed /\ readClosed' = readClosed /\ ~readClosed
      /\ pending' = pending /\ timer' = timer /\ busyUntil' = busyUntil
      /\ callbacks' = callbacks /\ readable # <<>> /\ wr' = Wake(wr, "notify")
      /\ faults' = faults /\ partitioned' = partitioned /\ trace' = trace /\ log' = log
  BY DEF ReadData, net
<1>1. PICK k \in 0..Len(readable) :
        /\ StopsAt(k, n)
        /\ readable' = Leftover(readable, k, n)
        /\ bufBytes' = bufBytes - Copied(k, n)
        /\ got' = got \o [b \in 1..Copied(k, n) |-> UnitAt(readable[1].lo + b)]
        /\ \/ /\ rd' = [Wake(rd, "notify") EXCEPT ![r] = Idle]
              /\ UNCHANGED eofSeen
           \/ EndOrWait(r, n, Wake(rd, "notify"))
  BY DEF ReadData
<1> DEFINE c == Copied(k, n)
<1>2. /\ c \in Nat /\ Len(got) + c <= Avail
      /\ readable' \in Seq(Interval)
      /\ Tiles(readable', Len(got) + c, Avail, log)
      /\ got' = got \o [b \in 1..c |-> log[Len(got) + b]]
  BY <1>u, <1>1, ReadDataTiles
<1>3. bufBytes' = bufBytes - c
  BY <1>1
<1> HIDE DEF c
<1>4. /\ Len(got) \in Nat /\ Len(log) \in Nat /\ Avail \in Nat /\ bufBytes \in Int
      /\ got \in Seq(Nat \ {0}) /\ log \in Seq(Nat \ {0})
      /\ Tiles(DataOf(pending), Avail, Len(log), log) /\ Avail <= Len(log)
      /\ pending # <<>> => faults.latency \/ faults.bandwidth
  <2>1. /\ Len(got) \in Nat /\ Len(log) \in Nat /\ bufBytes \in Int
        /\ got \in Seq(Nat \ {0}) /\ log \in Seq(Nat \ {0})
    BY <1>0 DEF TypeOK
  <2>2. /\ Tiles(DataOf(pending), Avail, Len(log), log)
        /\ pending # <<>> => faults.latency \/ faults.bandwidth
    BY <1>0, <1>u DEF QueueTilesStream
  <2>3. Avail <= Len(log)
    BY <2>2 DEF Tiles
  <2> QED
    BY <1>0, <2>1, <2>2, <2>3, AvailType
<1>5. Len(got) + c \in Nat /\ Len(got) + c <= Len(log)
  BY <1>2, <1>4
<1>6. /\ got' \in Seq(Nat \ {0}) /\ Len(got') = Len(got) + c
      /\ \A b \in 1..Len(got') : got'[b] = log[b]
  <2>1. \A b \in 1..Len(got) : got[b] = log[b]
    BY <1>0 DEF InOrder
  <2> DEFINE h == got \o [b \in 1..c |-> log[Len(got) + b]]
  <2>2. /\ h \in Seq(Nat \ {0}) /\ Len(h) = Len(got) + c
        /\ \A b \in 1..Len(h) : h[b] = log[b]
    <3>1. /\ got \in Seq(Nat \ {0}) /\ log \in Seq(Nat \ {0}) /\ c \in Nat
          /\ Len(got) + c <= Len(log)
      BY <1>2, <1>4, <1>5
    <3> QED
      BY <2>1, <3>1, ReadsOn, ZenonT(60)
  <2>3. got' = h
    BY <1>2
  <2> HIDE DEF h
  <2> QED
    BY <2>2, <2>3
<1>7. InOrder'
  BY <1>u, <1>5, <1>6 DEF InOrder
<1>8. ExactAccounting' /\ bufBytes' \in Int
  <2>1. bufBytes = Len(log) - Len(got)
    BY <1>0, <1>u DEF ExactAccounting
  <2>2. bufBytes' = Len(log) - Len(got') /\ bufBytes' \in Int
    BY <1>2, <1>3, <1>4, <1>6, <2>1
  <2> QED
    BY <1>u, <2>2 DEF ExactAccounting
<1>9. QueueTilesStream'
  <2>1. Tiles(readable', Len(got'), Avail, log)
    BY <1>2, <1>6
  <2>2. EndOf(readable', Len(got')) = Avail
    BY <1>2, <1>5, <1>6, <2>1, TilesEnd
  <2>3. Avail' = Avail
    BY <2>2 DEF Avail
  <2> QED
    BY <1>u, <1>4, <2>1, <2>3 DEF QueueTilesStream
<1>10. /\ rd' \in [Readers -> Call] /\ wr' \in [Writers -> Call] /\ eofSeen' \in BOOLEAN
       /\ \A w \in Writers : wr'[w].at # "idle" => wr'[w].len \in WriteSizes
  <2>1. /\ Wake(rd, "notify") \in [Readers -> Call] /\ wr' \in [Writers -> Call]
        /\ \A w \in Writers : wr'[w].at # "idle" => wr'[w].len \in WriteSizes
    BY <1>0, <1>u, WakeTypes
  <2>2. eofSeen \in BOOLEAN
    BY <1>0 DEF TypeOK
  <2>3. CASE rd' = [Wake(rd, "notify") EXCEPT ![r] = Idle] /\ eofSeen' = eofSeen
    BY <2>1, <2>2, <2>3, CallTypes, CallReplaced
  <2>4. CASE EndOrWait(r, n, Wake(rd, "notify"))
    BY <2>1, <2>2, <2>4, EndOrWaitTypes
  <2> QED
    BY <1>1, <2>1, <2>3, <2>4
<1>11. TypeOK'
  BY <1>0, <1>u, <1>2, <1>6, <1>8, <1>10 DEF TypeOK
<1> QED
  BY <1>7, <1>8, <1>9, <1>11 DEF StreamInv

(* The steps that leave the stream alone.                                  *)
LEMMA QuietSteps ==
    ASSUME StreamInv,
           \/ \E w \in Writers, n \in WriteSizes : WriteBlocks(w, n) \/ WriteRefused(w)
           \/ \E r \in Readers, n \in Nat : ReadAborted(r) \/ ReadEmpty(r, n)
           \/ TimerFires \/ Tick \/ Close
           \/ SetLatency \/ SetPacketLoss \/ SetDuplication
           \/ \E p \in BOOLEAN : PartitionChange(p)
    PROVE  StreamInv'
<1>0. TypeOK
  BY DEF StreamInv
<1>1. /\ readable' = readable /\ pending' = pending /\ bufBytes' = bufBytes
      /\ readClosed' = readClosed /\ log' = log /\ got' = got
      /\ busyUntil' = busyUntil /\ trace' = trace
  BY DEF WriteBlocks, WriteRefused, ReadAborted, ReadEmpty, TimerFires, Tick, Close,
         SetLatency, SetPacketLoss, SetDuplication, PartitionChange,
         queue, ends, hist
<1>2. /\ faults' \in FaultConfig /\ faults'.min <= faults'.max
      /\ faults'.latency \/ ~faults.latency
      /\ faults'.bandwidth \/ ~faults.bandwidth
  <2>1. faults \in FaultConfig /\ faults.min <= faults.max
    BY <1>0 DEF TypeOK
  <2>2. \/ faults' = faults
        \/ faults' = [faults EXCEPT !.loss = TRUE]
        \/ faults' = [faults EXCEPT !.duplicate = TRUE]
        \/ \E range \in LatencyRanges :
             faults' = [faults EXCEPT !.latency = TRUE, !.min = range[1], !.max = range[2]]
    BY DEF WriteBlocks, WriteRefused, ReadAborted, ReadEmpty, TimerFires, Tick, Close,
           SetLatency, SetPacketLoss, SetDuplication, PartitionChange, net
  <2>3. ASSUME NEW range \in LatencyRanges PROVE /\ range[1] \in Nat /\ range[2] \in Nat
                                                 /\ range[1] <= range[2]
    BY RangeAssumption
  <2> QED
    BY <2>1, <2>2, <2>3 DEF FaultConfig
<1>3. QueueTilesStream' /\ ExactAccounting' /\ InOrder'
  BY <1>1, <1>2, QuietStream
<1>4. /\ now' \in Nat /\ callbacks' \in Nat /\ timer' \in [armed : BOOLEAN, at : Nat]
      /\ closed' \in BOOLEAN /\ partitioned' \in BOOLEAN
  <2>1. now' = now \/ now' = now + 1
    BY DEF WriteBlocks, WriteRefused, ReadAborted, ReadEmpty, TimerFires, Tick, Close,
           SetLatency, SetPacketLoss, SetDuplication, PartitionChange
  <2>2. callbacks' = callbacks \/ callbacks' = callbacks + 1
    BY DEF WriteBlocks, WriteRefused, ReadAborted, ReadEmpty, TimerFires, Tick, Close,
           SetLatency, SetPacketLoss, SetDuplication, PartitionChange
  <2>3. timer' = timer \/ timer' = Off
    BY DEF WriteBlocks, WriteRefused, ReadAborted, ReadEmpty, TimerFires, Tick, Close,
           SetLatency, SetPacketLoss, SetDuplication, PartitionChange, queue
  <2>4. closed' = closed \/ closed' = TRUE
    BY DEF WriteBlocks, WriteRefused, ReadAborted, ReadEmpty, TimerFires, Tick, Close,
           SetLatency, SetPacketLoss, SetDuplication, PartitionChange, ends
  <2>5. partitioned' = partitioned \/ \E p \in BOOLEAN : partitioned' = p
    BY DEF WriteBlocks, WriteRefused, ReadAborted, ReadEmpty, TimerFires, Tick, Close,
           SetLatency, SetPacketLoss, SetDuplication, PartitionChange, net
  <2>6. Off \in [armed : BOOLEAN, at : Nat]
    BY DEF Off
  <2>7. /\ now \in Nat /\ callbacks \in Nat /\ timer \in [armed : BOOLEAN, at : Nat]
        /\ closed \in BOOLEAN /\ partitioned \in BOOLEAN
    BY <1>0 DEF TypeOK
  <2>8. now' \in Nat /\ callbacks' \in Nat
    BY <2>1, <2>2, <2>7
  <2>9. timer' \in [armed : BOOLEAN, at : Nat]
    BY <2>3, <2>6, <2>7
  <2>10. closed' \in BOOLEAN /\ partitioned' \in BOOLEAN
    BY <2>4, <2>5, <2>7, Zenon
  <2> QED
    BY <2>8, <2>9, <2>10
<1>5. wr' \in [Writers -> Call] /\ \A w \in Writers : wr'[w].at # "idle" => wr'[w].len \in WriteSizes
  <2>1. \/ wr' = wr \/ wr' = Wake(wr, "notify")
        \/ \E w \in Writers : wr' = [wr EXCEPT ![w] = Idle]
        \/ \E w \in Writers, n \in WriteSizes : wr' = [wr EXCEPT ![w] = Parked("notify", n)]
    BY DEF WriteBlocks, WriteRefused, ReadAborted, ReadEmpty, TimerFires, Tick, Close,
           SetLatency, SetPacketLoss, SetDuplication, PartitionChange
  <2>2. /\ wr \in [Writers -> Call]
        /\ \A w \in Writers : wr[w].at # "idle" => wr[w].len \in WriteSizes
    BY <1>0 DEF TypeOK
  <2>3. ASSUME NEW w \in Writers, NEW c \in Call, c.at # "idle" => c.len \in WriteSizes,
               wr' = [wr EXCEPT ![w] = c]
        PROVE  /\ wr' \in [Writers -> Call]
               /\ \A v \in Writers : wr'[v].at # "idle" => wr'[v].len \in WriteSizes
    <3>1. /\ wr' \in [Writers -> Call] /\ wr'[w] = c
          /\ \A v \in Writers : v # w => wr'[v] = wr[v]
      BY <2>2, <2>3, CallReplaced
    <3> QED
      BY <2>2, <2>3, <3>1
  <2>4. Idle \in Call /\ Idle.at = "idle"
    BY CallTypes
  <2>5. ASSUME NEW n \in WriteSizes
        PROVE  Parked("notify", n) \in Call /\ Parked("notify", n).len \in WriteSizes
    BY SizeAssumption, CallTypes DEF Places
  <2>6. CASE wr' = Wake(wr, "notify")
    BY <1>0, <2>6, WakeTypes
  <2> QED
    BY <2>1, <2>2, <2>3, <2>4, <2>5, <2>6
<1>6. rd' \in [Readers -> Call] /\ eofSeen' \in BOOLEAN
  <2>1. eofSeen \in BOOLEAN /\ rd \in [Readers -> Call]
    BY <1>0 DEF TypeOK
  <2>2. CASE \E r \in Readers, n \in Nat : ReadEmpty(r, n)
    BY <2>1, <2>2, EndOrWaitTypes DEF ReadEmpty
  <2>3. CASE ~\E r \in Readers, n \in Nat : ReadEmpty(r, n)
    <3>1. /\ \/ rd' = rd \/ rd' = Wake(rd, "notify") \/ rd' = Wake(rd, "partition")
             \/ \E r \in Readers : rd' = [rd EXCEPT ![r] = Idle]
          /\ eofSeen' = eofSeen
      BY <2>3 DEF WriteBlocks, WriteRefused, ReadAborted, TimerFires, Tick, Close,
             SetLatency, SetPacketLoss, SetDuplication, PartitionChange, ends
    <3>2. /\ Wake(rd, "notify") \in [Readers -> Call]
          /\ Wake(rd, "partition") \in [Readers -> Call]
      BY <1>0, WakeTypes
    <3>3. ASSUME NEW r \in Readers PROVE [rd EXCEPT ![r] = Idle] \in [Readers -> Call]
      BY <2>1, CallTypes, CallReplaced
    <3> QED
      BY <2>1, <3>1, <3>2, <3>3
  <2> QED
    BY <2>2, <2>3
<1>7. TypeOK'
  BY <1>0, <1>1, <1>2, <1>4, <1>5, <1>6 DEF TypeOK
<1> QED
  BY <1>3, <1>7 DEF StreamInv

(* abort empties the pipe and ends the claim the invariant makes on it.    *)
LEMMA AbortStream == ASSUME StreamInv, Abort PROVE StreamInv'
<1>0. TypeOK /\ InOrder
  BY DEF StreamInv
<1>1. /\ readClosed' = TRUE /\ closed' = TRUE /\ timer' = Off
      /\ pending' = <<>> /\ readable' = <<>> /\ bufBytes' = 0
      /\ rd' = Wake(rd, "notify") /\ wr' = Wake(wr, "notify")
      /\ now' = now /\ busyUntil' = busyUntil /\ eofSeen' = eofSeen
      /\ callbacks' = callbacks /\ faults' = faults /\ partitioned' = partitioned
      /\ trace' = trace /\ log' = log /\ got' = got
  BY DEF Abort, net, hist
<1>2. /\ rd' \in [Readers -> Call] /\ wr' \in [Writers -> Call]
      /\ \A w \in Writers : wr'[w].at # "idle" => wr'[w].len \in WriteSizes
  BY <1>0, <1>1, WakeTypes
<1>3. TypeOK'
  BY <1>0, <1>1, <1>2 DEF TypeOK, Off
<1>4. QueueTilesStream' /\ ExactAccounting' /\ InOrder'
  BY <1>0, <1>1 DEF QueueTilesStream, ExactAccounting, InOrder
<1> QED
  BY <1>3, <1>4 DEF StreamInv

(* Everything in the pipe is in place from the start.                      *)
LEMMA InitStream == Init => StreamInv
<1> SUFFICES ASSUME Init PROVE StreamInv
  OBVIOUS
<1>1. /\ rd \in [Readers -> Call] /\ wr \in [Writers -> Call]
      /\ \A w \in Writers : wr[w].at = "idle"
  BY CallTypes DEF Init
<1>2. faults \in FaultConfig /\ faults.min <= faults.max
  BY FaultAssumption DEF Init
<1>3. /\ readable = <<>> /\ pending = <<>> /\ log = <<>> /\ got = <<>> /\ bufBytes = 0
      /\ Len(log) = 0 /\ Len(got) = 0 /\ Len(readable) = 0
  BY DEF Init
<1>4. TypeOK
  <2>1. /\ now \in Nat /\ bufBytes \in Int /\ callbacks \in Nat /\ busyUntil \in Nat
        /\ timer \in [armed : BOOLEAN, at : Nat]
    BY DEF Init, Off
  <2>2. /\ closed \in BOOLEAN /\ readClosed \in BOOLEAN /\ eofSeen \in BOOLEAN
        /\ partitioned \in BOOLEAN
    BY DEF Init
  <2>3. /\ readable \in Seq(Interval) /\ pending \in Seq(HeldUnit) /\ trace \in Seq(Events)
        /\ log \in Seq(Nat \ {0}) /\ got \in Seq(Nat \ {0})
    BY DEF Init
  <2> QED
    BY <1>1, <1>2, <2>1, <2>2, <2>3 DEF TypeOK
<1>5. DataOf(pending) = <<>> /\ Avail = 0
  BY <1>3 DEF DataOf, Avail, EndOf
<1>6. QueueTilesStream
  BY <1>3, <1>5, TilesEmpty DEF QueueTilesStream
<1>7. ExactAccounting /\ InOrder
  BY <1>3 DEF ExactAccounting, InOrder
<1> QED
  BY <1>4, <1>6, <1>7 DEF StreamInv

(* Every step keeps the stream intact.                                     *)
LEMMA StreamStep == ASSUME StreamInv, [Next]_vars PROVE StreamInv'
<1>0. TypeOK
  BY DEF StreamInv
<1>1. CASE UNCHANGED vars
  <2>1. /\ readable' = readable /\ pending' = pending /\ bufBytes' = bufBytes
        /\ readClosed' = readClosed /\ log' = log /\ got' = got /\ faults' = faults
    BY <1>1 DEF vars, queue, ends, net, hist
  <2>2. TypeOK'
    BY <1>0, <1>1 DEF TypeOK, vars, queue, ends, net, hist
  <2> QED
    BY <2>1, <2>2, QuietStream DEF StreamInv
<1>2. CASE Next
  BY <1>0, <1>2, Steps, AdmitStream, ReadDataStream, ReleaseStream, AbortStream,
     QuietSteps
<1> QED
  BY <1>1, <1>2

(* For every bound, every mix of write and read sizes, and every number of *)
(* readers and writers: the buffer accounting is exact, and the readers    *)
(* get the accepted bytes in order.                                        *)
THEOREM StreamIntact == Spec => []StreamInv
<1>1. StreamInv /\ [Next]_vars => StreamInv'
  BY StreamStep
<1> QED
  BY <1>1, InitStream, PTL DEF Spec
=============================================================================
