---------------------------- MODULE RangesProofs ----------------------------
(***************************************************************************)
(* Facts about the operators of Ranges, for range sets of any length: what *)
(* the walk over a range set is, what a search offers, and what Total      *)
(* counts.  The recursive functions of Ranges are reasoned about with      *)
(* SetInduction, which holds because < is well-founded on Nat.             *)
(***************************************************************************)
EXTENDS Ranges, SequenceTheorems, WellFoundedInduction, TLAPS

-----------------------------------------------------------------------------
(* Induction *)

\* A non-empty set of numbers has a least element.
LEMMA LeastNumber ==
    ASSUME NEW T, T \subseteq Nat, T # {}
    PROVE  \E m \in T : \A k \in T : m <= k
<1> DEFINE R == {ss \in Nat \X Nat : ss[1] < ss[2]}
<1>1. IsWellFoundedOn(R, Nat)
  BY NatLessThanWellFounded, Zenon DEF OpToRel
<1>2. PICK m \in T : \A k \in T : ~(<<k, m>> \in R)
  <2> HIDE DEF R
  <2> QED BY <1>1, WFMin
<1>3. \A k \in T : ~(k < m)
  BY <1>2
<1> QED BY <1>3

\* A set that has 0, and with every number the next one, has all of them.
LEMMA SetInduction ==
    ASSUME NEW S, 0 \in S, \A n \in Nat : n \in S => n + 1 \in S
    PROVE  Nat \subseteq S
<1> SUFFICES ASSUME Nat \ S # {} PROVE FALSE OBVIOUS
<1>1. PICK m \in Nat \ S : \A k \in Nat \ S : m <= k BY LeastNumber
<1>2. m # 0 BY <1>1
<1>3. m - 1 \in Nat /\ m - 1 \in S BY <1>1, <1>2
<1> QED BY <1>1, <1>3

\* The numbers up to n + 1 are those up to n, and n + 1,
LEMMA OneMore ==
    ASSUME NEW n \in Nat
    PROVE  \A i \in 1 .. n + 1 : i \in 1 .. n \/ i = n + 1
  OBVIOUS

\* and an interval that is longer by one has one number more.
LEMMA IntervalGrows ==
    ASSUME NEW a \in Nat, NEW k \in Nat, NEW g \in Nat, a + k # g
    PROVE  g \in a .. a + k - 1 <=> g \in a .. a + (k + 1) - 1
  OBVIOUS

\* One more than a number below a bound.
LEMMA Successor ==
    ASSUME NEW n \in Nat, NEW k \in 0 .. n - 1
    PROVE  k + 1 \in 1 .. n /\ (k + 1) - 1 = k
  OBVIOUS

\* The k-th number of an interval is in it.
LEMMA WithinRange ==
    ASSUME NEW a \in Nat, NEW e \in Nat, NEW k \in 1 .. e - a + 1
    PROVE  a + k - 1 \in a .. e
  OBVIOUS

\* Induction up to a bound.
LEMMA UpTo ==
    ASSUME NEW N \in Nat, NEW S, 0 \in S, \A n \in 0 .. N - 1 : n \in S => n + 1 \in S
    PROVE  0 .. N \subseteq S
<1> DEFINE T == S \cup {n \in Nat : n > N}
<1>1. ASSUME NEW n \in Nat, n \in T PROVE n + 1 \in T BY <1>1
<1>2. 0 \in T OBVIOUS
<1>3. Nat \subseteq T
  <2> HIDE DEF T
  <2> QED BY <1>1, <1>2, SetInduction
<1> QED BY <1>3

-----------------------------------------------------------------------------
(* Going round *)

\* Quotient and remainder.
LEMMA DivMod ==
    ASSUME NEW n \in Nat \ {0}, NEW a \in Int
    PROVE  a % n \in 0 .. n - 1 /\ a = n * (a \div n) + (a % n) /\ a \div n \in Int
OBVIOUS

\* There is only one quotient and remainder.
LEMMA ModUnique ==
    ASSUME NEW n \in Nat \ {0}, NEW q \in Int, NEW r \in 0 .. n - 1, NEW a \in 0 .. 2 * n - 1,
           a = n * q + r
    PROVE  r = IF a < n THEN a ELSE a - n
<1>1. CASE q <= -1
  <2>1. n * q <= -n BY <1>1
  <2> QED BY <2>1
<1>2. CASE q >= 2
  <2>1. n * q >= 2 * n BY <1>2
  <2> QED BY <2>1
<1>3. CASE q = 0 BY <1>3
<1>4. CASE q = 1 BY <1>4
<1> QED BY <1>1, <1>2, <1>3, <1>4

\* The remainder of a number below twice the divisor.
LEMMA ModSmall ==
    ASSUME NEW n \in Nat \ {0}, NEW a \in 0 .. 2 * n - 1
    PROVE  a % n = IF a < n THEN a ELSE a - n
<1>1. a \in Nat OBVIOUS
<1>2. a % n \in 0 .. n - 1 /\ a = n * (a \div n) + (a % n) /\ a \div n \in Int
  BY <1>1, DivMod
<1> DEFINE q == a \div n  r == a % n
<1>3. q \in Int /\ r \in 0 .. n - 1 /\ a = n * q + r BY <1>2
<1> HIDE DEF q, r
<1>4. r = IF a < n THEN a ELSE a - n BY <1>3, ModUnique
<1> QED BY <1>4 DEF r

-----------------------------------------------------------------------------
(* Wrapping around: int64 *)

\* Numbers that differ by a multiple of m have one remainder.
LEMMA SameRemainder ==
    ASSUME NEW m \in Nat \ {0}, NEW r \in 0 .. m - 1, NEW s \in 0 .. m - 1, NEW q \in Int,
           r - s = m * q
    PROVE  r = s
<1>1. CASE q <= -1
  <2>1. m * q <= -m BY <1>1
  <2> QED BY <2>1
<1>2. CASE q >= 1
  <2>1. m * q >= m BY <1>2
  <2> QED BY <2>1
<1>3. CASE q = 0 BY <1>3
<1> QED BY <1>1, <1>2, <1>3

\* In particular, of numbers of any size.
LEMMA ModShift ==
    ASSUME NEW m \in Nat \ {0}, NEW x \in Int, NEW y \in Int, NEW q \in Int, x - y = m * q
    PROVE  x % m = y % m
<1> DEFINE a == x \div m  r == x % m  b == y \div m  s == y % m
<1>1. a \in Int /\ r \in 0 .. m - 1 /\ x = m * a + r BY DivMod
<1>2. b \in Int /\ s \in 0 .. m - 1 /\ y = m * b + s BY DivMod
<1> HIDE DEF a, b, r, s
<1>3. q + b - a \in Int /\ m * (q + b - a) = m * q + m * b - m * a BY <1>1, <1>2
<1>4. m * q \in Int /\ m * a \in Int /\ m * b \in Int BY <1>1, <1>2
<1>5. r - s = m * (q + b - a) BY <1>1, <1>2, <1>3, <1>4
<1>6. r = s BY <1>1, <1>2, <1>3, <1>5, SameRemainder
<1> QED BY <1>6 DEF r, s

\* Int64 gives an int64,
LEMMA Int64Type ==
    ASSUME NEW n \in Int
    PROVE  Int64(n) \in Int64s /\ Int64(n) \in Int
<1> DEFINE m == 2 * Int64Limit
<1>1. m \in Nat \ {0} /\ n + Int64Limit \in Int BY Int64Assumption
<1>2. (n + Int64Limit) % m \in 0 .. m - 1 BY <1>1, DivMod
<1>3. Int64(n) = ((n + Int64Limit) % m) - Int64Limit BY DEF Int64
<1> DEFINE r == (n + Int64Limit) % m
<1> HIDE DEF r
<1> QED BY <1>1, <1>2, <1>3, Int64Assumption DEF Int64s, r

\* a multiple of 2^64 away,
LEMMA Int64Differ ==
    ASSUME NEW n \in Int PROVE \E q \in Int : n - Int64(n) = (2 * Int64Limit) * q
<1> DEFINE m == 2 * Int64Limit  x == n + Int64Limit  r == x % m
<1>1. m \in Nat \ {0} /\ x \in Int BY Int64Assumption
<1> HIDE DEF m, x
<1>2. r \in 0 .. m - 1 /\ x = m * (x \div m) + r /\ x \div m \in Int BY <1>1, DivMod
<1>3. Int64(n) = r - Int64Limit BY DEF Int64, m, x
<1> HIDE DEF r
<1>4. n = x - Int64Limit BY Int64Assumption DEF x
<1>5. n - Int64(n) = x - r BY <1>1, <1>2, <1>3, <1>4, Int64Assumption
<1>6. m * (x \div m) \in Int BY <1>1, <1>2
<1>7. n - Int64(n) = m * (x \div m) BY <1>1, <1>2, <1>5, <1>6
<1> QED BY <1>2, <1>7 DEF m

\* Numbers that differ by a multiple of 2^64 are the same int64.
LEMMA Int64Congruent ==
    ASSUME NEW a \in Int, NEW b \in Int, NEW q \in Int, a - b = (2 * Int64Limit) * q
    PROVE  Int64(a) = Int64(b)
<1> DEFINE m == 2 * Int64Limit
<1>1. m \in Nat \ {0} BY Int64Assumption
<1>2. (a + Int64Limit) - (b + Int64Limit) = m * q
  <2>1. (a + Int64Limit) - (b + Int64Limit) = a - b BY Int64Assumption
  <2> QED BY <2>1
<1> HIDE DEF m
<1> DEFINE x == a + Int64Limit  y == b + Int64Limit
<1>3. x \in Int /\ y \in Int /\ x - y = m * q BY <1>2, Int64Assumption
<1> HIDE DEF x, y
<1>4. x % m = y % m BY <1>1, <1>3, ModShift
<1> QED BY <1>4 DEF Int64, m, x, y

\* An int64 is itself.
LEMMA Int64Same ==
    ASSUME NEW n \in Int64s PROVE Int64(n) = n
<1> DEFINE m == 2 * Int64Limit
<1>1. n \in Int /\ Int64(n) \in Int64s /\ Int64(n) \in Int BY Int64Type, Int64Assumption DEF Int64s
<1>2. PICK q \in Int : n - Int64(n) = m * q BY <1>1, Int64Differ
<1>3. m \in Nat \ {0} /\ n + Int64Limit \in 0 .. m - 1 /\ Int64(n) + Int64Limit \in 0 .. m - 1
  BY <1>1, Int64Assumption DEF Int64s
<1>4. (n + Int64Limit) - (Int64(n) + Int64Limit) = m * q BY <1>1, <1>2, Int64Assumption
<1> HIDE DEF m
<1>5. n + Int64Limit = Int64(n) + Int64Limit BY <1>3, <1>4, SameRemainder
<1> QED BY <1>1, <1>5, Int64Assumption

\* It does not matter whether a sum wraps around once or on the way too.
LEMMA Int64Sum ==
    ASSUME NEW a \in Int, NEW b \in Int
    PROVE  Int64(Int64(a) + b) = Int64(a + b)
<1>1. PICK q \in Int : a - Int64(a) = (2 * Int64Limit) * q BY Int64Differ
<1>2. Int64(a) \in Int BY Int64Type
<1>3. (a + b) - (Int64(a) + b) = (2 * Int64Limit) * q BY <1>1, <1>2
<1>4. Int64(a) + b \in Int /\ a + b \in Int BY <1>2
<1>5. Int64(a + b) = Int64(Int64(a) + b) BY <1>1, <1>3, <1>4, Int64Congruent
<1> QED BY <1>5

-----------------------------------------------------------------------------
(* The recursive functions are what their definitions say *)

\* The partial sums of NewAllocator exist, and Total is the last of them.
LEMMA TotalDef ==
    ASSUME NEW rs, Len(rs) \in Nat
    PROVE  \E sum : /\ sum = [i \in 0 .. Len(rs) |->
                                 IF i = 0 THEN 0 ELSE Int64(sum[i - 1] + CountIP(rs[i]))]
                    /\ Total(rs) = sum[Len(rs)]
<1> DEFINE IsSum(k, f) ==
               f = [i \in 0 .. k |-> IF i = 0 THEN 0 ELSE Int64(f[i - 1] + CountIP(rs[i]))]
           S == {k \in Nat : \E f : IsSum(k, f)}
<1>1. 0 \in S
  <2>1. IsSum(0, [i \in 0 .. 0 |-> 0]) OBVIOUS
  <2> QED BY <2>1
<1>2. ASSUME NEW k \in Nat, k \in S PROVE k + 1 \in S
  <2>1. PICK f : IsSum(k, f) BY <1>2
  <2> DEFINE g == [i \in 0 .. k + 1 |->
                      IF i = k + 1 THEN Int64(f[k] + CountIP(rs[k + 1])) ELSE f[i]]
  <2>2. IsSum(k + 1, g) BY <2>1
  <2>3. \E h : IsSum(k + 1, h) BY <2>2
  <2> HIDE DEF IsSum
  <2> QED BY <2>3
<1>3. Len(rs) \in S
  <2> HIDE DEF S
  <2> QED BY <1>1, <1>2, SetInduction
<1>4. \E f : IsSum(Len(rs), f) BY <1>3
<1> DEFINE sum == CHOOSE f : IsSum(Len(rs), f)
<1>5. IsSum(Len(rs), sum) BY <1>4
<1>6. Total(rs) = sum[Len(rs)] BY DEF Total
<1> HIDE DEF sum
<1> QED BY <1>5, <1>6

\* The searches of every number of steps exist.
LEMMA OfferedDef ==
    ASSUME NEW walk, Len(walk) \in Nat, NEW position
    PROVE  Offered(walk, position) =
               [k \in 0 .. Len(walk) |->
                  IF k = 0 THEN <<>>
                  ELSE LET e == walk[((position + k - 1) % Len(walk)) + 1]
                       IN  IF e.ip = e.gw
                           THEN Offered(walk, position)[k - 1]
                           ELSE Append(Offered(walk, position)[k - 1], e.ip)]
<1> DEFINE e(k) == walk[((position + k - 1) % Len(walk)) + 1]
           Step(k, s) == IF e(k).ip = e(k).gw THEN s ELSE Append(s, e(k).ip)
           IsOffered(n, f) ==
               f = [k \in 0 .. n |-> IF k = 0 THEN <<>> ELSE Step(k, f[k - 1])]
           S == {n \in Nat : \E f : IsOffered(n, f)}
<1>1. 0 \in S
  <2>1. IsOffered(0, [k \in 0 .. 0 |-> <<>>]) OBVIOUS
  <2> QED BY <2>1
<1>2. ASSUME NEW n \in Nat, n \in S PROVE n + 1 \in S
  <2> HIDE DEF Step
  <2>1. PICK f : IsOffered(n, f) BY <1>2
  <2> DEFINE g == [k \in 0 .. n + 1 |-> IF k = n + 1 THEN Step(n + 1, f[n]) ELSE f[k]]
  <2>2. IsOffered(n + 1, g) BY <2>1
  <2>3. \E h : IsOffered(n + 1, h) BY <2>2
  <2> HIDE DEF IsOffered
  <2> QED BY <2>3
<1>3. Len(walk) \in S
  <2> HIDE DEF S
  <2> QED BY <1>1, <1>2, SetInduction
<1>4. \E f : IsOffered(Len(walk), f) BY <1>3
<1>5. Offered(walk, position) = CHOOSE f : IsOffered(Len(walk), f) BY DEF Offered
<1>6. IsOffered(Len(walk), Offered(walk, position))
  <2> HIDE DEF IsOffered
  <2> QED BY <1>4, <1>5
<1> QED BY <1>6

-----------------------------------------------------------------------------
(* The walk *)

Size(r) == r.end - r.start + 1

WalkEntry(r, k) == [ip |-> r.start + k - 1, gw |-> r.gw]

Block(r) == [k \in 1 .. Size(r) |-> WalkEntry(r, k)]

WalkEntries == [ip : Nat, gw : Nat \cup {None}]

\* The walk over the first i ranges.
LEMMA WalkDef ==
    ASSUME NEW rs, IsRangeSet(rs)
    PROVE  \E flat : /\ flat = [i \in 1 .. Len(rs) |->
                                  IF i = 1 THEN Block(rs[i]) ELSE flat[i - 1] \o Block(rs[i])]
                     /\ Walk(rs) = flat[Len(rs)]
<1> DEFINE B == [i \in DOMAIN rs |-> Block(rs[i])]
           Join(i, s) == s \o B[i]
           IsFlat(n, f) ==
               f = [i \in 1 .. n |-> IF i = 1 THEN B[i] ELSE Join(i, f[i - 1])]
           S == {n \in Nat : \E f : IsFlat(n, f)}
<1>0. /\ Len(rs) \in Nat /\ Len(rs) # 0 /\ DOMAIN rs = 1 .. Len(rs)
      /\ DOMAIN B = 1 .. Len(rs) /\ Len(B) = Len(rs)
  BY DEF IsRangeSet
<1> HIDE DEF B
<1>1. 0 \in S
  <2>1. IsFlat(0, [i \in 1 .. 0 |-> <<>>]) OBVIOUS
  <2> QED BY <2>1
<1>2. ASSUME NEW n \in Nat, n \in S PROVE n + 1 \in S
  <2> HIDE DEF Join
  <2>1. PICK f : IsFlat(n, f) BY <1>2
  <2> DEFINE g == [i \in 1 .. n + 1 |->
                      IF i = 1 THEN B[1] ELSE IF i = n + 1 THEN Join(i, f[n]) ELSE f[i]]
             h == [i \in 1 .. n + 1 |-> IF i = 1 THEN B[i] ELSE Join(i, g[i - 1])]
  <2>a. ASSUME NEW i \in 1 .. n + 1 PROVE g[i] = h[i]
    <3>1. CASE i = 1 BY <3>1
    <3>2. CASE i # 1 /\ i - 1 = n BY <2>1, <3>2
    <3>3. CASE i # 1 /\ i - 1 # n
      <4>1. i \in 1 .. n /\ i - 1 \in 1 .. n /\ i - 1 # n + 1 BY <3>3
      <4>2. f[i] = Join(i, f[i - 1]) BY <2>1, <3>3, <4>1
      <4>3. g[i - 1] = f[i - 1]
        <5>1. CASE i - 1 = 1 BY <2>1, <4>1, <5>1
        <5>2. CASE i - 1 # 1 BY <4>1, <5>2
        <5> QED BY <5>1, <5>2
      <4> QED BY <3>3, <4>1, <4>2, <4>3
    <3> QED BY <3>1, <3>2, <3>3
  <2>2. IsFlat(n + 1, g) BY <2>a
  <2>3. \E ff : IsFlat(n + 1, ff) BY <2>2
  <2> HIDE DEF IsFlat
  <2> QED BY <2>3
<1>3. Len(rs) \in S
  <2> HIDE DEF S
  <2> QED BY <1>0, <1>1, <1>2, SetInduction
<1>4. \E f : IsFlat(Len(rs), f) BY <1>3
<1> DEFINE flat == CHOOSE f : IsFlat(Len(rs), f)
<1>5. IsFlat(Len(rs), flat) BY <1>4
<1>6. Walk(rs) = FlattenSeq(B)
  BY DEF Walk, B, Block, Size, WalkEntry
<1>7. FlattenSeq(B) = flat[Len(rs)]
  BY <1>0 DEF FlattenSeq
<1>8. flat = [i \in 1 .. Len(rs) |->
                IF i = 1 THEN Block(rs[i]) ELSE flat[i - 1] \o Block(rs[i])]
  <2> HIDE DEF flat
  <2> QED BY <1>0, <1>5 DEF B
<1> HIDE DEF flat
<1> QED BY <1>6, <1>7, <1>8

\* A range set is a non-empty sequence.
LEMMA RangeSetLen ==
    ASSUME NEW rs, IsRangeSet(rs)
    PROVE  Len(rs) \in Nat \ {0} /\ DOMAIN rs = 1 .. Len(rs)
BY DEF IsRangeSet

\* A range has at least one address, and its block is a sequence of entries.
LEMMA BlockFacts ==
    ASSUME NEW rs, IsRangeSet(rs), NEW i \in DOMAIN rs
    PROVE  /\ Size(rs[i]) \in Nat \ {0}
           /\ rs[i].start \in Nat /\ rs[i].end \in Nat /\ rs[i].gw \in Nat \cup {None}
           /\ rs[i].lo \in Nat /\ rs[i].hi \in Nat
           /\ Block(rs[i]) \in Seq(WalkEntries)
           /\ Len(Block(rs[i])) = Size(rs[i])
           /\ \A k \in 1 .. Size(rs[i]) : Block(rs[i])[k] = WalkEntry(rs[i], k)
<1>1. /\ rs[i] \in [lo : Nat, hi : Nat, start : Nat, end : Nat, gw : Nat \cup {None}]
      /\ rs[i].start <= rs[i].end
  <2> DEFINE R == [lo : Nat, hi : Nat, start : Nat, end : Nat, gw : Nat \cup {None}]
  <2>1. rs \in Seq(R) /\ rs[i].start <= rs[i].end BY DEF IsRangeSet
  <2> HIDE DEF R
  <2>2. rs[i] \in R BY <2>1
  <2> QED BY <2>1, <2>2 DEF R
<1>2. /\ rs[i].start \in Nat /\ rs[i].end \in Nat /\ rs[i].gw \in Nat \cup {None}
      /\ rs[i].lo \in Nat /\ rs[i].hi \in Nat
  BY <1>1
<1>3. Size(rs[i]) \in Nat \ {0} BY <1>1, <1>2 DEF Size
<1>4. \A k \in 1 .. Size(rs[i]) : WalkEntry(rs[i], k) \in WalkEntries
  BY <1>2, <1>3 DEF WalkEntry, WalkEntries
<1>5. Block(rs[i]) \in [1 .. Size(rs[i]) -> WalkEntries] BY <1>4 DEF Block
<1>6. Block(rs[i]) \in Seq(WalkEntries) /\ Len(Block(rs[i])) = Size(rs[i])
  BY <1>3, <1>5
<1>7. \A k \in 1 .. Size(rs[i]) : Block(rs[i])[k] = WalkEntry(rs[i], k) BY DEF Block
<1> QED BY <1>2, <1>3, <1>6, <1>7

\* b[i] addresses of the walk come before those of range i.
Offsets(rs, b) ==
    /\ b \in [1 .. Len(rs) + 1 -> Nat]
    /\ b[1] = 0
    /\ \A i \in 1 .. Len(rs) : b[i + 1] = b[i] + Size(rs[i])
    /\ Walk(rs) \in Seq(WalkEntries)
    /\ Len(Walk(rs)) = b[Len(rs) + 1]
    /\ \A i \in 1 .. Len(rs) : \A k \in 1 .. Size(rs[i]) :
          b[i] + k \in 1 .. Len(Walk(rs)) /\ Walk(rs)[b[i] + k] = WalkEntry(rs[i], k)
    /\ \A p \in 1 .. Len(Walk(rs)) :
          \E i \in 1 .. Len(rs) : \E k \in 1 .. Size(rs[i]) : p = b[i] + k

\* The walk is the blocks of the ranges, one after the other.
LEMMA WalkOffsets ==
    ASSUME NEW rs, IsRangeSet(rs)
    PROVE  \E b : Offsets(rs, b)
<1>0. Len(rs) \in Nat /\ Len(rs) # 0 /\ DOMAIN rs = 1 .. Len(rs) BY DEF IsRangeSet
<1>1. PICK flat : /\ flat = [i \in 1 .. Len(rs) |->
                               IF i = 1 THEN Block(rs[i]) ELSE flat[i - 1] \o Block(rs[i])]
                  /\ Walk(rs) = flat[Len(rs)]
  BY WalkDef
<1> DEFINE b == [i \in 1 .. Len(rs) + 1 |-> IF i = 1 THEN 0 ELSE Len(flat[i - 1])]
           Good(m) ==
               /\ flat[m] \in Seq(WalkEntries)
               /\ b[m + 1] = b[m] + Size(rs[m])
               /\ \A i \in 1 .. m : \A k \in 1 .. Size(rs[i]) :
                     b[i] + k \in 1 .. Len(flat[m]) /\ flat[m][b[i] + k] = WalkEntry(rs[i], k)
               /\ \A p \in 1 .. Len(flat[m]) :
                     \E i \in 1 .. m : \E k \in 1 .. Size(rs[i]) : p = b[i] + k
           S == {m \in Nat : m = 0 \/ Good(m)}
<1>2. ASSUME NEW m \in 0 .. Len(rs) - 1, m \in S PROVE m + 1 \in S
  <2> DEFINE B == Block(rs[m + 1])
  <2>0. m + 1 \in 1 .. Len(rs) /\ m + 1 \in DOMAIN rs BY <1>0
  <2>1. /\ B \in Seq(WalkEntries) /\ Len(B) = Size(rs[m + 1]) /\ Size(rs[m + 1]) \in Nat
        /\ \A k \in 1 .. Size(rs[m + 1]) : B[k] = WalkEntry(rs[m + 1], k)
    BY <2>0, BlockFacts
  <2>2. b[m + 2] = Len(flat[m + 1]) BY <1>0, <2>0
  <2> HIDE DEF B
  <2>3. CASE m = 0
    <3>1. flat[1] = B BY <1>1, <2>0, <2>3 DEF B
    <3>2. b[1] = 0 BY <1>0
    <3>3. \A i \in 1 .. m + 1 : i = 1 BY <2>3
    <3>4. \A p \in 1 .. Len(flat[1]) : 1 \in 1 .. 1 /\ p \in 1 .. Size(rs[1]) /\ p = b[1] + p
      BY <2>1, <2>3, <3>1, <3>2
    <3>5. \A p \in 1 .. Len(flat[1]) :
             \E i \in 1 .. 1 : \E k \in 1 .. Size(rs[i]) : p = b[i] + k
      <4> HIDE DEF b
      <4> QED BY <3>4
    <3>6. Good(1)
      <4> HIDE DEF b
      <4> QED BY <2>1, <2>2, <2>3, <3>1, <3>2, <3>5
    <3> QED
      <4> HIDE DEF Good
      <4> QED BY <2>3, <3>6
  <2>4. CASE m # 0
    <3>1. Good(m) /\ m \in 1 .. Len(rs)
      <4> HIDE DEF Good
      <4> QED BY <1>2, <2>4
    <3>2. flat[m + 1] = flat[m] \o B
      <4>1. m + 1 # 1 /\ (m + 1) - 1 = m BY <2>4
      <4> QED BY <1>1, <2>0, <4>1 DEF B
    <3>3. b[m + 1] = Len(flat[m]) BY <2>0, <2>4
    <3>a. \A i \in 1 .. m : b[i] \in Nat
      <4>1. b[1] = 0 BY <1>0
      <4> QED BY <3>1, <2>0
    <3>4. /\ flat[m + 1] \in Seq(WalkEntries)
          /\ Len(flat[m]) \in Nat
          /\ Len(flat[m + 1]) = Len(flat[m]) + Len(B)
          /\ \A j \in 1 .. Len(flat[m]) + Len(B) : flat[m + 1][j] =
                IF j <= Len(flat[m]) THEN flat[m][j] ELSE B[j - Len(flat[m])]
      <4>1. flat[m] \in Seq(WalkEntries) /\ B \in Seq(WalkEntries) BY <2>1, <3>1
      <4>2. Len(flat[m]) \in Nat BY <4>1
      <4>3. /\ flat[m] \o B \in Seq(WalkEntries)
            /\ Len(flat[m] \o B) = Len(flat[m]) + Len(B)
            /\ \A j \in 1 .. Len(flat[m]) + Len(B) : (flat[m] \o B)[j] =
                  IF j <= Len(flat[m]) THEN flat[m][j] ELSE B[j - Len(flat[m])]
        <5> HIDE DEF Good, S, b
        <5> QED BY <4>1, ConcatProperties
      <4> QED BY <3>2, <4>2, <4>3
    <3>5. Good(m + 1)
      <4> HIDE DEF b
      <4>1. b[m + 2] = b[m + 1] + Size(rs[m + 1]) BY <2>1, <2>2, <3>3, <3>4
      <4>2. ASSUME NEW i \in 1 .. m + 1, NEW k \in 1 .. Size(rs[i])
            PROVE  /\ b[i] + k \in 1 .. Len(flat[m + 1])
                   /\ flat[m + 1][b[i] + k] = WalkEntry(rs[i], k)
        <5>1. CASE i = m + 1
          <6>1. k \in 1 .. Size(rs[m + 1]) /\ b[i] + k = Len(flat[m]) + k BY <3>3, <5>1
          <6>2. /\ Len(flat[m]) + k \in 1 .. Len(flat[m + 1])
                /\ flat[m + 1][Len(flat[m]) + k] = B[k]
            <7>1. /\ Len(flat[m]) + k \in 1 .. Len(flat[m]) + Len(B)
                  /\ ~(Len(flat[m]) + k <= Len(flat[m]))
                  /\ (Len(flat[m]) + k) - Len(flat[m]) = k
              BY <2>1, <3>4, <6>1
            <7> QED BY <3>4, <7>1
          <6> QED BY <2>1, <5>1, <6>1, <6>2
        <5>2. CASE i # m + 1
          <6>1. i \in 1 .. m BY <5>2
          <6>2. b[i] + k \in 1 .. Len(flat[m]) /\ flat[m][b[i] + k] = WalkEntry(rs[i], k)
            BY <3>1, <6>1
          <6>3. b[i] + k \in 1 .. Len(flat[m + 1])
            <7> DEFINE x == b[i] + k
            <7> HIDE DEF x
            <7>1. x \in 1 .. Len(flat[m]) BY <6>2 DEF x
            <7>2. x \in 1 .. Len(flat[m + 1]) BY <2>1, <3>4, <7>1
            <7> QED BY <7>2 DEF x
          <6>4. flat[m + 1][b[i] + k] = flat[m][b[i] + k]
            <7> DEFINE x == b[i] + k
            <7> HIDE DEF x
            <7>1. x \in 1 .. Len(flat[m]) BY <6>2 DEF x
            <7>2. x \in 1 .. Len(flat[m]) + Len(B) /\ x <= Len(flat[m]) BY <2>1, <3>4, <7>1
            <7>3. flat[m + 1][x] = flat[m][x] BY <3>4, <7>2
            <7> QED BY <7>3 DEF x
          <6> QED BY <6>2, <6>3, <6>4
        <5> QED BY <5>1, <5>2
      <4>3. ASSUME NEW p \in 1 .. Len(flat[m + 1])
            PROVE  \E i \in 1 .. m + 1 : \E k \in 1 .. Size(rs[i]) : p = b[i] + k
        <5>1. CASE p <= Len(flat[m])
          <6>1. p \in 1 .. Len(flat[m]) BY <3>4, <5>1
          <6>2. PICK i \in 1 .. m : \E k \in 1 .. Size(rs[i]) : p = b[i] + k BY <3>1, <6>1
          <6>3. i \in 1 .. m + 1 OBVIOUS
          <6> QED BY <6>2, <6>3
        <5>2. CASE ~(p <= Len(flat[m]))
          <6>1. p - Len(flat[m]) \in 1 .. Size(rs[m + 1]) /\ p = b[m + 1] + (p - Len(flat[m]))
            BY <2>1, <3>3, <3>4, <5>2
          <6> QED BY <6>1
        <5> QED BY <5>1, <5>2
      <4>4. m + 1 + 1 = m + 2 OBVIOUS
      <4> QED BY <3>4, <4>1, <4>2, <4>3, <4>4
    <3> QED
      <4> HIDE DEF Good
      <4> QED BY <3>5
  <2> QED BY <2>3, <2>4
<1>3. 0 .. Len(rs) \subseteq S
  <2>1. 0 \in S OBVIOUS
  <2> HIDE DEF S
  <2> QED BY <1>0, <1>2, <2>1, UpTo
<1>4. \A m \in 1 .. Len(rs) : Good(m)
  <2> HIDE DEF Good
  <2> QED BY <1>3
<1>5. b \in [1 .. Len(rs) + 1 -> Nat]
  <2>1. ASSUME NEW i \in 1 .. Len(rs) + 1, i # 1 PROVE Len(flat[i - 1]) \in Nat
    <3>1. i - 1 \in 1 .. Len(rs) BY <1>0, <2>1
    <3>2. flat[i - 1] \in Seq(WalkEntries) BY <1>4, <3>1
    <3> QED BY <3>2
  <2> QED BY <2>1
<1>6. b[1] = 0 /\ Len(Walk(rs)) = b[Len(rs) + 1]
  <2>1. Len(rs) + 1 \in 1 .. Len(rs) + 1 /\ Len(rs) + 1 # 1 /\ (Len(rs) + 1) - 1 = Len(rs)
    BY <1>0
  <2>2. Walk(rs) = flat[Len(rs)] BY <1>1
  <2> QED BY <1>0, <2>1, <2>2
<1> HIDE DEF b
<1>7. Len(rs) \in 1 .. Len(rs) BY <1>0
<1>8. Offsets(rs, b)
  <2>1. Good(Len(rs)) BY <1>4, <1>7
  <2>2. Walk(rs) = flat[Len(rs)] BY <1>1
  <2> QED BY <1>4, <1>5, <1>6, <2>1, <2>2 DEF Offsets
<1> QED BY <1>8

\* The walk of a range set has an entry, and starts with the first range.
LEMMA WalkType ==
    ASSUME NEW rs, IsRangeSet(rs)
    PROVE  /\ Walk(rs) \in Seq(WalkEntries)
           /\ Len(Walk(rs)) \in Nat \ {0}
           /\ Walk(rs)[1] = [ip |-> rs[1].start, gw |-> rs[1].gw]
<1>1. PICK b : Offsets(rs, b) BY WalkOffsets
<1>2. Len(rs) \in Nat /\ 1 \in 1 .. Len(rs) /\ 1 \in DOMAIN rs BY DEF IsRangeSet
<1>3. Size(rs[1]) \in Nat \ {0} /\ rs[1].start \in Nat BY <1>2, BlockFacts
<1>4. 1 \in 1 .. Size(rs[1]) BY <1>3
<1>5. b[1] + 1 \in 1 .. Len(Walk(rs)) /\ Walk(rs)[b[1] + 1] = WalkEntry(rs[1], 1) /\ b[1] = 0
  BY <1>1, <1>2, <1>4 DEF Offsets
<1>6. Walk(rs) \in Seq(WalkEntries) BY <1>1 DEF Offsets
<1>7. WalkEntry(rs[1], 1) = [ip |-> rs[1].start, gw |-> rs[1].gw] BY <1>3 DEF WalkEntry
<1> QED BY <1>5, <1>6, <1>7

\* Every address of every range is met, with the gateway of its range.
LEMMA WalkCovers ==
    ASSUME NEW rs, IsRangeSet(rs), NEW i \in DOMAIN rs, NEW ip \in rs[i].start .. rs[i].end
    PROVE  \E p \in 1 .. Len(Walk(rs)) : Walk(rs)[p] = [ip |-> ip, gw |-> rs[i].gw]
<1>1. PICK b : Offsets(rs, b) BY WalkOffsets
<1>2. i \in 1 .. Len(rs) BY DEF IsRangeSet
<1>3. rs[i].start \in Nat /\ rs[i].end \in Nat BY BlockFacts
<1> DEFINE k == ip - rs[i].start + 1
<1>4. k \in 1 .. Size(rs[i]) /\ rs[i].start + k - 1 = ip BY <1>3 DEF Size
<1> HIDE DEF k
<1>5. b[i] + k \in 1 .. Len(Walk(rs)) /\ Walk(rs)[b[i] + k] = WalkEntry(rs[i], k)
  BY <1>1, <1>2, <1>4 DEF Offsets
<1> QED BY <1>4, <1>5 DEF WalkEntry

\* Nothing else is met.
LEMMA WalkInRange ==
    ASSUME NEW rs, IsRangeSet(rs), NEW p \in 1 .. Len(Walk(rs))
    PROVE  \E i \in DOMAIN rs : /\ Walk(rs)[p].ip \in rs[i].start .. rs[i].end
                                /\ Walk(rs)[p].gw = rs[i].gw
<1>1. PICK b : Offsets(rs, b) BY WalkOffsets
<1>2. PICK i \in 1 .. Len(rs) : \E k \in 1 .. Size(rs[i]) : p = b[i] + k
  BY <1>1 DEF Offsets
<1>3. PICK k \in 1 .. Size(rs[i]) : p = b[i] + k BY <1>2
<1>4. Walk(rs)[p] = WalkEntry(rs[i], k) BY <1>1, <1>3 DEF Offsets
<1>5. i \in DOMAIN rs BY DEF IsRangeSet
<1>6. rs[i].start \in Nat /\ rs[i].end \in Nat BY <1>5, BlockFacts
<1>7. Walk(rs)[p].ip = rs[i].start + k - 1 /\ Walk(rs)[p].gw = rs[i].gw
  BY <1>4 DEF WalkEntry
<1> QED BY <1>5, <1>6, <1>7 DEF Size

\* No address is in two ranges of a range set that checkRange accepts.
LEMMA RangesDisjoint ==
    ASSUME NEW rs, IsRangeSet(rs), SelfDisjoint(rs),
           NEW i \in DOMAIN rs, NEW j \in DOMAIN rs, NEW ip,
           ip \in rs[i].start .. rs[i].end, ip \in rs[j].start .. rs[j].end
    PROVE  i = j
<1>1. ASSUME NEW x \in DOMAIN rs, NEW y \in DOMAIN rs, x < y,
             ip \in rs[x].start .. rs[x].end, ip \in rs[y].start .. rs[y].end
      PROVE  FALSE
  <2>1. ~Overlaps(rs[x], rs[y]) BY <1>1 DEF SelfDisjoint
  <2>2. /\ rs[x].start \in Nat /\ rs[x].end \in Nat /\ rs[x].lo \in Nat /\ rs[x].hi \in Nat
        /\ rs[y].start \in Nat /\ rs[y].end \in Nat /\ rs[y].lo \in Nat /\ rs[y].hi \in Nat
    BY BlockFacts
  <2>3. /\ rs[x].lo <= rs[x].start /\ rs[x].end <= rs[x].hi
        /\ rs[y].lo <= rs[y].start /\ rs[y].end <= rs[y].hi
    BY DEF IsRangeSet
  <2>4. CASE rs[x].start <= rs[y].start
    <3>1. rs[y].start \in rs[x].lo .. rs[x].hi /\ rs[y].start \in rs[x].start .. rs[x].end
      BY <1>1, <2>2, <2>3, <2>4
    <3>2. RangeContains(rs[x], rs[y].start) BY <2>2, <3>1, NoneAssumption DEF RangeContains
    <3> QED BY <2>1, <3>2 DEF Overlaps
  <2>5. CASE rs[y].start <= rs[x].start
    <3>1. rs[x].start \in rs[y].lo .. rs[y].hi /\ rs[x].start \in rs[y].start .. rs[y].end
      BY <1>1, <2>2, <2>3, <2>5
    <3>2. RangeContains(rs[y], rs[x].start) BY <2>2, <3>1, NoneAssumption DEF RangeContains
    <3> QED BY <2>1, <3>2 DEF Overlaps
  <2> QED BY <2>2, <2>4, <2>5
<1>2. i \in Nat /\ j \in Nat BY RangeSetLen
<1>3. i < j \/ j < i \/ i = j BY <1>2
<1> QED BY <1>1, <1>3

\* The offsets grow.
LEMMA OffsetsGrow ==
    ASSUME NEW rs, IsRangeSet(rs), NEW b, Offsets(rs, b),
           NEW i \in 1 .. Len(rs), NEW j \in 1 .. Len(rs), i < j
    PROVE  b[i] + Size(rs[i]) <= b[j]
<1>1. Len(rs) \in Nat /\ DOMAIN rs = 1 .. Len(rs) BY DEF IsRangeSet
<1> DEFINE S == {m \in Nat : m = 0 \/ \A x \in 1 .. m - 1 : b[x] + Size(rs[x]) <= b[m]}
<1>2. ASSUME NEW m \in 0 .. Len(rs) - 1, m \in S PROVE m + 1 \in S
  <2>1. ASSUME NEW x \in 1 .. m PROVE b[x] + Size(rs[x]) <= b[m + 1]
    <3>1. m \in 1 .. Len(rs) /\ x \in 1 .. Len(rs) /\ m # 0 BY <1>1
    <3>2. b[m + 1] = b[m] + Size(rs[m]) /\ b[m] \in Nat /\ b[x] \in Nat
      <4>1. m \in 1 .. Len(rs) + 1 /\ x \in 1 .. Len(rs) + 1 BY <1>1
      <4>2. b \in [1 .. Len(rs) + 1 -> Nat] /\ b[m + 1] = b[m] + Size(rs[m])
        BY <3>1 DEF Offsets
      <4> QED BY <4>1, <4>2
    <3>3. Size(rs[m]) \in Nat /\ Size(rs[x]) \in Nat BY <1>1, <3>1, BlockFacts
    <3>4. CASE x = m BY <3>2, <3>3, <3>4
    <3>5. CASE x # m
      <4>1. x \in 1 .. m - 1 BY <3>5
      <4>2. b[x] + Size(rs[x]) <= b[m] BY <1>2, <3>1, <4>1
      <4> QED BY <3>2, <3>3, <4>2
    <3> QED BY <3>4, <3>5
  <2>2. (m + 1) - 1 = m /\ m + 1 \in Nat OBVIOUS
  <2> QED BY <2>1, <2>2
<1>3. 0 .. Len(rs) \subseteq S
  <2>1. 0 \in S OBVIOUS
  <2> HIDE DEF S
  <2> QED BY <1>1, <1>2, <2>1, UpTo
<1>4. j \in S /\ j # 0 /\ i \in 1 .. j - 1 BY <1>1, <1>3
<1> QED BY <1>4

\* The walk over disjoint ranges meets no address twice.
LEMMA WalkInjective ==
    ASSUME NEW rs, IsRangeSet(rs), SelfDisjoint(rs),
           NEW p \in 1 .. Len(Walk(rs)), NEW q \in 1 .. Len(Walk(rs)),
           Walk(rs)[p].ip = Walk(rs)[q].ip
    PROVE  p = q
<1>1. PICK b : Offsets(rs, b) BY WalkOffsets
<1>2. ASSUME NEW x \in 1 .. Len(Walk(rs))
      PROVE  \E i \in DOMAIN rs : \E k \in 1 .. Size(rs[i]) :
               /\ x = b[i] + k
               /\ Walk(rs)[x].ip = rs[i].start + k - 1
               /\ Walk(rs)[x].ip \in rs[i].start .. rs[i].end
  <2>1. PICK i \in 1 .. Len(rs) : \E k \in 1 .. Size(rs[i]) : x = b[i] + k
    BY <1>1 DEF Offsets
  <2>2. PICK k \in 1 .. Size(rs[i]) : x = b[i] + k BY <2>1
  <2>3. Walk(rs)[x] = WalkEntry(rs[i], k) BY <1>1, <2>2 DEF Offsets
  <2>4. i \in DOMAIN rs BY DEF IsRangeSet
  <2>5. rs[i].start \in Nat /\ rs[i].end \in Nat BY <2>4, BlockFacts
  <2>6. Walk(rs)[x].ip = rs[i].start + k - 1 BY <2>3 DEF WalkEntry
  <2>7. rs[i].start + k - 1 \in rs[i].start .. rs[i].end BY <2>5, WithinRange DEF Size
  <2>8. /\ x = b[i] + k
        /\ Walk(rs)[x].ip = rs[i].start + k - 1
        /\ Walk(rs)[x].ip \in rs[i].start .. rs[i].end
    BY <2>2, <2>6, <2>7
  <2> QED BY <2>4, <2>8
<1>3. PICK i \in DOMAIN rs : \E k \in 1 .. Size(rs[i]) :
               /\ p = b[i] + k
               /\ Walk(rs)[p].ip = rs[i].start + k - 1
               /\ Walk(rs)[p].ip \in rs[i].start .. rs[i].end
  BY <1>2
<1>4. PICK j \in DOMAIN rs : \E k \in 1 .. Size(rs[j]) :
               /\ q = b[j] + k
               /\ Walk(rs)[q].ip = rs[j].start + k - 1
               /\ Walk(rs)[q].ip \in rs[j].start .. rs[j].end
  BY <1>2
<1>5. i = j BY <1>3, <1>4, RangesDisjoint
<1>6. rs[i].start \in Nat /\ Size(rs[i]) \in Nat BY BlockFacts
<1>7. PICK k \in 1 .. Size(rs[i]) : p = b[i] + k /\ Walk(rs)[p].ip = rs[i].start + k - 1
  BY <1>3
<1>8. PICK l \in 1 .. Size(rs[i]) : q = b[i] + l /\ Walk(rs)[q].ip = rs[i].start + l - 1
  BY <1>4, <1>5
<1>9. k = l
  <2>1. rs[i].start + k - 1 = rs[i].start + l - 1 BY <1>7, <1>8
  <2>2. k \in Nat /\ l \in Nat BY <1>6
  <2> QED BY <1>6, <2>1, <2>2
<1> QED BY <1>7, <1>8, <1>9

\* Where Next goes from an address of range i.
NextRange(rs, i, ip) == IF ip = rs[i].end THEN (i % Len(rs)) + 1 ELSE i
NextIP(rs, i, ip)    == IF ip = rs[i].end THEN rs[NextRange(rs, i, ip)].start ELSE ip + 1

\* The next entry of the walk is the next address of the range, or the start
\* of the next range; after the last range comes the first.
LEMMA WalkNext ==
    ASSUME NEW rs, IsRangeSet(rs), SelfDisjoint(rs),
           NEW i \in DOMAIN rs, NEW ip \in rs[i].start .. rs[i].end,
           NEW p \in 1 .. Len(Walk(rs)), Walk(rs)[p].ip = ip
    PROVE  /\ (p % Len(Walk(rs))) + 1 \in 1 .. Len(Walk(rs))
           /\ NextRange(rs, i, ip) \in DOMAIN rs
           /\ NextIP(rs, i, ip) \in rs[NextRange(rs, i, ip)].start .. rs[NextRange(rs, i, ip)].end
           /\ Walk(rs)[(p % Len(Walk(rs))) + 1] =
                 [ip |-> NextIP(rs, i, ip), gw |-> rs[NextRange(rs, i, ip)].gw]
<1>1. PICK b : Offsets(rs, b) BY WalkOffsets
<1>2. /\ Len(rs) \in Nat \ {0} /\ DOMAIN rs = 1 .. Len(rs) /\ i \in 1 .. Len(rs)
      /\ b[i] \in Nat
  <2>1. Len(rs) \in Nat \ {0} /\ DOMAIN rs = 1 .. Len(rs) /\ i \in 1 .. Len(rs) BY RangeSetLen
  <2>2. i \in 1 .. Len(rs) + 1 BY <2>1
  <2> QED BY <1>1, <2>1, <2>2 DEF Offsets
<1>3. /\ rs[i].start \in Nat /\ rs[i].end \in Nat /\ Size(rs[i]) \in Nat \ {0}
  BY BlockFacts
<1> DEFINE k == ip - rs[i].start + 1
           n == Len(Walk(rs))
<1>a. n \in Nat \ {0} BY WalkType
<1>4. k \in 1 .. Size(rs[i]) /\ rs[i].start + k - 1 = ip BY <1>3 DEF Size
<1>5. p = b[i] + k
  <2>1. b[i] + k \in 1 .. n /\ Walk(rs)[b[i] + k] = WalkEntry(rs[i], k)
    <3> HIDE DEF k
    <3> QED BY <1>1, <1>2, <1>4 DEF Offsets
  <2>2. Walk(rs)[b[i] + k].ip = ip
    <3> HIDE DEF k
    <3> QED BY <1>4, <2>1 DEF WalkEntry
  <2> HIDE DEF k
  <2> QED BY <2>1, <2>2, WalkInjective
<1>6. p % n = IF p < n THEN p ELSE 0
  <2>1. p \in 0 .. 2 * n - 1 BY <1>a
  <2>2. p <= n /\ n \in Nat BY <1>a
  <2> HIDE DEF n
  <2>3. p % n = IF p < n THEN p ELSE p - n BY <1>a, <2>1, ModSmall, Zenon
  <2> DEFINE m == p % n
  <2> HIDE DEF m
  <2>4. m = IF p < n THEN p ELSE p - n BY <2>3 DEF m
  <2>5. m = IF p < n THEN p ELSE 0 BY <2>2, <2>4
  <2> QED BY <2>5 DEF m
<1>7. i % Len(rs) = IF i < Len(rs) THEN i ELSE 0
  <2>1. i \in 0 .. 2 * Len(rs) - 1 BY <1>2
  <2>2. i % Len(rs) = IF i < Len(rs) THEN i ELSE i - Len(rs) BY <1>2, <2>1, ModSmall, Zenon
  <2> DEFINE m == i % Len(rs)
  <2> HIDE DEF m
  <2>3. m = IF i < Len(rs) THEN i ELSE i - Len(rs) BY <2>2 DEF m
  <2>4. m = IF i < Len(rs) THEN i ELSE 0 BY <1>2, <2>3
  <2> QED BY <2>4 DEF m
<1>8. CASE ip # rs[i].end
  <2>1. k + 1 \in 1 .. Size(rs[i])
    <3>1. ip \in Nat /\ ip < rs[i].end /\ rs[i].start <= ip BY <1>3, <1>8
    <3>2. \A s, e, x \in Nat : s <= x /\ x < e => (x - s + 1) + 1 \in 1 .. e - s + 1 OBVIOUS
    <3> QED BY <1>3, <3>1, <3>2 DEF Size
  <2>2. b[i] + (k + 1) \in 1 .. n /\ Walk(rs)[b[i] + (k + 1)] = WalkEntry(rs[i], k + 1)
    <3> HIDE DEF k
    <3> QED BY <1>1, <1>2, <2>1 DEF Offsets
  <2>3. (p % n) + 1 = b[i] + (k + 1)
    <3>1. k \in Nat /\ p = b[i] + k /\ b[i] + (k + 1) <= n BY <1>4, <1>5, <2>2
    <3>2. p < n BY <1>2, <1>a, <3>1
    <3>3. p % n = p BY <1>6, <3>2
    <3>4. p + 1 = b[i] + (k + 1)
      <4> HIDE DEF k
      <4> QED BY <1>2, <3>1
    <3> QED BY <3>3, <3>4, Zenon
  <2>4. WalkEntry(rs[i], k + 1) = [ip |-> ip + 1, gw |-> rs[i].gw]
    <3>1. rs[i].start + (k + 1) - 1 = ip + 1 BY <1>3
    <3> HIDE DEF k
    <3> QED BY <3>1 DEF WalkEntry
  <2>5. ip + 1 \in rs[i].start .. rs[i].end BY <1>3, <1>8
  <2> HIDE DEF k, n
  <2> QED BY <1>8, <2>2, <2>3, <2>4, <2>5 DEF n, NextRange, NextIP
<1>9. CASE ip = rs[i].end
  <2> DEFINE j == (i % Len(rs)) + 1
  <2>1. j \in 1 .. Len(rs) BY <1>2, <1>7
  <2>2. rs[j].start \in Nat /\ rs[j].end \in Nat /\ Size(rs[j]) \in Nat \ {0}
    BY <1>2, <2>1, BlockFacts
  <2>3. b[j] + 1 \in 1 .. n /\ Walk(rs)[b[j] + 1] = WalkEntry(rs[j], 1) /\ b[j] \in Nat
    <3>1. 1 \in 1 .. Size(rs[j]) BY <2>2
    <3> HIDE DEF j
    <3>2. j \in 1 .. Len(rs) + 1 BY <1>2, <2>1
    <3> QED BY <1>1, <2>1, <3>1, <3>2 DEF Offsets
  <2>4. p = b[i] + Size(rs[i]) BY <1>3, <1>5, <1>9 DEF Size
  <2>5. b[i + 1] = p BY <1>1, <1>2, <2>4 DEF Offsets
  <2>6. (p % n) + 1 = b[j] + 1
    <3>1. CASE i < Len(rs)
      <4>1. j = i + 1 BY <1>7, <3>1
      <4>2. p < n BY <1>a, <2>3, <2>5, <4>1
      <4> QED BY <1>6, <2>5, <4>1, <4>2
    <3>2. CASE ~(i < Len(rs))
      <4>1. j = 1 /\ i = Len(rs) BY <1>2, <1>7, <3>2
      <4>2. p = n BY <1>1, <2>5, <4>1 DEF Offsets
      <4>3. b[1] = 0 BY <1>1 DEF Offsets
      <4> QED BY <1>6, <1>a, <4>1, <4>2, <4>3
    <3> QED BY <3>1, <3>2
  <2>7. WalkEntry(rs[j], 1) = [ip |-> rs[j].start, gw |-> rs[j].gw] BY <2>2 DEF WalkEntry
  <2>8. rs[j].start \in rs[j].start .. rs[j].end BY <2>2 DEF Size
  <2> HIDE DEF n
  <2> QED BY <1>2, <1>9, <2>1, <2>3, <2>6, <2>7, <2>8 DEF n, NextRange, NextIP
<1> QED BY <1>8, <1>9

-----------------------------------------------------------------------------
(* The search *)

\* The position of the k-th step of a search from behind position a.
At(n, a, k) == ((a + k - 1) % n) + 1

\* The search goes on after the last position with the first.
LEMMA AtFacts ==
    ASSUME NEW n \in Nat \ {0}, NEW a \in 0 .. n, NEW k \in 1 .. n
    PROVE  /\ At(n, a, k) \in 1 .. n
           /\ At(n, a, k) = IF a + k <= n THEN a + k ELSE a + k - n
<1> DEFINE x == a + k - 1
           m == x % n
<1>1. x \in 0 .. 2 * n - 1 OBVIOUS
<1>2. m = IF x < n THEN x ELSE x - n
  <2> HIDE DEF x
  <2> QED BY <1>1, ModSmall, Zenon
<1>3. At(n, a, k) = m + 1 BY DEF At
<1> HIDE DEF m
<1> QED BY <1>2, <1>3

\* Every step takes the search one position further round.
LEMMA AtNext ==
    ASSUME NEW n \in Nat \ {0}, NEW a \in 0 .. n, NEW k \in 1 .. n - 1
    PROVE  (At(n, a, k) % n) + 1 = At(n, a, k + 1)
<1>1. /\ At(n, a, k) \in 1 .. n
      /\ At(n, a, k) = IF a + k <= n THEN a + k ELSE a + k - n
  BY AtFacts
<1>2. At(n, a, k + 1) = IF a + (k + 1) <= n THEN a + (k + 1) ELSE a + (k + 1) - n
  <2>1. k + 1 \in 1 .. n OBVIOUS
  <2> QED BY <2>1, AtFacts
<1> DEFINE x == At(n, a, k)
           m == x % n
<1>3. x \in 0 .. 2 * n - 1 BY <1>1
<1>4. m = IF x < n THEN x ELSE x - n
  <2> HIDE DEF x
  <2> QED BY <1>3, ModSmall, Zenon
<1> HIDE DEF m
<1>5. m + 1 = At(n, a, k + 1) BY <1>1, <1>2, <1>4
<1> QED BY <1>5 DEF m

\* The last step is followed by the first.
LEMMA AtLast ==
    ASSUME NEW n \in Nat \ {0}, NEW a \in 0 .. n
    PROVE  (At(n, a, n) % n) + 1 = At(n, a, 1)
<1>1. n \in 1 .. n /\ 1 \in 1 .. n OBVIOUS
<1>2. /\ At(n, a, n) \in 1 .. n
      /\ At(n, a, n) = IF a + n <= n THEN a + n ELSE a + n - n
  BY <1>1, AtFacts
<1>3. At(n, a, 1) = IF a + 1 <= n THEN a + 1 ELSE a + 1 - n
  BY <1>1, AtFacts
<1> DEFINE x == At(n, a, n)
           m == x % n
<1>4. x \in 0 .. 2 * n - 1 BY <1>2
<1>5. m = IF x < n THEN x ELSE x - n
  <2> HIDE DEF x
  <2> QED BY <1>4, ModSmall, Zenon
<1> HIDE DEF m
<1>6. m + 1 = At(n, a, 1) BY <1>2, <1>3, <1>5
<1> QED BY <1>6 DEF m

\* Two steps of a search are at different positions.
LEMMA AtInjective ==
    ASSUME NEW n \in Nat \ {0}, NEW a \in 0 .. n, NEW j \in 1 .. n, NEW k \in 1 .. n,
           At(n, a, j) = At(n, a, k)
    PROVE  j = k
<1>1. At(n, a, j) = IF a + j <= n THEN a + j ELSE a + j - n BY AtFacts
<1>2. At(n, a, k) = IF a + k <= n THEN a + k ELSE a + k - n BY AtFacts
<1>3. (IF a + j <= n THEN a + j ELSE a + j - n) = (IF a + k <= n THEN a + k ELSE a + k - n)
  BY <1>1, <1>2
<1>4. CASE a + j <= n /\ a + k <= n BY <1>3, <1>4
<1>5. CASE a + j <= n /\ ~(a + k <= n) BY <1>3, <1>5
<1>6. CASE ~(a + j <= n) /\ a + k <= n BY <1>3, <1>6
<1>7. CASE ~(a + j <= n) /\ ~(a + k <= n) BY <1>3, <1>7
<1> QED BY <1>4, <1>5, <1>6, <1>7

\* One step of a search offers the address it meets unless that is a gateway.
LEMMA OfferedStep ==
    ASSUME NEW walk \in Seq(WalkEntries), Len(walk) \in Nat \ {0}, NEW a \in 0 .. Len(walk)
    PROVE  /\ Offered(walk, a)[0] = <<>>
           /\ \A k \in 1 .. Len(walk) :
                 Offered(walk, a)[k] =
                     IF walk[At(Len(walk), a, k)].ip = walk[At(Len(walk), a, k)].gw
                     THEN Offered(walk, a)[k - 1]
                     ELSE Append(Offered(walk, a)[k - 1], walk[At(Len(walk), a, k)].ip)
<1> DEFINE f == Offered(walk, a)
           n == Len(walk)
           e(k) == walk[At(n, a, k)]
           Step(k, t) == IF e(k).ip = e(k).gw THEN t ELSE Append(t, e(k).ip)
<1>1. f = [k \in 0 .. n |-> IF k = 0 THEN <<>> ELSE Step(k, f[k - 1])]
  BY OfferedDef DEF At
<1> HIDE DEF f, Step
<1>2. f[0] = <<>> BY <1>1
<1>3. \A k \in 1 .. n : f[k] = Step(k, f[k - 1]) BY <1>1
<1> QED BY <1>2, <1>3 DEF f, Step

\* What has been offered after k steps are addresses met in them, no gateways.
LEMMA OfferedType ==
    ASSUME NEW walk \in Seq(WalkEntries), Len(walk) \in Nat \ {0}, NEW a \in 0 .. Len(walk),
           NEW k \in 0 .. Len(walk)
    PROVE  /\ Offered(walk, a)[k] \in Seq(Nat)
           /\ \A j \in 1 .. Len(Offered(walk, a)[k]) : \E m \in 1 .. k :
                 Offered(walk, a)[k][j] = walk[At(Len(walk), a, m)].ip
<1> DEFINE f == Offered(walk, a)
           n == Len(walk)
           e(m) == walk[At(n, a, m)]
           Good(x) == /\ f[x] \in Seq(Nat)
                      /\ \A j \in 1 .. Len(f[x]) : \E m \in 1 .. x : f[x][j] = e(m).ip
           S == {x \in Nat : Good(x)}
<1>1. /\ f[0] = <<>>
      /\ \A x \in 1 .. n : f[x] = IF e(x).ip = e(x).gw THEN f[x - 1]
                                   ELSE Append(f[x - 1], e(x).ip)
  BY OfferedStep
<1>2. \A x \in 1 .. n : e(x).ip \in Nat
  <2>1. \A x \in 1 .. n : At(n, a, x) \in 1 .. n BY AtFacts
  <2>2. \A x \in 1 .. n : walk[At(n, a, x)] \in WalkEntries BY <2>1
  <2> QED BY <2>2 DEF WalkEntries
<1> HIDE DEF f, e
<1>3. 0 \in S
  <2>1. Good(0) BY <1>1
  <2> QED BY <2>1
<1>4. ASSUME NEW x \in 0 .. n - 1, x \in S PROVE x + 1 \in S
  <2>1. Good(x) BY <1>4
  <2>2. x + 1 \in 1 .. n /\ (x + 1) - 1 = x OBVIOUS
  <2>3. f[x + 1] = IF e(x + 1).ip = e(x + 1).gw THEN f[x] ELSE Append(f[x], e(x + 1).ip)
    BY <1>1, <2>2
  <2>4. e(x + 1).ip \in Nat BY <1>2, <2>2
  <2>5. CASE e(x + 1).ip = e(x + 1).gw
    <3>1. f[x + 1] = f[x] BY <2>3, <2>5
    <3>2. \A m \in 1 .. x : m \in 1 .. x + 1 OBVIOUS
    <3>3. Good(x + 1) BY <2>1, <3>1, <3>2
    <3> QED BY <3>3
  <2>6. CASE e(x + 1).ip # e(x + 1).gw
    <3>1. f[x + 1] = Append(f[x], e(x + 1).ip) BY <2>3, <2>6
    <3>2. f[x] \in Seq(Nat) BY <2>1
    <3>3. /\ f[x + 1] \in Seq(Nat)
          /\ Len(f[x + 1]) = Len(f[x]) + 1 /\ Len(f[x]) \in Nat
          /\ \A j \in 1 .. Len(f[x]) : f[x + 1][j] = f[x][j]
          /\ f[x + 1][Len(f[x]) + 1] = e(x + 1).ip
      BY <2>4, <3>1, <3>2
    <3>4. ASSUME NEW j \in 1 .. Len(f[x + 1])
          PROVE  \E m \in 1 .. x + 1 : f[x + 1][j] = e(m).ip
      <4>1. CASE j \in 1 .. Len(f[x])
        <5>1. PICK m \in 1 .. x : f[x][j] = e(m).ip BY <2>1, <4>1
        <5>2. m \in 1 .. x + 1 OBVIOUS
        <5> QED BY <3>3, <4>1, <5>1, <5>2
      <4>2. CASE j = Len(f[x]) + 1 BY <2>2, <3>3, <4>2
      <4>3. j \in 1 .. Len(f[x]) \/ j = Len(f[x]) + 1 BY <3>3, OneMore
      <4> QED BY <4>1, <4>2, <4>3
    <3>5. Good(x + 1) BY <3>3, <3>4
    <3> QED BY <3>5
  <2> QED BY <2>5, <2>6
<1>5. 0 .. n \subseteq S
  <2> HIDE DEF S
  <2> QED BY <1>3, <1>4, UpTo
<1>6. Good(k) BY <1>5
<1> QED BY <1>6 DEF f, e

\* A search over a walk that meets no address twice offers none twice.
LEMMA OfferedOnce ==
    ASSUME NEW walk \in Seq(WalkEntries), Len(walk) \in Nat \ {0}, NEW a \in 0 .. Len(walk),
           \A p, q \in 1 .. Len(walk) : walk[p].ip = walk[q].ip => p = q,
           NEW k \in 0 .. Len(walk)
    PROVE  \A i, j \in 1 .. Len(Offered(walk, a)[k]) :
              Offered(walk, a)[k][i] = Offered(walk, a)[k][j] => i = j
<1> DEFINE f == Offered(walk, a)
           n == Len(walk)
           e(m) == walk[At(n, a, m)]
           Once(x) == \A i, j \in 1 .. Len(f[x]) : f[x][i] = f[x][j] => i = j
           S == {x \in Nat : Once(x)}
<1>1. /\ f[0] = <<>>
      /\ \A x \in 1 .. n : f[x] = IF e(x).ip = e(x).gw THEN f[x - 1]
                                   ELSE Append(f[x - 1], e(x).ip)
  BY OfferedStep
<1>2. \A x \in 0 .. n : /\ f[x] \in Seq(Nat)
                        /\ \A j \in 1 .. Len(f[x]) : \E m \in 1 .. x : f[x][j] = e(m).ip
  BY OfferedType
<1>3. \A x, m \in 1 .. n : e(x).ip = e(m).ip => x = m
  <2>1. \A x \in 1 .. n : At(n, a, x) \in 1 .. n BY AtFacts
  <2>2. \A x, m \in 1 .. n : At(n, a, x) = At(n, a, m) => x = m BY AtInjective
  <2> QED BY <2>1, <2>2
<1>a. \A x \in 1 .. n : e(x).ip \in Nat
  <2>1. \A x \in 1 .. n : At(n, a, x) \in 1 .. n BY AtFacts
  <2>2. \A x \in 1 .. n : walk[At(n, a, x)] \in WalkEntries BY <2>1
  <2> QED BY <2>2 DEF WalkEntries
<1> HIDE DEF f, e
<1>4. 0 \in S BY <1>1
<1>5. ASSUME NEW x \in 0 .. n - 1, x \in S PROVE x + 1 \in S
  <2>2. x + 1 \in 1 .. n /\ (x + 1) - 1 = x /\ x \in 0 .. n OBVIOUS
  <2>3. f[x + 1] = IF e(x + 1).ip = e(x + 1).gw THEN f[x] ELSE Append(f[x], e(x + 1).ip)
    BY <1>1, <2>2
  <2>5. CASE e(x + 1).ip = e(x + 1).gw
    <3>1. f[x + 1] = f[x] BY <2>3, <2>5
    <3>2. Once(x + 1) BY <1>5, <3>1
    <3> QED BY <3>2
  <2>6. CASE e(x + 1).ip # e(x + 1).gw
    <3>1. f[x + 1] = Append(f[x], e(x + 1).ip) BY <2>3, <2>6
    <3>2. f[x] \in Seq(Nat) /\ e(x + 1).ip \in Nat BY <1>2, <1>a, <2>2
    <3>3. /\ Len(f[x + 1]) = Len(f[x]) + 1 /\ Len(f[x]) \in Nat
          /\ \A j \in 1 .. Len(f[x]) : f[x + 1][j] = f[x][j]
          /\ f[x + 1][Len(f[x]) + 1] = e(x + 1).ip
      BY <3>1, <3>2
    <3>4. ASSUME NEW j \in 1 .. Len(f[x]) PROVE f[x][j] # e(x + 1).ip
      <4>1. PICK m \in 1 .. x : f[x][j] = e(m).ip BY <1>2, <2>2
      <4>2. m \in 1 .. n /\ m # x + 1 OBVIOUS
      <4> QED BY <1>3, <2>2, <4>1, <4>2
    <3>5. ASSUME NEW i \in 1 .. Len(f[x + 1]), NEW j \in 1 .. Len(f[x + 1]),
                 f[x + 1][i] = f[x + 1][j]
          PROVE  i = j
      <4>1. CASE i \in 1 .. Len(f[x]) /\ j \in 1 .. Len(f[x]) BY <1>5, <3>3, <3>5, <4>1
      <4>2. CASE i \in 1 .. Len(f[x]) /\ j = Len(f[x]) + 1 BY <3>3, <3>4, <3>5, <4>2
      <4>3. CASE j \in 1 .. Len(f[x]) /\ i = Len(f[x]) + 1 BY <3>3, <3>4, <3>5, <4>3
      <4>4. CASE j = Len(f[x]) + 1 /\ i = Len(f[x]) + 1 BY <4>4
      <4>5. \A m \in 1 .. Len(f[x + 1]) : m \in 1 .. Len(f[x]) \/ m = Len(f[x]) + 1
        BY <3>3, OneMore
      <4> QED BY <4>1, <4>2, <4>3, <4>4, <4>5
    <3>6. Once(x + 1) BY <3>5
    <3> QED BY <3>6
  <2> QED BY <2>5, <2>6
<1>6. 0 .. n \subseteq S
  <2> HIDE DEF S
  <2> QED BY <1>4, <1>5, UpTo
<1>7. Once(k) BY <1>6
<1> QED BY <1>7 DEF f

-----------------------------------------------------------------------------
(* What Total counts *)

\* The number of usable addresses among the first p of a walk.
Used(walk, p) == Len(Offered(walk, 0)[p])

\* Each entry that is not a gateway counts.
LEMMA UsedStep ==
    ASSUME NEW walk \in Seq(WalkEntries), Len(walk) \in Nat \ {0}
    PROVE  /\ Used(walk, 0) = 0
           /\ \A p \in 0 .. Len(walk) : Used(walk, p) \in Nat
           /\ \A p \in 1 .. Len(walk) :
                 Used(walk, p) = Used(walk, p - 1) + (IF walk[p].ip = walk[p].gw THEN 0 ELSE 1)
<1> DEFINE f == Offered(walk, 0)
           n == Len(walk)
<1>1. /\ f[0] = <<>>
      /\ \A k \in 1 .. n : f[k] = IF walk[At(n, 0, k)].ip = walk[At(n, 0, k)].gw
                                   THEN f[k - 1]
                                   ELSE Append(f[k - 1], walk[At(n, 0, k)].ip)
  BY OfferedStep
<1>2. \A k \in 0 .. n : f[k] \in Seq(Nat)
  <2>1. 0 \in 0 .. n OBVIOUS
  <2> QED BY <2>1, OfferedType
<1>3. \A k \in 1 .. n : At(n, 0, k) = k BY AtFacts
<1>4. \A k \in 1 .. n : walk[k].ip \in Nat
  <2>1. \A k \in 1 .. n : walk[k] \in WalkEntries OBVIOUS
  <2> QED BY <2>1 DEF WalkEntries
<1>5. Used(walk, 0) = 0 BY <1>1 DEF Used
<1> HIDE DEF f
<1>6. ASSUME NEW p \in 1 .. n
      PROVE  Len(f[p]) = Len(f[p - 1]) + (IF walk[p].ip = walk[p].gw THEN 0 ELSE 1)
  <2>1. f[p] = IF walk[p].ip = walk[p].gw THEN f[p - 1] ELSE Append(f[p - 1], walk[p].ip)
    BY <1>1, <1>3
  <2>2. p - 1 \in 0 .. n OBVIOUS
  <2>3. f[p - 1] \in Seq(Nat) /\ walk[p].ip \in Nat BY <1>2, <1>4, <2>2
  <2>4. CASE walk[p].ip = walk[p].gw BY <2>1, <2>3, <2>4
  <2>5. CASE walk[p].ip # walk[p].gw BY <2>1, <2>3, <2>5
  <2> QED BY <2>4, <2>5
<1>7. \A p \in 0 .. n : Len(f[p]) \in Nat BY <1>2
<1> QED BY <1>5, <1>6, <1>7 DEF Used, f

\* Wherever a search starts, it offers every usable address of the walk.
LEMMA OfferedLen ==
    ASSUME NEW walk \in Seq(WalkEntries), Len(walk) \in Nat \ {0}, NEW a \in 0 .. Len(walk)
    PROVE  Len(Offered(walk, a)[Len(walk)]) = Used(walk, Len(walk))
<1> DEFINE f == Offered(walk, a)
           n == Len(walk)
           u == [p \in 0 .. n |-> Used(walk, p)]
           w == [p \in 1 .. n |-> IF walk[p].ip = walk[p].gw THEN 0 ELSE 1]
           Counted(k) == Len(f[k]) = IF a + k <= n THEN u[a + k] - u[a]
                                     ELSE u[n] - u[a] + u[a + k - n]
           S == {k \in Nat : Counted(k)}
<1>1. /\ u[0] = 0 /\ u \in [0 .. n -> Nat] /\ \A p \in 1 .. n : u[p] = u[p - 1] + w[p]
      /\ w \in [1 .. n -> Nat]
  BY UsedStep
<1>2. \A k \in 0 .. n : f[k] \in Seq(Nat) BY OfferedType
<1>3. /\ f[0] = <<>>
      /\ \A k \in 1 .. n : f[k] = IF walk[At(n, a, k)].ip = walk[At(n, a, k)].gw
                                   THEN f[k - 1]
                                   ELSE Append(f[k - 1], walk[At(n, a, k)].ip)
  BY OfferedStep
<1>4. \A p \in 1 .. n : walk[p].ip \in Nat
  <2>1. \A p \in 1 .. n : walk[p] \in WalkEntries OBVIOUS
  <2> QED BY <2>1 DEF WalkEntries
<1>5. \A k \in 1 .. n : /\ At(n, a, k) \in 1 .. n
                        /\ At(n, a, k) = IF a + k <= n THEN a + k ELSE a + k - n
  BY AtFacts
<1> HIDE DEF f
<1>6. ASSUME NEW k \in 1 .. n PROVE Len(f[k]) = Len(f[k - 1]) + w[At(n, a, k)]
  <2> DEFINE p == At(n, a, k)
  <2>1. p \in 1 .. n BY <1>5
  <2>2. f[k] = IF walk[p].ip = walk[p].gw THEN f[k - 1] ELSE Append(f[k - 1], walk[p].ip)
    BY <1>3
  <2> HIDE DEF p
  <2>3. k - 1 \in 0 .. n OBVIOUS
  <2>4. f[k - 1] \in Seq(Nat) /\ walk[p].ip \in Nat BY <1>2, <1>4, <2>1, <2>3
  <2>5. CASE walk[p].ip = walk[p].gw BY <2>1, <2>2, <2>4, <2>5 DEF p
  <2>6. CASE walk[p].ip # walk[p].gw BY <2>1, <2>2, <2>4, <2>6 DEF p
  <2> QED BY <2>5, <2>6
<1> HIDE DEF u, w
<1>7. 0 \in S BY <1>1, <1>3
<1>8. ASSUME NEW k \in 0 .. n - 1, k \in S PROVE k + 1 \in S
  <2>1. k + 1 \in 1 .. n /\ (k + 1) - 1 = k BY Successor
  <2>2. Len(f[k + 1]) = Len(f[k]) + w[At(n, a, k + 1)] BY <1>6, <2>1
  <2>3. At(n, a, k + 1) = IF a + (k + 1) <= n THEN a + (k + 1) ELSE a + (k + 1) - n
    BY <1>5, <2>1
  <2>a. u[a] \in Nat /\ u[n] \in Nat
    <3>1. a \in 0 .. n /\ n \in 0 .. n OBVIOUS
    <3> QED BY <1>1, <3>1
  <2>4. CASE a + (k + 1) <= n
    <3>1. a + (k + 1) \in 1 .. n /\ (a + (k + 1)) - 1 = a + k /\ a + k \in 0 .. n BY <2>4
    <3>2. u[a + (k + 1)] = u[a + k] + w[a + (k + 1)] BY <1>1, <3>1
    <3>3. Len(f[k]) = u[a + k] - u[a] BY <1>8, <3>1
    <3>4. u[a + k] \in Nat /\ w[a + (k + 1)] \in Nat BY <1>1, <3>1
    <3>5. Len(f[k + 1]) = u[a + (k + 1)] - u[a] BY <2>2, <2>3, <2>4, <2>a, <3>2, <3>3, <3>4
    <3> QED BY <2>4, <3>5
  <2>5. CASE a + k = n
    <3>1. a + (k + 1) - n = 1 /\ ~(a + (k + 1) <= n) /\ 1 \in 1 .. n BY <2>5
    <3>2. u[1] = u[0] + w[1] /\ w[1] \in Nat BY <1>1, <3>1
    <3>3. Len(f[k]) = u[n] - u[a] BY <1>8, <2>5
    <3>4. Len(f[k + 1]) = u[n] - u[a] + u[a + (k + 1) - n]
      BY <1>1, <2>2, <2>3, <2>a, <3>1, <3>2, <3>3
    <3> QED BY <3>1, <3>4
  <2>6. CASE a + k > n
    <3>1. /\ a + (k + 1) - n \in 1 .. n /\ (a + (k + 1) - n) - 1 = a + k - n
          /\ a + k - n \in 0 .. n /\ ~(a + (k + 1) <= n) /\ ~(a + k <= n)
      BY <2>6
    <3>2. u[a + (k + 1) - n] = u[a + k - n] + w[a + (k + 1) - n] BY <1>1, <3>1
    <3>3. Len(f[k]) = u[n] - u[a] + u[a + k - n] BY <1>8, <3>1
    <3>4. u[a + k - n] \in Nat /\ w[a + (k + 1) - n] \in Nat BY <1>1, <3>1
    <3>5. Len(f[k + 1]) = u[n] - u[a] + u[a + (k + 1) - n]
      <4>1. At(n, a, k + 1) = a + (k + 1) - n BY <2>3, <3>1
      <4>2. Len(f[k + 1]) = (u[n] - u[a] + u[a + k - n]) + w[a + (k + 1) - n]
        BY <2>2, <3>3, <4>1
      <4> QED BY <2>a, <3>2, <3>4, <4>2
    <3> QED BY <3>1, <3>5
  <2> QED BY <2>4, <2>5, <2>6
<1>9. 0 .. n \subseteq S
  <2> HIDE DEF S
  <2> QED BY <1>7, <1>8, UpTo
<1>10. Counted(n) BY <1>9
<1>11. Len(f[n]) = u[n]
  <2>1. u[a] \in Nat /\ u[n] \in Nat /\ u[0] = 0 BY <1>1
  <2>2. CASE a = 0 BY <1>10, <2>1, <2>2
  <2>3. CASE a # 0
    <3>1. ~(a + n <= n) /\ a + n - n = a BY <2>3
    <3> QED BY <1>10, <2>1, <3>1
  <2> QED BY <2>2, <2>3
<1>12. u[n] = Used(walk, n) BY DEF u
<1> QED BY <1>11, <1>12 DEF f

\* The addresses of a range that can be handed out, and countIP of them.
TrueCount(r) == r.end - r.start + 1 - (IF RangeContains(r, r.gw) THEN 1 ELSE 0)

LEMMA CountsUsable ==
    ASSUME NEW r, r.start \in Nat, r.end \in Nat
    PROVE  CountIP(r) = Int64(TrueCount(r))
<1> DEFINE n == r.end - r.start + 1  g == IF RangeContains(r, r.gw) THEN 1 ELSE 0
<1>1. CountIP(r) = Int64(Int64(n) - g) BY DEF CountIP
<1>2. TrueCount(r) = n - g BY DEF TrueCount
<1>3. n \in Int /\ g \in Int OBVIOUS
<1> HIDE DEF n, g
<1>4. Int64(n) \in Int BY <1>3, Int64Type
<1>5. Int64(Int64(n) + (-g)) = Int64(n + (-g)) BY <1>3, Int64Sum
<1>6. Int64(n) - g = Int64(n) + (-g) /\ n - g = n + (-g) BY <1>3, <1>4
<1> QED BY <1>1, <1>2, <1>5, <1>6

\* Within one range, every address but the gateway counts.
LEMMA UsedInRange ==
    ASSUME NEW rs, IsRangeSet(rs), NEW b, Offsets(rs, b), NEW i \in 1 .. Len(rs)
    PROVE  /\ Used(Walk(rs), b[i + 1]) = Used(Walk(rs), b[i]) + TrueCount(rs[i])
           /\ Used(Walk(rs), b[i]) \in Nat /\ TrueCount(rs[i]) \in Int
<1> DEFINE w == Walk(rs)
           r == rs[i]
           Gone(k) == IF r.gw \in r.start .. r.start + k - 1 THEN 1 ELSE 0
           Counted(k) == Used(w, b[i] + k) = Used(w, b[i]) + k - Gone(k)
           S == {k \in Nat : Counted(k)}
<1>0. w \in Seq(WalkEntries) /\ Len(w) \in Nat \ {0} BY WalkType
<1>1. /\ \A p \in 0 .. Len(w) : Used(w, p) \in Nat
      /\ \A p \in 1 .. Len(w) :
            Used(w, p) = Used(w, p - 1) + (IF w[p].ip = w[p].gw THEN 0 ELSE 1)
  BY <1>0, UsedStep
<1>2. /\ Len(rs) \in Nat /\ i \in DOMAIN rs BY RangeSetLen
<1>3. /\ r.start \in Nat /\ r.end \in Nat /\ r.lo \in Nat /\ r.hi \in Nat
      /\ r.gw \in Nat \cup {None} /\ Size(r) \in Nat \ {0} /\ Size(r) = r.end - r.start + 1
  BY <1>2, BlockFacts DEF Size
<1>4. r.lo <= r.start /\ r.end <= r.hi BY <1>2 DEF IsRangeSet
<1>5. b[i] \in Nat /\ b[i + 1] = b[i] + Size(r)
  <2>1. i \in 1 .. Len(rs) + 1 BY <1>2
  <2> QED BY <2>1 DEF Offsets
<1>6. \A k \in 1 .. Size(r) :
         /\ b[i] + k \in 1 .. Len(w)
         /\ w[b[i] + k].ip = r.start + k - 1 /\ w[b[i] + k].gw = r.gw
  <2>1. \A k \in 1 .. Size(r) : b[i] + k \in 1 .. Len(w) /\ w[b[i] + k] = WalkEntry(r, k)
    BY DEF Offsets
  <2>2. \A k \in 1 .. Size(r) : WalkEntry(r, k).ip = r.start + k - 1 /\ WalkEntry(r, k).gw = r.gw
    BY DEF WalkEntry
  <2> HIDE DEF w, r
  <2> QED BY <2>1, <2>2
<1>7. Used(w, b[i]) \in Nat
  <2>1. 1 \in 1 .. Size(r) BY <1>3
  <2>2. b[i] \in 0 .. Len(w) BY <1>0, <1>5, <1>6, <2>1
  <2> QED BY <1>1, <2>2
<1> HIDE DEF w, r
<1>8. 0 \in S
  <2>1. Gone(0) = 0 BY <1>3
  <2>2. b[i] + 0 = b[i] BY <1>5
  <2> QED BY <1>7, <2>1, <2>2
<1>9. ASSUME NEW k \in 0 .. Size(r) - 1, k \in S PROVE k + 1 \in S
  <2>0. k + 1 \in 1 .. Size(r) /\ k \in Nat BY <1>3
  <2> DEFINE p == b[i] + (k + 1)
  <2>a. p \in 1 .. Len(w) BY <1>6, <2>0
  <2>1. p \in 1 .. Len(w) /\ p - 1 = b[i] + k BY <1>5, <2>0, <2>a
  <2>2. w[p].ip = r.start + (k + 1) - 1 /\ w[p].gw = r.gw BY <1>6, <2>0
  <2>3. Used(w, p) = Used(w, b[i] + k) + (IF w[p].ip = w[p].gw THEN 0 ELSE 1)
    BY <1>1, <2>1
  <2>4. Used(w, b[i] + k) = Used(w, b[i]) + k - Gone(k) BY <1>9
  <2>5. Gone(k + 1) = Gone(k) + (IF r.start + k = r.gw THEN 1 ELSE 0)
    <3>1. CASE r.gw = None
      <4>1. \A x, y \in Int : r.gw \notin x .. y BY <3>1, NoneAssumption
      <4>2. r.start + k # r.gw BY <1>3, <2>0, <3>1, NoneAssumption
      <4>3. Gone(k) = 0 /\ Gone(k + 1) = 0 BY <1>3, <2>0, <4>1
      <4> QED BY <4>2, <4>3
    <3>2. CASE r.gw \in Nat
      <4>1. CASE r.start + k = r.gw
        <5>1. r.gw \notin r.start .. r.start + k - 1 BY <1>3, <2>0, <4>1
        <5>2. r.gw \in r.start .. r.start + (k + 1) - 1 BY <1>3, <2>0, <4>1
        <5> QED BY <4>1, <5>1, <5>2
      <4>2. CASE r.start + k # r.gw
        <5>1. r.gw \in r.start .. r.start + k - 1 <=> r.gw \in r.start .. r.start + (k + 1) - 1
          BY <1>3, <2>0, <3>2, <4>2, IntervalGrows
        <5> QED BY <4>2, <5>1
      <4> QED BY <4>1, <4>2
    <3> QED BY <1>3, <3>1, <3>2
  <2>6. r.start + (k + 1) - 1 = r.start + k BY <1>3, <2>0
  <2>7. Gone(k) \in Nat OBVIOUS
  <2> HIDE DEF Gone
  <2>8. Used(w, p) = Used(w, b[i]) + (k + 1) - Gone(k + 1)
    <3>0. \A x, y, g \in Nat : /\ (x + y - g) + 0 = x + (y + 1) - (g + 1)
                               /\ (x + y - g) + 1 = x + (y + 1) - (g + 0)
      OBVIOUS
    <3>1. CASE r.start + k = r.gw
      <4>1. Gone(k + 1) = Gone(k) + 1 /\ Used(w, p) = Used(w, b[i] + k) + 0
        BY <2>2, <2>3, <2>5, <2>6, <3>1
      <4> QED BY <1>7, <2>0, <2>4, <2>7, <3>0, <4>1
    <3>2. CASE r.start + k # r.gw
      <4>1. Gone(k + 1) = Gone(k) + 0 /\ Used(w, p) = Used(w, b[i] + k) + 1
        BY <2>2, <2>3, <2>5, <2>6, <3>2
      <4> QED BY <1>7, <2>0, <2>4, <2>7, <3>0, <4>1
    <3> QED BY <3>1, <3>2
  <2> QED BY <2>0, <2>8
<1>10. 0 .. Size(r) \subseteq S
  <2> HIDE DEF S
  <2> QED BY <1>3, <1>8, <1>9, UpTo
<1>11. Counted(Size(r)) BY <1>3, <1>10
<1>12. r.gw \in r.start .. r.start + Size(r) - 1 <=> RangeContains(r, r.gw)
  BY <1>3, <1>4, NoneAssumption DEF RangeContains
<1>13. TrueCount(r) = Size(r) - Gone(Size(r)) BY <1>3, <1>12 DEF TrueCount
<1>14. Gone(Size(r)) \in Nat OBVIOUS
<1> HIDE DEF Gone
<1>15. Used(w, b[i + 1]) = Used(w, b[i]) + TrueCount(r) /\ TrueCount(r) \in Int
  BY <1>3, <1>5, <1>7, <1>11, <1>13, <1>14
<1> QED BY <1>7, <1>15 DEF w, r

\* Total is the number of usable addresses of the walk, as an int64.
LEMMA TotalIsUsed ==
    ASSUME NEW rs, IsRangeSet(rs)
    PROVE  Total(rs) = Int64(Used(Walk(rs), Len(Walk(rs)))) /\ Total(rs) \in Int64s
<1>1. PICK b : Offsets(rs, b) BY WalkOffsets
<1>2. Len(rs) \in Nat \ {0} BY RangeSetLen
<1>3. PICK sum : /\ sum = [i \in 0 .. Len(rs) |->
                              IF i = 0 THEN 0 ELSE Int64(sum[i - 1] + CountIP(rs[i]))]
                 /\ Total(rs) = sum[Len(rs)]
  BY <1>2, TotalDef
<1>4. sum[0] = 0 /\ \A i \in 1 .. Len(rs) : sum[i] = Int64(sum[i - 1] + CountIP(rs[i]))
  BY <1>2, <1>3
<1> DEFINE S == {i \in Nat : sum[i] = Int64(Used(Walk(rs), b[i + 1]))}
<1>5. 0 \in S
  <2>1. b[0 + 1] = 0 BY <1>1 DEF Offsets
  <2>2. Used(Walk(rs), 0) = 0 BY WalkType, UsedStep
  <2>3. Int64(0) = 0
    <3>1. 0 \in Int64s BY Int64Assumption DEF Int64s
    <3> QED BY <3>1, Int64Same
  <2> QED BY <1>4, <2>1, <2>2, <2>3
<1>6. ASSUME NEW i \in 0 .. Len(rs) - 1, i \in S PROVE i + 1 \in S
  <2>1. i + 1 \in 1 .. Len(rs) /\ (i + 1) - 1 = i BY <1>2
  <2>2. sum[i + 1] = Int64(sum[i] + CountIP(rs[i + 1])) BY <1>4, <2>1
  <2>3. /\ Used(Walk(rs), b[(i + 1) + 1]) = Used(Walk(rs), b[i + 1]) + TrueCount(rs[i + 1])
        /\ Used(Walk(rs), b[i + 1]) \in Nat /\ TrueCount(rs[i + 1]) \in Int
    BY <1>1, <2>1, UsedInRange
  <2> DEFINE u == Used(Walk(rs), b[i + 1])  c == CountIP(rs[i + 1])  v == TrueCount(rs[i + 1])
  <2>0. i + 1 \in DOMAIN rs BY <2>1, RangeSetLen
  <2>a. rs[i + 1].start \in Nat /\ rs[i + 1].end \in Nat BY <2>0, BlockFacts
  <2>4. c = Int64(v) BY <2>a, CountsUsable
  <2>5. sum[i] = Int64(u) BY <1>6
  <2> HIDE DEF u, c, v
  <2>6. u \in Int /\ v \in Int /\ c \in Int BY <2>3, <2>4, Int64Type DEF u, v
  <2>7. Int64(Int64(u) + c) = Int64(u + c) BY <2>6, Int64Sum
  <2>8. Int64(c + u) = Int64(v + u) BY <2>4, <2>6, Int64Sum
  <2>9. u + c = c + u /\ u + v = v + u BY <2>6
  <2>10. sum[i + 1] = Int64(u + v) BY <2>2, <2>5, <2>7, <2>8, <2>9 DEF c
  <2> QED BY <2>1, <2>3, <2>10 DEF u, v
<1>7. 0 .. Len(rs) \subseteq S
  <2> HIDE DEF S
  <2> QED BY <1>2, <1>5, <1>6, UpTo
<1>8. sum[Len(rs)] = Int64(Used(Walk(rs), b[Len(rs) + 1])) BY <1>2, <1>7
<1>9. b[Len(rs) + 1] = Len(Walk(rs)) BY <1>1 DEF Offsets
<1>10. Used(Walk(rs), Len(Walk(rs))) \in Nat
  <2>1. Walk(rs) \in Seq(WalkEntries) /\ Len(Walk(rs)) \in Nat \ {0} BY WalkType
  <2>2. Len(Walk(rs)) \in 0 .. Len(Walk(rs)) BY <2>1
  <2> QED BY <2>1, <2>2, UsedStep
<1>11. Int64(Used(Walk(rs), Len(Walk(rs)))) \in Int64s BY <1>10, Int64Type
<1> QED BY <1>3, <1>8, <1>9, <1>11

-----------------------------------------------------------------------------
(* Candidates *)

\* The search starts behind the last reserved address if a range has it.
LEMMA StartPositionFacts ==
    ASSUME NEW rs, IsRangeSet(rs), NEW last
    PROVE  /\ StartPosition(rs, last) \in 0 .. Len(Walk(rs))
           /\ InRangeSet(rs, last) => /\ StartPosition(rs, last) # 0
                                      /\ Walk(rs)[StartPosition(rs, last)].ip = last
           /\ ~InRangeSet(rs, last) => StartPosition(rs, last) = 0
<1> DEFINE n == Len(Walk(rs))
           I == {p \in 1 .. n : Walk(rs)[p].ip = last}
<1>1. n \in Nat BY WalkType
<1>2. CASE ~InRangeSet(rs, last) BY <1>1, <1>2 DEF StartPosition
<1>3. CASE InRangeSet(rs, last)
  <2>1. PICK i \in DOMAIN rs : RangeContains(rs[i], last) BY <1>3 DEF InRangeSet
  <2>2. last \in rs[i].start .. rs[i].end BY <2>1 DEF RangeContains
  <2>3. PICK p \in 1 .. n : Walk(rs)[p] = [ip |-> last, gw |-> rs[i].gw]
    BY <2>2, WalkCovers
  <2>4. I # {} /\ I \subseteq Nat BY <2>3
  <2>5. StartPosition(rs, last) = Min(I) BY <1>3, <2>4 DEF StartPosition, SelectInSeq
  <2>6. Min(I) = CHOOSE x \in I : \A y \in I : x <= y BY DEF Min
  <2>7. \E x \in I : \A y \in I : x <= y
    <3> HIDE DEF I
    <3> QED BY <2>4, LeastNumber
  <2>8. Min(I) \in I
    <3> HIDE DEF I
    <3> QED BY <2>6, <2>7
  <2> QED BY <1>1, <1>3, <2>5, <2>8
<1> QED BY <1>2, <1>3

\* The candidates are addresses of the ranges.
LEMMA CandidatesFacts ==
    ASSUME NEW rs, IsRangeSet(rs), NEW last
    PROVE  /\ Candidates(rs, last) \in Seq(Nat)
           /\ \A k \in DOMAIN Candidates(rs, last) : \E i \in DOMAIN rs :
                 /\ Candidates(rs, last)[k] \in rs[i].start .. rs[i].end
                 /\ RangeContains(rs[i], Candidates(rs, last)[k])
<1> DEFINE w == Walk(rs)
           n == Len(w)
           a == StartPosition(rs, last)
           c == Candidates(rs, last)
<1>1. w \in Seq(WalkEntries) /\ n \in Nat \ {0} BY WalkType
<1>2. a \in 0 .. n BY StartPositionFacts
<1>3. c = Offered(w, a)[n] BY DEF Candidates
<1>4. n \in 0 .. n BY <1>1
<1> HIDE DEF w, n, a, c
<1>5. c \in Seq(Nat) /\ \A k \in 1 .. Len(c) : \E m \in 1 .. n : c[k] = w[At(n, a, m)].ip
  <2>1. /\ Offered(w, a)[n] \in Seq(Nat)
        /\ \A j \in 1 .. Len(Offered(w, a)[n]) : \E m \in 1 .. n :
              Offered(w, a)[n][j] = w[At(n, a, m)].ip
    BY <1>1, <1>2, <1>4, OfferedType, Zenon DEF n
  <2> QED BY <1>3, <2>1, Zenon
<1>6. ASSUME NEW k \in DOMAIN c
      PROVE  \E i \in DOMAIN rs : c[k] \in rs[i].start .. rs[i].end /\ RangeContains(rs[i], c[k])
  <2>1. k \in 1 .. Len(c) BY <1>5
  <2>2. PICK m \in 1 .. n : c[k] = w[At(n, a, m)].ip BY <1>5, <2>1
  <2>3. At(n, a, m) \in 1 .. n BY <1>1, <1>2, AtFacts
  <2>4. PICK i \in DOMAIN rs : c[k] \in rs[i].start .. rs[i].end
    BY <2>2, <2>3, WalkInRange DEF n, w
  <2>5. /\ rs[i].start \in Nat /\ rs[i].end \in Nat /\ rs[i].lo \in Nat /\ rs[i].hi \in Nat
    BY BlockFacts
  <2>6. rs[i].lo <= rs[i].start /\ rs[i].end <= rs[i].hi BY DEF IsRangeSet
  <2>7. RangeContains(rs[i], c[k]) BY <2>4, <2>5, <2>6, NoneAssumption DEF RangeContains
  <2> QED BY <2>4, <2>7
<1> QED BY <1>5, <1>6 DEF c

\* MakeRange turns a spec it accepts into a range within its subnet.
LEMMA MakeRangeFacts ==
    ASSUME NEW s, ValidRange(s), s.family \in {"v4", "v6"}, s.net \in Nat, s.host \in Nat,
           {s.start, s.end, s.gw} \subseteq Nat \cup {None},
           s.family = "v6" => s.host > 0,
           2^s.host \in Nat, s.host = 0 => 2^s.host = 1, s.host > 0 => 2^s.host >= 2
    PROVE  /\ MakeRange(s) \in [lo : Nat, hi : Nat, start : Nat, end : Nat,
                                gw : Nat \cup {None}]
           /\ MakeRange(s).lo = s.net /\ MakeRange(s).hi = s.net + 2^s.host - 1
           /\ MakeRange(s).lo <= MakeRange(s).start
           /\ MakeRange(s).start <= MakeRange(s).end
           /\ MakeRange(s).end <= MakeRange(s).hi
<1> DEFINE size  == 2^s.host
           p2p   == IsPointToPoint(s)
           start == ParseIP(s.start, IF p2p THEN s.net ELSE s.net + 1)
           end   == ParseIP(s.end, IF p2p THEN s.net ELSE LastIP(s))
           gw    == ParseIP(s.gw, IF p2p THEN None ELSE s.net + 1)
<1>1. MakeRange(s) = [lo    |-> s.net,
                      hi    |-> s.net + size - 1,
                      start |-> IF start > end THEN end ELSE start,
                      end   |-> IF start > end THEN start ELSE end,
                      gw    |-> gw]
  BY DEF MakeRange
<1>2. size \in Nat \ {0} /\ (p2p => size = 1) /\ (~p2p => size >= 2)
  BY DEF IsPointToPoint
<1>3. /\ s.start = None \/ s.start \in s.net + 1 .. s.net + size - 2
      /\ s.end = None \/ s.end \in s.net + 1 .. s.net + size - 2
  BY DEF ValidRange, ValidIP
<1>4. LastIP(s) \in s.net + size - 2 .. s.net + size - 1
  <2>1. LastIP(s) = s.net + size - 1 - (IF s.family = "v4" THEN 1 ELSE 0) BY DEF LastIP
  <2> HIDE DEF size
  <2> QED BY <1>2, <2>1
<1> HIDE DEF size, p2p
<1>5. start \in s.net .. s.net + size - 1 BY <1>2, <1>3 DEF ParseIP
<1>6. end \in s.net .. s.net + size - 1 BY <1>2, <1>3, <1>4 DEF ParseIP
<1>7. gw \in Nat \cup {None} BY DEF ParseIP
<1> HIDE DEF start, end, gw
<1>8. /\ MakeRange(s) \in [lo : Nat, hi : Nat, start : Nat, end : Nat, gw : Nat \cup {None}]
      /\ MakeRange(s).lo = s.net /\ MakeRange(s).hi = s.net + size - 1
      /\ MakeRange(s).lo <= MakeRange(s).start
      /\ MakeRange(s).start <= MakeRange(s).end
      /\ MakeRange(s).end <= MakeRange(s).hi
  BY <1>1, <1>2, <1>5, <1>6, <1>7
<1> QED BY <1>8 DEF size
=============================================================================
