------------------------- MODULE ReleaseIndexProofs -------------------------
(***************************************************************************)
(* The release index never loses its precision and never moves backwards:  *)
(* a product stays between RELEASE_FLOOR and RELEASE_ONE, and what a point *)
(* leaves unreleased of a debt is a part of that debt.                     *)
(* Debts that share the index also share its rounding: what they leave     *)
(* unreleased together is the headroom, but for a wei per harvest and debt *)
(* (Tracked, TrackedUnreleased).                                           *)
(***************************************************************************)
EXTENDS ReleaseIndex, Numbers

InRange(g) == g \in ReleasePoint /\ RELEASE_FLOOR <= g.p /\ g.p <= RELEASE_ONE

\* s was taken when the index stood at s, and the index has come to g since.
NotAfter(s, g) ==
    /\ s.gen <= g.gen
    /\ s.gen = g.gen => /\ s.scale <= g.scale
                        /\ s.scale = g.scale => g.p <= s.p

-----------------------------------------------------------------------------
\* Each power is the rescaling factor times the one before.
LEMMA RescalesPowers ==
    /\ Rescales[0] = 1
    /\ \A d \in 0..5 : Rescales[d] \in Nat \ {0}
    /\ \A d \in 0..4 : Rescales[d + 1] = RELEASE_RESCALE * Rescales[d]
<1> DEFINE R == RELEASE_RESCALE
           R2 == R * R
           R3 == R * R * R
           R4 == R * R * R * R
           R5 == R * R * R * R * R
<1>1. R \in Nat \ {0}
  BY RescaleAssumption
<1>2. R2 \in Nat \ {0}
  BY <1>1
<1>3. R3 = R2 * R /\ R3 \in Nat \ {0}
  BY <1>1, <1>2
<1>4. R4 = R3 * R /\ R4 \in Nat \ {0}
  BY <1>1, <1>3
<1>5. R5 = R4 * R /\ R5 \in Nat \ {0}
  BY <1>1, <1>4
<1>6. /\ Rescales[0] = 1 /\ Rescales[1] = R /\ Rescales[2] = R2 /\ Rescales[3] = R3
      /\ Rescales[4] = R4 /\ Rescales[5] = R5
  BY DEF Rescales
<1>7. /\ R2 = R * R /\ R3 = R * R2 /\ R4 = R * R3 /\ R5 = R * R4 /\ R = R * 1
  <2> HIDE DEF R
  <2> QED BY <1>1, <1>2, <1>3, <1>4
<1> HIDE DEF R, R2, R3, R4, R5
<1>8. \A d \in 0..5 : Rescales[d] \in Nat \ {0}
  BY <1>1, <1>2, <1>3, <1>4, <1>5, <1>6
<1>9. \A d \in 0..4 : Rescales[d + 1] = R * Rescales[d]
  <2> TAKE d \in 0..4
  <2>1. d = 0 \/ d = 1 \/ d = 2 \/ d = 3 \/ d = 4
    OBVIOUS
  <2> QED BY <2>1, <1>6, <1>7
<1> QED BY <1>6, <1>8, <1>9 DEF R

\* The floor is positive and the full product is one rescaling above it.
LEMMA FloorAndOne ==
    /\ RELEASE_FLOOR \in Nat \ {0}
    /\ RELEASE_ONE \in Nat \ {0}
    /\ RELEASE_ONE = RELEASE_RESCALE * RELEASE_FLOOR
    /\ RELEASE_FLOOR <= RELEASE_ONE
<1>1. /\ RELEASE_FLOOR \in Nat \ {0} /\ RELEASE_ONE \in Nat \ {0}
      /\ RELEASE_ONE = RELEASE_RESCALE * RELEASE_FLOOR
  BY RescalesPowers DEF RELEASE_FLOOR, RELEASE_ONE
<1>2. RELEASE_RESCALE \in Nat /\ RELEASE_RESCALE >= 1
  BY RescaleAssumption
<1>3. RELEASE_RESCALE * RELEASE_FLOOR >= 1 * RELEASE_FLOOR
  BY <1>1, <1>2
<1> QED BY <1>1, <1>3

\* The rescaling loop ends, at most four rescalings later, with a product back in range.
LEMMA RescalingEnds ==
    ASSUME NEW p \in Nat \ {0}, p <= RELEASE_ONE
    PROVE  /\ RescalesNeeded(p) \in 0..4
           /\ p * Rescales[RescalesNeeded(p)] \in Nat
           /\ RELEASE_FLOOR <= p * Rescales[RescalesNeeded(p)]
           /\ p * Rescales[RescalesNeeded(p)] <= RELEASE_ONE
           /\ RescalesNeeded(p) = 0 => p * Rescales[RescalesNeeded(p)] = p
<1> DEFINE G(d) == p * Rescales[d] >= RELEASE_FLOOR
           Fit(d) == G(d) /\ (d # 0 => p * Rescales[d - 1] < RELEASE_FLOOR)
           need == RescalesNeeded(p)
<1>1. G(4)
  BY RescalesPowers DEF RELEASE_FLOOR
<1>2. \A d \in 0..5 : p * Rescales[d] \in Nat
  BY RescalesPowers
<1>3. \A d \in 0..4 : ~G(d) => p * Rescales[d] < RELEASE_FLOOR
  BY <1>2, FloorAndOne
<1>4. \E d \in 0..4 : Fit(d)
  <2>1. CASE ~G(3)
    <3>1. Fit(4)
      BY <1>1, <1>3, <2>1
    <3> QED BY <3>1
  <2>2. CASE G(3) /\ ~G(2)
    <3>1. Fit(3)
      BY <1>3, <2>2
    <3> QED BY <3>1
  <2>3. CASE G(2) /\ ~G(1)
    <3>1. Fit(2)
      BY <1>3, <2>3
    <3> QED BY <3>1
  <2>4. CASE G(1) /\ ~G(0)
    <3>1. Fit(1)
      BY <1>3, <2>4
    <3> QED BY <3>1
  <2>5. CASE G(0)
    <3>1. Fit(0)
      BY <2>5
    <3> QED BY <3>1
  <2> QED BY <2>1, <2>2, <2>3, <2>4, <2>5
<1>5. need \in 0..4 /\ Fit(need)
  BY <1>4 DEF RescalesNeeded
<1>6. need = 0 => p * Rescales[need] = p
  BY RescalesPowers
<1>7. need # 0 => p * Rescales[need] <= RELEASE_ONE
  <2> HAVE need # 0
  <2> DEFINE before == Rescales[need - 1]
  <2>1. need - 1 \in 0..4 /\ need = (need - 1) + 1
    BY <1>5
  <2>2. Rescales[need] = RELEASE_RESCALE * before /\ before \in Nat
    BY <2>1, RescalesPowers
  <2>3. p * before < RELEASE_FLOOR /\ p * before \in Nat
    BY <1>5, <2>2
  <2> HIDE DEF before
  <2>4. RELEASE_RESCALE \in Nat \ {0}
    BY RescaleAssumption
  <2>5. p * (RELEASE_RESCALE * before) = RELEASE_RESCALE * (p * before)
    BY <2>2, <2>4
  <2>6. RELEASE_RESCALE * (p * before) <= RELEASE_RESCALE * RELEASE_FLOOR
    BY <2>3, <2>4, FloorAndOne
  <2> QED BY <2>2, <2>5, <2>6, FloorAndOne
<1> QED BY <1>2, <1>5, <1>6, <1>7

-----------------------------------------------------------------------------
\* The index starts at the full product.
LEMMA InitialInRange == InRange(InitialPoint)
BY FloorAndOne DEF InRange, InitialPoint, ReleasePoint

\* A point does not come after itself, and the order is transitive.
LEMMA NotAfterItself ==
    ASSUME NEW g \in ReleasePoint
    PROVE  NotAfter(g, g)
BY DEF NotAfter, ReleasePoint

LEMMA NotAfterTransitive ==
    ASSUME NEW s \in ReleasePoint, NEW g \in ReleasePoint, NEW h \in ReleasePoint,
           NotAfter(s, g), NotAfter(g, h)
    PROVE  NotAfter(s, h)
BY DEF NotAfter, ReleasePoint

\* A pot moves the index forward and leaves its product in range.
THEOREM AdvanceKeepsOrder ==
    ASSUME NEW g, InRange(g), NEW headroom \in Nat \ {0}, NEW pot \in 1..headroom
    PROVE  /\ InRange(AdvanceRelease(g, pot, headroom))
           /\ NotAfter(g, AdvanceRelease(g, pot, headroom))
<1>1. /\ g.p \in Nat \ {0} /\ g.scale \in Nat /\ g.gen \in Nat /\ g.p <= RELEASE_ONE
  BY DEF InRange, ReleasePoint
<1>2. CASE pot = headroom
  <2>1. AdvanceRelease(g, pot, headroom) = [p |-> RELEASE_ONE, scale |-> 0, gen |-> g.gen + 1]
    BY <1>2 DEF AdvanceRelease
  <2> QED BY <2>1, <1>1, FloorAndOne DEF InRange, NotAfter, ReleasePoint
<1>3. CASE pot # headroom
  <2> DEFINE shrunk == (g.p * (headroom - pot)) \div headroom
             p == IF shrunk = 0 THEN 1 ELSE shrunk
             d == RescalesNeeded(p)
             h == [p |-> p * Rescales[d], scale |-> g.scale + d, gen |-> g.gen]
  <2>1. headroom - pot \in 0..headroom /\ g.p \in Nat
    BY <1>1, <1>3
  <2>2. g.p * (headroom - pot) = (headroom - pot) * g.p
    BY <2>1
  <2>3. ((headroom - pot) * g.p) \div headroom \in 0..g.p
    BY <2>1, ShareAtMost
  <2>4. shrunk \in 0..g.p
    BY <2>2, <2>3
  <2> HIDE DEF shrunk
  <2>5. p \in Nat \ {0} /\ p <= g.p /\ p <= RELEASE_ONE
    BY <1>1, <2>4, FloorAndOne
  <2>6. AdvanceRelease(g, pot, headroom) = h
    BY <1>3 DEF AdvanceRelease, shrunk
  <2> HIDE DEF p
  <2>7. /\ d \in 0..4 /\ p * Rescales[d] \in Nat
        /\ RELEASE_FLOOR <= p * Rescales[d] /\ p * Rescales[d] <= RELEASE_ONE
        /\ d = 0 => p * Rescales[d] = p
    BY <2>5, RescalingEnds
  <2> HIDE DEF d
  <2>8. p * Rescales[d] \in Nat \ {0}
    BY <2>7, FloorAndOne
  <2>9. h.p = p * Rescales[d] /\ h.scale = g.scale + d /\ h.gen = g.gen /\ h \in ReleasePoint
    BY <1>1, <2>7, <2>8 DEF ReleasePoint
  <2> HIDE DEF h
  <2>10. InRange(h)
    BY <2>7, <2>9 DEF InRange
  <2>11. NotAfter(g, h)
    BY <1>1, <2>5, <2>7, <2>9 DEF NotAfter
  <2> QED BY <2>6, <2>10, <2>11
<1> QED BY <1>2, <1>3

\* What is unreleased at a later point is a part of what was unreleased at the earlier one.
THEOREM UnreleasedIsAPart ==
    ASSUME NEW u \in Nat, NEW s, NEW g, InRange(s), InRange(g), NotAfter(s, g)
    PROVE  StillUnreleased(u, s, g) \in 0..u
<1> DEFINE d == g.scale - s.scale
<1>1. /\ s.p \in Nat \ {0} /\ g.p \in Nat \ {0} /\ s.scale \in Nat /\ g.scale \in Nat
      /\ s.gen \in Nat /\ g.gen \in Nat
      /\ RELEASE_FLOOR <= s.p /\ g.p <= RELEASE_ONE
  BY DEF InRange, ReleasePoint
<1>2. CASE u = 0 \/ g.gen # s.gen \/ d > 3
  BY <1>2 DEF StillUnreleased
<1>3. CASE ~(u = 0 \/ g.gen # s.gen \/ d > 3)
  <2>1. d \in 0..3 /\ (d = 0 => g.p <= s.p)
    BY <1>1, <1>3 DEF NotAfter
  <2>2. StillUnreleased(u, s, g) = ((u * g.p) \div s.p) \div Rescales[d]
    BY <1>3 DEF StillUnreleased
  <2> HIDE DEF d
  <2> DEFINE scaled == s.p * Rescales[d]
  <2>3. Rescales[d] \in Nat \ {0}
    BY <2>1, RescalesPowers
  <2>4. g.p <= scaled
    <3>1. CASE d = 0
      BY <1>1, <2>1, <3>1, RescalesPowers
    <3>2. CASE d # 0
      <4> DEFINE before == Rescales[d - 1]
      <4>1. before \in Nat \ {0} /\ Rescales[d] = RELEASE_RESCALE * before
        <5>1. d - 1 \in 0..4 /\ d - 1 \in 0..5 /\ (d - 1) + 1 = d
          BY <2>1, <3>2
        <5> QED BY <5>1, RescalesPowers
      <4> HIDE DEF before
      <4>2. RELEASE_RESCALE \in Nat \ {0} /\ RELEASE_FLOOR \in Nat \ {0}
        BY RescaleAssumption, FloorAndOne
      <4>3. Rescales[d] >= RELEASE_RESCALE * 1
        BY <4>1, <4>2
      <4>4. s.p * Rescales[d] >= RELEASE_FLOOR * RELEASE_RESCALE
        <5>1. s.p * Rescales[d] >= s.p * RELEASE_RESCALE
          BY <1>1, <2>3, <4>2, <4>3
        <5>2. s.p * RELEASE_RESCALE >= RELEASE_FLOOR * RELEASE_RESCALE
          BY <1>1, <4>2
        <5>3. s.p * Rescales[d] \in Nat /\ s.p * RELEASE_RESCALE \in Nat
              /\ RELEASE_FLOOR * RELEASE_RESCALE \in Nat
          BY <1>1, <2>3, <4>2
        <5> QED BY <5>1, <5>2, <5>3
      <4>5. RELEASE_FLOOR * RELEASE_RESCALE = RELEASE_ONE
        BY <4>2, FloorAndOne
      <4>6. s.p * Rescales[d] \in Nat /\ RELEASE_ONE \in Nat
        BY <1>1, <2>3, FloorAndOne
      <4> QED BY <1>1, <4>4, <4>5, <4>6
    <3> QED BY <3>1, <3>2
  <2>5. u * g.p \in Nat /\ u * g.p <= (u * Rescales[d]) * s.p
    <3>1. scaled \in Nat
      BY <1>1, <2>3
    <3>2. u * g.p <= u * scaled
      <4> HIDE DEF scaled
      <4> QED BY <1>1, <2>4, <3>1
    <3>3. u * scaled = (u * Rescales[d]) * s.p
      BY <1>1, <2>3
    <3> QED BY <1>1, <3>2, <3>3
  <2>6. u * Rescales[d] \in Nat
    BY <2>3
  <2>7. (u * g.p) \div s.p \in Nat /\ (u * g.p) \div s.p <= u * Rescales[d]
    BY <1>1, <2>5, <2>6, DivBounds, DivAtMost
  <2>8. /\ ((u * g.p) \div s.p) \div Rescales[d] \in Nat
        /\ ((u * g.p) \div s.p) \div Rescales[d] <= u
    BY <2>3, <2>7, DivBounds, DivAtMost
  <2> QED BY <2>2, <2>8
<1> QED BY <1>2, <1>3

-----------------------------------------------------------------------------
(* What many debts share.  The real part of a debt u, unreleased since s, that is left at g is              *)
(* u * g.p / (s.p * RESCALE^(scales between)); a unit D and a weight z for each debt make it g.p * z / D.   *)
(* A debt that four rescalings or a full release passed over keeps less than one.                           *)
Live(s, g) == s.gen = g.gen /\ g.scale - s.scale <= 3
Weighs(z, u, s, g, D) ==
    /\ g.p * z <= u * D
    /\ IF Live(s, g) THEN z * (s.p * Rescales[g.scale - s.scale]) = u * D ELSE g.p * z < D

\* What a pot smaller than the headroom does to the product: the exact part, rounded down, rescaled.
LEMMA AdvancedProduct ==
    ASSUME NEW g, InRange(g), NEW headroom \in Nat \ {0}, NEW pot \in 1..headroom - 1, headroom <= RELEASE_FLOOR
    PROVE  \E q \in Nat \ {0}, d \in 0..4 :
             /\ AdvanceRelease(g, pot, headroom) = [p |-> q * Rescales[d], scale |-> g.scale + d, gen |-> g.gen]
             /\ q <= g.p /\ q * headroom <= g.p * (headroom - pot) /\ g.p * (headroom - pot) <= (q + 1) * headroom
             /\ d # 0 => q * Rescales[d - 1] < RELEASE_FLOOR
<1> DEFINE left == headroom - pot
           q == (g.p * left) \div headroom
           d == RescalesNeeded(q)
<1>1. g.p \in Nat \ {0} /\ RELEASE_FLOOR <= g.p /\ g.p <= RELEASE_ONE /\ RELEASE_FLOOR \in Nat /\ RELEASE_ONE \in Nat
  BY FloorAndOne DEF InRange, ReleasePoint
<1>2. left \in 1..headroom /\ left \in Nat
  OBVIOUS
<1>3. g.p * left \in Nat /\ headroom <= g.p * left /\ g.p * left <= g.p * headroom
  <2> HIDE DEF left
  <2>1. g.p * 1 <= g.p * left /\ g.p * left <= g.p * headroom
    BY <1>1, <1>2, TimesMonotone
  <2> QED BY <1>1, <1>2, <2>1
<1>4. q \in Nat /\ q * headroom <= g.p * left /\ g.p * left < q * headroom + headroom
  <2> HIDE DEF left
  <2> QED BY <1>1, <1>3, DivBounds
<1>5. q # 0 /\ q <= g.p
  <2>1. 1 * headroom <= g.p * left /\ g.p * left <= g.p * headroom
    BY <1>3
  <2> HIDE DEF left
  <2> QED BY <1>1, <1>3, <2>1, DivAtLeast, DivAtMost
<1>6. AdvanceRelease(g, pot, headroom) = [p |-> q * Rescales[d], scale |-> g.scale + d, gen |-> g.gen]
  BY <1>5 DEF AdvanceRelease
<1>7. g.p * left <= (q + 1) * headroom
  <2>1. (q + 1) * headroom = q * headroom + headroom
    BY <1>4
  <2> HIDE DEF left, q
  <2> QED BY <1>3, <1>4, <2>1
<1> HIDE DEF q
<1>8. q \in Nat \ {0} /\ q <= RELEASE_ONE
  BY <1>1, <1>4, <1>5
<1>9. d \in 0..4 /\ (d # 0 => q * Rescales[d - 1] < RELEASE_FLOOR)
  <2> DEFINE Fit(e) == q * Rescales[e] >= RELEASE_FLOOR /\ (e # 0 => q * Rescales[e - 1] < RELEASE_FLOOR)
  <2>1. d \in 0..4 /\ RELEASE_FLOOR <= q * Rescales[d]
    BY <1>8, RescalingEnds
  <2>2. \E e \in 0..4 : Fit(e)
    <3> DEFINE Reaches == {e \in 0..4 : q * Rescales[e] >= RELEASE_FLOOR}
    <3>1. Reaches \in SUBSET Nat /\ Reaches # {}
      BY <2>1
    <3>2. PICK e \in Reaches : \A f \in Reaches : e <= f
      BY <3>1, LeastMember
    <3>3. e # 0 => e - 1 \in 0..4 /\ e - 1 \notin Reaches
      BY <3>2
    <3>4. e # 0 => q * Rescales[e - 1] \in Int
      <4>1. e # 0 => Rescales[e - 1] \in Nat
        BY <3>3, RescalesPowers
      <4> QED BY <1>8, <4>1
    <3>5. e # 0 => q * Rescales[e - 1] < RELEASE_FLOOR
      BY <1>1, <3>3, <3>4
    <3> QED BY <3>2, <3>5
  <2>3. d \in 0..4 /\ Fit(d)
    BY <2>2, Zenon DEF RescalesNeeded
  <2> QED BY <2>3
<1> HIDE DEF d
<1> QED BY <1>4, <1>5, <1>6, <1>7, <1>8, <1>9

\* The weights say, up to less than one, what _unreleased computes.
LEMMA WeighedUnreleased ==
    ASSUME NEW u \in Nat, NEW z \in Nat, NEW D \in Nat \ {0}, NEW s, NEW g,
           InRange(s), InRange(g), NotAfter(s, g), Weighs(z, u, s, g, D),
           NEW n, n = StillUnreleased(u, s, g)
    PROVE  n \in 0..u /\ n * D <= g.p * z /\ g.p * z < (n + 1) * D
<1>1. n \in 0..u
  BY UnreleasedIsAPart
<1>2. g.p \in Nat \ {0} /\ s.p \in Nat \ {0} /\ g.scale \in Nat /\ s.scale \in Nat
  BY DEF InRange, ReleasePoint
<1>3. CASE ~Live(s, g)
  <2>1. n = 0
    <3>1. g.scale - s.scale \in Int
      BY <1>2
    <3>2. g.gen # s.gen \/ g.scale - s.scale > 3
      BY <1>3, <3>1 DEF Live
    <3> QED BY <3>2 DEF StillUnreleased
  <2>2. g.p * z < D /\ g.p * z \in Nat
    BY <1>2, <1>3 DEF Weighs
  <2> QED BY <1>1, <2>1, <2>2
<1>4. CASE Live(s, g)
  <2> DEFINE d == g.scale - s.scale
             M == s.p * Rescales[d]
             a == (u * g.p) \div s.p
  <2>1. d \in 0..3 /\ s.gen = g.gen
    BY <1>2, <1>4 DEF Live, NotAfter
  <2>2. Rescales[d] \in Nat \ {0}
    BY <2>1, RescalesPowers
  <2>3. M \in Nat \ {0}
    <3> HIDE DEF d
    <3> QED BY <1>2, <2>2
  <2>4. z * M = u * D
    BY <1>4 DEF Weighs
  <2>5. CASE u = 0
    <3>1. n = 0
      BY <1>1, <2>5
    <3>2. z * M = 0
      BY <2>4, <2>5
    <3> HIDE DEF M
    <3>3. z = 0
      BY <2>3, <3>2
    <3> QED BY <1>1, <1>2, <3>1, <3>3
  <2>6. CASE u # 0
    <3>1. n = a \div Rescales[d]
      BY <2>1, <2>6 DEF StillUnreleased
    <3>2. u * g.p \in Nat
      BY <1>2
    <3>3. a \in Nat /\ a * s.p <= u * g.p /\ u * g.p < a * s.p + s.p
      BY <1>2, <3>2, DivBounds
    <3> HIDE DEF a
    <3> DEFINE rd == Rescales[d]
    <3>4. n \in Nat /\ n * rd <= a /\ a < n * rd + rd
      <4> HIDE DEF d
      <4> QED BY <2>2, <3>1, <3>3, DivBounds
    <3>5. rd \in Nat \ {0} /\ M = s.p * rd
      BY <2>2
    <3> HIDE DEF rd, M, d
    <3>6. n * M <= u * g.p
      <4>1. (n * rd) * s.p <= a * s.p
        BY <1>2, <3>3, <3>4, <3>5, TimesMonotone
      <4>2. (n * rd) * s.p = n * M
        BY <1>2, <3>4, <3>5
      <4>3. n * M \in Int /\ a * s.p \in Int
        BY <1>2, <2>3, <3>3, <3>4
      <4> QED BY <3>2, <3>3, <4>1, <4>2, <4>3
    <3>7. u * g.p < (n + 1) * M
      <4>1. a + 1 <= (n + 1) * rd
        BY <3>3, <3>4, <3>5
      <4>2. (a + 1) * s.p <= ((n + 1) * rd) * s.p
        BY <1>2, <3>3, <3>4, <3>5, <4>1, TimesMonotone
      <4>3. ((n + 1) * rd) * s.p = (n + 1) * M /\ (a + 1) * s.p = a * s.p + s.p
        BY <1>2, <3>3, <3>4, <3>5
      <4>4. (n + 1) * M \in Int /\ a * s.p \in Int
        BY <1>2, <2>3, <3>3, <3>4
      <4> QED BY <1>2, <3>2, <3>3, <4>2, <4>3, <4>4
    <3>8. (g.p * z) * M = (u * g.p) * D
      <4>1. (g.p * z) * M = g.p * (z * M)
        BY <1>2, <2>3
      <4>2. g.p * (u * D) = (u * g.p) * D
        BY <1>2
      <4> QED BY <2>4, <4>1, <4>2
    <3>9. (n * D) * M <= (g.p * z) * M
      <4>1. (n * M) * D <= (u * g.p) * D
        BY <2>3, <3>2, <3>4, <3>6, TimesMonotone
      <4>2. (n * M) * D = (n * D) * M
        BY <2>3, <3>4
      <4> QED BY <3>8, <4>1, <4>2
    <3>10. (g.p * z) * M < ((n + 1) * D) * M
      <4>1. u * g.p + 1 <= (n + 1) * M
        BY <2>3, <3>2, <3>4, <3>7
      <4>2. (u * g.p + 1) * D <= ((n + 1) * M) * D
        BY <2>3, <3>2, <3>4, <4>1, TimesMonotone
      <4>3. (u * g.p + 1) * D = (u * g.p) * D + D /\ ((n + 1) * M) * D = ((n + 1) * D) * M
        BY <2>3, <3>2, <3>4
      <4>4. (u * g.p) * D \in Int /\ ((n + 1) * D) * M \in Int
        BY <2>3, <3>2, <3>4
      <4> QED BY <3>8, <4>2, <4>3, <4>4
    <3>11. n * D \in Int /\ g.p * z \in Int /\ (n + 1) * D \in Int
      BY <1>2, <3>4
    <3> QED BY <1>1, <2>3, <3>9, <3>10, <3>11, TimesCancel
  <2> QED BY <2>5, <2>6
<1> QED BY <1>3, <1>4

\* Two successive rescalings are one.
LEMMA RescalesAdd ==
    ASSUME NEW a \in 0..4, NEW b \in 0..4, a + b \in 0..5
    PROVE  Rescales[a + b] = Rescales[a] * Rescales[b]
<1> DEFINE R == RELEASE_RESCALE
<1>1. R \in Nat
  BY RescaleAssumption
<1>2. /\ Rescales[0] = 1 /\ Rescales[1] = R /\ Rescales[2] = R * R /\ Rescales[3] = R * R * R
      /\ Rescales[4] = R * R * R * R /\ Rescales[5] = R * R * R * R * R
  BY DEF Rescales
<1> HIDE DEF R
<1>3. ASSUME NEW x \in 0..5 PROVE Rescales[x] = 1 * Rescales[x] /\ Rescales[x] = Rescales[x] * 1
  BY RescalesPowers
<1>4. CASE a = 0 \/ b = 0
  BY <1>2, <1>3, <1>4
<1>5. CASE a # 0 /\ b # 0
  <2>1. \/ a = 1 /\ b \in {1, 2, 3, 4}
        \/ a = 2 /\ b \in {1, 2, 3}
        \/ a = 3 /\ b \in {1, 2}
        \/ a = 4 /\ b = 1
    BY <1>5
  <2>2. /\ R * R * R = R * (R * R) /\ R * R * R * R = R * (R * R * R)
        /\ R * R * R * R * R = R * (R * R * R * R) /\ R * R * R * R = (R * R) * (R * R)
        /\ R * R * R * R * R = (R * R) * (R * R * R) /\ R * R * R * R * R = (R * R * R) * (R * R)
    BY <1>1
  <2> QED BY <1>2, <2>1, <2>2
<1> QED BY <1>4, <1>5

\* A larger power is a larger number.
LEMMA RescalesGrow ==
    ASSUME NEW a \in 0..4, NEW b \in 0..4, a <= b
    PROVE  Rescales[a] <= Rescales[b]
<1>1. b - a \in 0..4 /\ a + (b - a) = b /\ a + (b - a) \in 0..5
  OBVIOUS
<1>2. Rescales[b] = Rescales[a] * Rescales[b - a]
  BY <1>1, RescalesAdd
<1>3. Rescales[a] \in Nat /\ Rescales[b - a] \in Nat \ {0}
  BY <1>1, RescalesPowers
<1>4. Rescales[a] * 1 <= Rescales[a] * Rescales[b - a]
  BY <1>3, TimesMonotone
<1> QED BY <1>2, <1>3, <1>4

\* The unit can be made finer, ...
LEMMA WeighsFiner ==
    ASSUME NEW z \in Nat, NEW u \in Nat, NEW D \in Nat, NEW m \in Nat \ {0},
           NEW s, NEW g, InRange(s), InRange(g), NotAfter(s, g), Weighs(z, u, s, g, D)
    PROVE  Weighs(z * m, u, s, g, D * m)
<1>1. g.p \in Nat \ {0} /\ s.p \in Nat \ {0} /\ g.scale \in Nat /\ s.scale \in Nat
  BY DEF InRange, ReleasePoint
<1>2. g.p * (z * m) <= u * (D * m)
  <2>1. (g.p * z) * m <= (u * D) * m
    BY <1>1, TimesMonotone DEF Weighs
  <2>2. (g.p * z) * m = g.p * (z * m) /\ (u * D) * m = u * (D * m)
    BY <1>1
  <2> QED BY <2>1, <2>2
<1>3. CASE Live(s, g)
  <2> DEFINE rd == Rescales[g.scale - s.scale]
  <2>1. g.scale - s.scale \in 0..3
    BY <1>1, <1>3 DEF Live, NotAfter
  <2>2. rd \in Nat
    BY <2>1, RescalesPowers
  <2>3. z * (s.p * rd) = u * D
    BY <1>3 DEF Weighs
  <2> HIDE DEF rd
  <2>4. (z * m) * (s.p * rd) = (z * (s.p * rd)) * m /\ (u * D) * m = u * (D * m)
    BY <1>1, <2>2
  <2>5. (z * m) * (s.p * rd) = u * (D * m)
    BY <2>3, <2>4
  <2> QED BY <1>2, <1>3, <2>5 DEF Weighs, rd
<1>4. CASE ~Live(s, g)
  <2>1. g.p * z + 1 <= D
    BY <1>1, <1>4 DEF Weighs
  <2>2. (g.p * z + 1) * m <= D * m
    BY <1>1, <2>1, TimesMonotone
  <2>3. (g.p * z + 1) * m = g.p * (z * m) + m
    BY <1>1
  <2>4. g.p * (z * m) < D * m
    <3>1. g.p * (z * m) \in Int /\ D * m \in Int
      BY <1>1
    <3> QED BY <2>2, <2>3, <3>1
  <2> QED BY <1>2, <1>4, <2>4 DEF Weighs
<1> QED BY <1>3, <1>4

\* ... a debt whose snapshot is taken anew weighs itself, ...
LEMMA WeighsAnew ==
    ASSUME NEW n \in Nat, NEW D \in Nat, NEW g, InRange(g)
    PROVE  Weighs(n * D, n, g, g, D * g.p)
<1>1. g.p \in Nat \ {0} /\ g.scale \in Nat
  BY DEF InRange, ReleasePoint
<1>2. g.scale - g.scale = 0 /\ Live(g, g)
  BY <1>1 DEF Live
<1>3. g.p * (n * D) = n * (D * g.p) /\ (n * D) * (g.p * 1) = n * (D * g.p)
  BY <1>1
<1>4. g.p * (n * D) <= n * (D * g.p)
  <2>1. n * (D * g.p) \in Int
    BY <1>1
  <2> QED BY <1>3, <2>1
<1>5. Rescales[g.scale - g.scale] = 1
  BY <1>2, RescalesPowers
<1>6. (n * D) * (g.p * Rescales[g.scale - g.scale]) = n * (D * g.p)
  BY <1>3, <1>5
<1> QED BY <1>2, <1>4, <1>6 DEF Weighs

\* ... and a pot that shrinks the product keeps every weight.  A debt of at most RESCALE^3, which the
\* supply of BAC is, has less than one left when its fourth rescaling comes.
LEMMA WeighsAdvanced ==
    ASSUME NEW z \in Nat, NEW u \in Nat, u <= Rescales[3], NEW D \in Nat \ {0}, NEW s, NEW g, NEW h,
           InRange(s), InRange(g), NotAfter(s, g), Weighs(z, u, s, g, D),
           NEW q \in Nat \ {0}, NEW d \in 0..4, q <= g.p, d # 0 => q * Rescales[d - 1] < RELEASE_FLOOR,
           h = [p |-> q * Rescales[d], scale |-> g.scale + d, gen |-> g.gen]
    PROVE  Weighs(z, u, s, h, D * Rescales[d])
<1> DEFINE m == Rescales[d]
<1>1. g.p \in Nat \ {0} /\ s.p \in Nat \ {0} /\ g.scale \in Nat /\ s.scale \in Nat
      /\ RELEASE_FLOOR \in Nat \ {0} /\ RELEASE_FLOOR <= s.p
  BY FloorAndOne DEF InRange, ReleasePoint
<1>2. m \in Nat \ {0} /\ h.p = q * m /\ h.scale = g.scale + d /\ h.gen = g.gen
  BY RescalesPowers
<1> HIDE DEF m
<1>3. q * z <= g.p * z /\ q * z \in Nat /\ g.p * z \in Nat
  BY <1>1, TimesMonotone
<1>4. h.p * z = (q * z) * m
  BY <1>2
<1>5. h.p * z <= u * (D * m)
  <2>1. q * z <= u * D
    <3>1. g.p * z <= u * D /\ u * D \in Int
      BY DEF Weighs
    <3> QED BY <1>3, <3>1
  <2>2. (q * z) * m <= (u * D) * m
    BY <1>2, <1>3, <2>1, TimesMonotone
  <2>3. (u * D) * m = u * (D * m)
    BY <1>2
  <2> QED BY <1>4, <2>2, <2>3
<1>6. CASE Live(s, h)
  <2> DEFINE b == g.scale - s.scale
             rb == Rescales[b]
  <2>1. s.gen = g.gen /\ b + d <= 3 /\ b \in Int /\ s.scale <= g.scale
    BY <1>1, <1>2, <1>6 DEF Live, NotAfter
  <2>2. b \in 0..3 /\ b + d \in 0..3 /\ Live(s, g) /\ h.scale - s.scale = b + d
    BY <1>1, <1>2, <2>1 DEF Live
  <2>3. z * (s.p * rb) = u * D
    BY <2>2 DEF Weighs
  <2>4. rb \in Nat /\ Rescales[h.scale - s.scale] = rb * m
    <3>1. b \in 0..4 /\ b \in 0..5 /\ b + d \in 0..5
      BY <2>2
    <3>2. Rescales[b + d] = Rescales[b] * Rescales[d]
      BY <3>1, RescalesAdd
    <3>3. rb \in Nat
      BY <3>1, RescalesPowers
    <3> QED BY <2>2, <3>2, <3>3 DEF m
  <2> HIDE DEF b, rb
  <2>5. z * (s.p * (rb * m)) = (z * (s.p * rb)) * m /\ (u * D) * m = u * (D * m)
    BY <1>1, <1>2, <2>4
  <2>6. z * (s.p * Rescales[h.scale - s.scale]) = u * (D * m)
    BY <2>3, <2>4, <2>5
  <2> QED BY <1>5, <1>6, <2>6 DEF Weighs, m
<1>7. CASE ~Live(s, h)
  <2>1. q * z < D
    <3>1. CASE ~Live(s, g)
      <4>1. g.p * z < D
        BY <3>1 DEF Weighs
      <4> QED BY <1>3, <4>1
    <3>2. CASE Live(s, g)
      <4> DEFINE b == g.scale - s.scale
                 rb == Rescales[b]
                 M == s.p * rb
      <4>1. s.gen = g.gen /\ b \in 0..3
        BY <1>1, <3>2 DEF Live, NotAfter
      <4>2. b + d > 3
        BY <1>1, <1>2, <1>7, <4>1 DEF Live
      <4>3. d # 0 /\ d - 1 \in 0..4 /\ 3 - b \in 0..4 /\ 3 - b <= d - 1 /\ (3 - b) + (b + 1) = 4 /\ b + 1 \in 0..4
        BY <4>1, <4>2
      <4>4. rb \in Nat \ {0} /\ Rescales[3 - b] \in Nat \ {0} /\ Rescales[b + 1] \in Nat \ {0}
            /\ Rescales[3] \in Nat \ {0} /\ Rescales[d - 1] \in Nat \ {0}
        <5>1. b \in 0..5 /\ 3 - b \in 0..5 /\ b + 1 \in 0..5 /\ 3 \in 0..5 /\ d - 1 \in 0..5
          BY <4>1, <4>3
        <5> QED BY <5>1, RescalesPowers
      <4>5. RELEASE_FLOOR = Rescales[b + 1] * Rescales[3 - b]
        <5>1. (b + 1) + (3 - b) = 4 /\ 4 \in 0..5
          BY <4>1
        <5>2. Rescales[(b + 1) + (3 - b)] = Rescales[b + 1] * Rescales[3 - b]
          BY <4>3, <5>1, RescalesAdd
        <5> QED BY <5>1, <5>2 DEF RELEASE_FLOOR
      <4>6. Rescales[b + 1] * Rescales[3] = RELEASE_FLOOR * rb
        <5>1. b + 1 = 1 + b /\ 1 \in 0..4 /\ 1 + 3 = 4 /\ 3 \in 0..4 /\ 1 + b \in 0..5 /\ 4 \in 0..5 /\ b \in 0..4
          BY <4>1
        <5>2. Rescales[1 + b] = Rescales[1] * rb
          BY <5>1, RescalesAdd
        <5>3. Rescales[1 + 3] = Rescales[1] * Rescales[3]
          BY <5>1, RescalesAdd
        <5>4. Rescales[1 + 3] = RELEASE_FLOOR
          BY <5>1 DEF RELEASE_FLOOR
        <5>5. Rescales[1] \in Nat
          BY RescalesPowers
        <5> DEFINE x == Rescales[1]
                   y == Rescales[3]
        <5>6. Rescales[b + 1] = x * rb /\ RELEASE_FLOOR = x * y /\ x \in Nat /\ y \in Nat
          BY <4>4, <5>1, <5>2, <5>3, <5>4, <5>5
        <5> HIDE DEF x, rb, b
        <5> HIDE DEF y
        <5>7. (x * rb) * y = (x * y) * rb
          BY <4>4, <5>6
        <5> QED BY <5>6, <5>7 DEF y
      <4>7. q < Rescales[b + 1]
        <5> DEFINE low == Rescales[3 - b]
                   top == Rescales[b + 1]
        <5>1. low <= Rescales[d - 1]
          BY <4>3, RescalesGrow
        <5>2. q * low <= q * Rescales[d - 1]
          BY <4>4, <5>1, TimesMonotone
        <5>3. q * Rescales[d - 1] < RELEASE_FLOOR /\ q * Rescales[d - 1] \in Int /\ q * low \in Int
          BY <4>3, <4>4
        <5>4. q * low < top * low
          BY <1>1, <4>5, <5>2, <5>3
        <5> HIDE DEF low, top
        <5>5. q < top
          BY <4>4, <5>4, TimesCancel DEF low, top
        <5> QED BY <5>5 DEF top
      <4>8. z * M = u * D
        BY <3>2 DEF Weighs
      <4>9. M \in Nat \ {0}
        <5> HIDE DEF rb
        <5> QED BY <1>1, <4>4
      <4>10. q * u < M
        <5> DEFINE top == Rescales[b + 1]
                   third == Rescales[3]
        <5>1. top \in Nat \ {0} /\ third \in Nat \ {0} /\ q + 1 <= top /\ u <= third
          BY <4>4, <4>7
        <5>2. top * third = RELEASE_FLOOR * rb
          BY <4>6
        <5> HIDE DEF top, third, rb, M
        <5>3. (q + 1) * third <= top * third
          BY <5>1, TimesMonotone
        <5>4. q * u <= q * third /\ (q + 1) * third = q * third + third
          BY <5>1, TimesMonotone
        <5>5. RELEASE_FLOOR * rb <= s.p * rb
          BY <1>1, <4>4, TimesMonotone
        <5>6. q * u \in Int /\ q * third \in Int /\ top * third \in Int /\ s.p * rb \in Int /\ M = s.p * rb
          BY <1>1, <4>4, <5>1 DEF M
        <5> QED BY <5>1, <5>2, <5>3, <5>4, <5>5, <5>6
      <4> HIDE DEF M, rb, b
      <4>11. (q * z) * M < D * M
        <5>1. (q * u + 1) * D <= M * D
          BY <4>9, <4>10, TimesMonotone
        <5>2. (q * z) * M = q * (z * M) /\ q * (u * D) = (q * u) * D /\ (q * u + 1) * D = (q * u) * D + D
              /\ M * D = D * M
          BY <4>9
        <5>3. (q * u) * D \in Int /\ D * M \in Int
          BY <4>9
        <5> QED BY <4>8, <5>1, <5>2, <5>3
      <4>12. q * z \in Int /\ D \in Int
        OBVIOUS
      <4> QED BY <4>9, <4>11, <4>12, TimesCancel
    <3> QED BY <3>1, <3>2
  <2>2. (q * z + 1) * m <= D * m
    BY <1>2, <1>3, <2>1, TimesMonotone
  <2>3. (q * z + 1) * m = (q * z) * m + m /\ (q * z) * m \in Int /\ D * m \in Int
    BY <1>2, <1>3
  <2>4. h.p * z < D * m
    BY <1>2, <1>4, <2>2, <2>3
  <2> QED BY <1>5, <1>7, <2>4 DEF Weighs, m
<1> QED BY <1>6, <1>7

-----------------------------------------------------------------------------
(* The debts together.  X, in units of D, is their unreleased part, H the debt no pot has reserved: X is   *)
(* at most H, and short of it by less than a unit for each of k harvests and one in RESCALE for each of l  *)
(* pots.                                                                                                   *)
Fills(X, H, k, l, D) == X <= H * D /\ H * D * RELEASE_RESCALE <= (X + k * D) * RELEASE_RESCALE + l * D

Tracked(W, u, s, g, H, k, l) ==
    \E D \in Nat \ {0} : \E z \in [W -> Nat] :
       /\ \A w \in W : Weighs(z[w], u[w], s[w], g, D)
       /\ Fills(g.p * SumFunctionOnSet(z, W), H, k, l, D)

\* A sum of unsigned figures, itself one.
LEMMA SumOfWeights ==
    ASSUME NEW W, IsFiniteSet(W), NEW z \in [W -> Nat]
    PROVE  SumFunctionOnSet(z, W) \in Nat
<1>1. \A w \in W : z[w] \in Nat
  OBVIOUS
<1> QED BY <1>1, SumNat

\* Further harvests and pots only widen the margin.
LEMMA FillsLonger ==
    ASSUME NEW X \in Nat, NEW H \in Nat, NEW k \in Nat, NEW l \in Nat, NEW D \in Nat, Fills(X, H, k, l, D),
           NEW k2 \in Nat, NEW l2 \in Nat, k <= k2, l <= l2
    PROVE  Fills(X, H, k2, l2, D)
<1> DEFINE R == RELEASE_RESCALE
<1>1. R \in Nat
  BY RescaleAssumption
<1> HIDE DEF R
<1>2. k * D <= k2 * D /\ l * D <= l2 * D /\ k * D \in Nat /\ k2 * D \in Nat /\ l * D \in Nat /\ l2 * D \in Nat
  BY TimesMonotone
<1> DEFINE a == X + k * D
           b == X + k2 * D
<1>3. a \in Nat /\ b \in Nat /\ a <= b
  BY <1>2
<1> HIDE DEF a, b
<1>4. a * R <= b * R /\ a * R \in Int /\ b * R \in Int
  BY <1>1, <1>3, TimesMonotone
<1>5. H * D * R \in Int
  BY <1>1
<1>6. H * D * R <= a * R + l * D
  BY DEF Fills, R, a
<1>7. H * D * R <= b * R + l2 * D
  BY <1>2, <1>4, <1>5, <1>6
<1> QED BY <1>7 DEF Fills, R, b

LEMMA TrackedLonger ==
    ASSUME NEW W, IsFiniteSet(W), NEW u, NEW s, NEW g, InRange(g), NEW H \in Nat, NEW k \in Nat, NEW l \in Nat,
           Tracked(W, u, s, g, H, k, l), NEW k2 \in Nat, NEW l2 \in Nat, k <= k2, l <= l2
    PROVE  Tracked(W, u, s, g, H, k2, l2)
<1>1. PICK D \in Nat \ {0}, z \in [W -> Nat] :
         /\ \A w \in W : Weighs(z[w], u[w], s[w], g, D)
         /\ Fills(g.p * SumFunctionOnSet(z, W), H, k, l, D)
  BY DEF Tracked
<1> DEFINE X == g.p * SumFunctionOnSet(z, W)
<1>2. X \in Nat
  <2>1. SumFunctionOnSet(z, W) \in Nat /\ g.p \in Nat
    BY SumOfWeights DEF InRange, ReleasePoint
  <2> QED BY <2>1
<1> HIDE DEF X
<1>3. Fills(X, H, k2, l2, D)
  BY <1>1, <1>2, FillsLonger DEF X
<1> QED BY <1>1, <1>3 DEF Tracked, X

\* Nothing owed, nothing to track.
LEMMA TrackedNothing ==
    ASSUME NEW W, IsFiniteSet(W), NEW u, NEW s, NEW g, InRange(g), NEW k \in Nat, NEW l \in Nat,
           \A w \in W : u[w] \in Nat /\ InRange(s[w]) /\ NotAfter(s[w], g),
           \A w \in W : u[w] = 0 \/ ~Live(s[w], g)
    PROVE  Tracked(W, u, s, g, 0, k, l)
<1> DEFINE z == [w \in W |-> 0]
<1>1. z \in [W -> Nat] /\ SumFunctionOnSet(z, W) = 0
  <2>1. \A w \in W : z[w] = 0
    OBVIOUS
  <2>2. SumFunctionOnSet(z, W) = 0
    BY <2>1, SumZero
  <2> QED BY <2>2
<1>2. g.p \in Nat
  BY DEF InRange, ReleasePoint
<1>3. ASSUME NEW w \in W PROVE Weighs(z[w], u[w], s[w], g, 1)
  <2>1. z[w] = 0 /\ g.p * 0 = 0 /\ u[w] * 1 = u[w] /\ u[w] \in Nat
    BY <1>2
  <2>2. Live(s[w], g) => u[w] = 0 /\ g.scale - s[w].scale <= 3 /\ s[w].gen = g.gen
    BY DEF Live
  <2>3. Live(s[w], g) => 0 * (s[w].p * Rescales[g.scale - s[w].scale]) = 0 * 1
    <3> SUFFICES ASSUME Live(s[w], g) PROVE 0 * (s[w].p * Rescales[g.scale - s[w].scale]) = 0 * 1
      OBVIOUS
    <3>1. s[w].p \in Nat /\ g.scale - s[w].scale \in 0..3
      BY DEF InRange, ReleasePoint, NotAfter, Live
    <3>2. Rescales[g.scale - s[w].scale] \in Nat
      BY <3>1, RescalesPowers
    <3> QED BY <3>1, <3>2
  <2> QED BY <2>1, <2>2, <2>3 DEF Weighs
<1>4. Fills(g.p * 0, 0, k, l, 1)
  <2>1. RELEASE_RESCALE \in Nat
    BY RescaleAssumption
  <2> DEFINE a == k * RELEASE_RESCALE
  <2>2. a \in Nat
    BY <2>1
  <2>3. g.p * 0 = 0 /\ (0 + k * 1) * RELEASE_RESCALE = a /\ 0 * 1 * RELEASE_RESCALE = 0
    BY <1>2, <2>1
  <2> HIDE DEF a
  <2>4. 0 * 1 * RELEASE_RESCALE <= a + l * 1
    BY <2>2, <2>3
  <2>5. (g.p * 0 + k * 1) * RELEASE_RESCALE = a
    BY <2>3
  <2> QED BY <2>3, <2>4, <2>5 DEF Fills
<1> QED BY <1>1, <1>3, <1>4 DEF Tracked

\* A pot, at most the whole of what is not reserved: what is left of the debts is left of the headroom.
LEMMA TrackedPot ==
    ASSUME NEW W, IsFiniteSet(W), NEW u, NEW s, NEW g, InRange(g),
           \A w \in W : u[w] \in Nat /\ u[w] <= Rescales[3] /\ InRange(s[w]) /\ NotAfter(s[w], g),
           NEW H \in Nat \ {0}, H <= Rescales[3], NEW pot \in 1..H, NEW k \in Nat, NEW l \in Nat,
           Tracked(W, u, s, g, H, k, l)
    PROVE  Tracked(W, u, s, AdvanceRelease(g, pot, H), H - pot, k, l + 1)
<1> DEFINE h == AdvanceRelease(g, pot, H)
           left == H - pot
<1>1. InRange(h) /\ NotAfter(g, h) /\ g \in ReleasePoint /\ h \in ReleasePoint
  BY AdvanceKeepsOrder DEF InRange
<1>2. left \in 0..H /\ l + 1 \in Nat
  OBVIOUS
<1>3. ASSUME NEW w \in W PROVE NotAfter(s[w], h)
  BY <1>1, NotAfterTransitive DEF InRange
<1>4. CASE pot = H
  <2>1. h = [p |-> RELEASE_ONE, scale |-> 0, gen |-> g.gen + 1]
    BY <1>4 DEF AdvanceRelease
  <2>2. ASSUME NEW w \in W PROVE ~Live(s[w], h)
    <3>1. s[w].gen \in Nat /\ g.gen \in Nat /\ s[w].gen <= g.gen /\ h.gen = g.gen + 1
      BY <1>1, <2>1 DEF InRange, ReleasePoint, NotAfter
    <3>2. s[w].gen # h.gen
      BY <3>1
    <3> QED BY <3>2 DEF Live
  <2>3. left = 0
    BY <1>4
  <2> HIDE DEF h, left
  <2>4. Tracked(W, u, s, h, 0, k, l + 1)
    BY <1>1, <1>2, <1>3, <2>2, TrackedNothing
  <2> QED BY <2>3, <2>4 DEF h, left
<1>5. CASE pot # H
  <2>1. H <= RELEASE_FLOOR
    <3>1. Rescales[3] <= RELEASE_FLOOR /\ Rescales[3] \in Nat /\ RELEASE_FLOOR \in Nat
      BY RescalesGrow, RescalesPowers DEF RELEASE_FLOOR
    <3> QED BY <3>1
  <2>2. PICK q \in Nat \ {0}, d \in 0..4 :
           /\ h = [p |-> q * Rescales[d], scale |-> g.scale + d, gen |-> g.gen]
           /\ q <= g.p /\ q * H <= g.p * left /\ g.p * left <= (q + 1) * H
           /\ d # 0 => q * Rescales[d - 1] < RELEASE_FLOOR
    <3>1. pot \in 1..H - 1
      BY <1>5
    <3> QED BY <2>1, <3>1, AdvancedProduct
  <2> DEFINE m == Rescales[d]
             R == RELEASE_RESCALE
  <2>3. PICK D \in Nat \ {0}, z \in [W -> Nat] :
           /\ \A w \in W : Weighs(z[w], u[w], s[w], g, D)
           /\ Fills(g.p * SumFunctionOnSet(z, W), H, k, l, D)
    BY DEF Tracked
  <2> HIDE DEF h, left
  <2> DEFINE Z == SumFunctionOnSet(z, W)
  <2>4. Z \in Nat /\ g.p \in Nat /\ m \in Nat \ {0} /\ RELEASE_FLOOR \in Nat /\ RELEASE_FLOOR <= g.p /\ R \in Nat \ {0}
    BY SumOfWeights, RescalesPowers, FloorAndOne, RescaleAssumption DEF InRange, ReleasePoint
  <2>5. ASSUME NEW w \in W PROVE Weighs(z[w], u[w], s[w], h, D * m)
    BY <2>2, <2>3, WeighsAdvanced
  <2>6. h.p = q * m
    BY <2>2
  <2>7. Fills(g.p * Z, H, k, l, D)
    BY <2>3
  <2> HIDE DEF m, Z, R
  <2>8. g.p * Z <= H * D /\ H * D * R <= (g.p * Z + k * D) * R + l * D
    BY <2>7 DEF Fills, R
  <2>9. q * Z <= left * D
    BY <1>2, <2>2, <2>4, <2>8, ShrunkFits
  <2>10. R * Z <= D
    <3> DEFINE third == Rescales[3]
    <3>1. RELEASE_FLOOR = R * third /\ third \in Nat \ {0}
      <4>1. 3 \in 0..4 /\ 3 + 1 = 4 /\ 3 \in 0..5
        OBVIOUS
      <4>2. Rescales[3 + 1] = RELEASE_RESCALE * Rescales[3]
        BY ONLY <4>1, RescalesPowers
      <4> QED BY <4>1, <4>2, RescalesPowers DEF RELEASE_FLOOR, R
    <3>2. H <= third
      OBVIOUS
    <3> HIDE DEF third
    <3>3. RELEASE_FLOOR * Z <= g.p * Z /\ H * D <= third * D
      BY <2>4, <3>1, <3>2, TimesMonotone
    <3>4. RELEASE_FLOOR * Z = (R * Z) * third /\ third * D = D * third
      BY <2>4, <3>1
    <3>5. (R * Z) * third <= D * third
      <4>1. RELEASE_FLOOR * Z \in Int /\ g.p * Z \in Int /\ H * D \in Int /\ third * D \in Int
        BY <2>4, <3>1
      <4> QED BY <2>8, <3>3, <3>4, <4>1
    <3>6. R * Z \in Int /\ D \in Int
      BY <2>4
    <3> QED BY <3>1, <3>5, <3>6, TimesCancel
  <2>11. left * D * R <= (q * Z + k * D) * R + (l + 1) * D
    BY <1>2, <2>2, <2>4, <2>8, <2>10, ShrunkFills
  <2>12. Fills(h.p * Z, left, k, l + 1, D * m)
    <3> DEFINE a == q * Z
               b == left * D
               c == (q * Z + k * D) * R + (l + 1) * D
    <3>1. a \in Nat /\ b \in Nat /\ c \in Nat /\ b * R \in Nat
      <4>1. a \in Nat /\ b \in Nat /\ k * D \in Nat /\ (l + 1) * D \in Nat
        BY <1>2, <2>4
      <4> HIDE DEF a, b
      <4>2. (a + k * D) * R \in Nat /\ b * R \in Nat
        BY <2>4, <4>1
      <4> QED BY <4>1, <4>2 DEF a
    <3>2. h.p * Z = a * m /\ left * (D * m) = b * m /\ left * (D * m) * R = (b * R) * m
      BY <1>2, <2>4, <2>6
    <3>3. (h.p * Z + k * (D * m)) * R + (l + 1) * (D * m) = c * m
      BY <1>2, <2>4, <2>6
    <3> HIDE DEF a, b, c
    <3>4. a * m <= b * m /\ (b * R) * m <= c * m
      BY <2>4, <2>9, <2>11, <3>1, TimesMonotone DEF a, b, c
    <3>5. h.p * Z <= left * (D * m)
      BY <3>2, <3>4
    <3>6. left * (D * m) * R <= (h.p * Z + k * (D * m)) * R + (l + 1) * (D * m)
      BY <3>2, <3>3, <3>4
    <3> QED BY <3>5, <3>6 DEF Fills, R
  <2>13. D * m \in Nat \ {0}
    BY <2>4
  <2>14. Tracked(W, u, s, h, left, k, l + 1)
    BY <2>5, <2>12, <2>13 DEF Tracked, Z
  <2> QED BY <2>14 DEF h, left
<1> QED BY <1>4, <1>5

\* What two functions bound place by place, they bound together.
LEMMA SumSandwich ==
    ASSUME NEW W, IsFiniteSet(W), NEW A, NEW z, NEW a, NEW b, NEW c, NEW m \in Nat, NEW D \in Nat,
           \A w \in W : A[w] \in Nat /\ z[w] \in Nat /\ a[w] \in Nat /\ b[w] \in Nat /\ c[w] \in Nat,
           \A w \in W : A[w] + D * a[w] <= m * z[w] + D * b[w],
           \A w \in W : m * z[w] + D * b[w] <= A[w] + D * (a[w] + c[w])
    PROVE  LET S(f) == SumFunctionOnSet(f, W)
           IN  /\ S(A) + D * S(a) <= m * S(z) + D * S(b)
               /\ m * S(z) + D * S(b) <= S(A) + D * (S(a) + S(c))
<1> DEFINE S(f) == SumFunctionOnSet(f, W)
           low == [w \in W |-> A[w] + D * a[w]]
           mid == [w \in W |-> m * z[w] + D * b[w]]
           top == [w \in W |-> A[w] + D * (a[w] + c[w])]
           Da == [w \in W |-> D * a[w]]
           Db == [w \in W |-> D * b[w]]
           mz == [w \in W |-> m * z[w]]
           ac == [w \in W |-> a[w] + c[w]]
           Dac == [w \in W |-> D * ac[w]]
<1>1. \A w \in W : Da[w] \in Int /\ Db[w] \in Int /\ mz[w] \in Int /\ ac[w] \in Int /\ Dac[w] \in Int
  OBVIOUS
<1>2. \A w \in W : /\ Da[w] = D * a[w] /\ Db[w] = D * b[w] /\ mz[w] = m * z[w] /\ ac[w] = a[w] + c[w]
                   /\ Dac[w] = D * ac[w]
  OBVIOUS
<1>3. \A w \in W : low[w] = A[w] + Da[w] /\ mid[w] = mz[w] + Db[w] /\ top[w] = A[w] + Dac[w]
  OBVIOUS
<1>4. \A w \in W : low[w] <= mid[w] /\ mid[w] <= top[w]
  OBVIOUS
<1>5. \A w \in W : low[w] \in Int /\ mid[w] \in Int /\ top[w] \in Int
  OBVIOUS
<1>6. \A w \in W : A[w] \in Int /\ z[w] \in Int /\ a[w] \in Int /\ b[w] \in Int /\ c[w] \in Int
  OBVIOUS
<1> HIDE DEF low, mid, top, Da, Db, mz, ac, Dac
<1>7. S(low) = S(A) + S(Da)
  BY ONLY IsFiniteSet(W), <1>1, <1>3, <1>6, SumPlus
<1>8. S(mid) = S(mz) + S(Db)
  BY ONLY IsFiniteSet(W), <1>1, <1>3, SumPlus
<1>9. S(top) = S(A) + S(Dac)
  BY ONLY IsFiniteSet(W), <1>1, <1>3, <1>6, SumPlus
<1>10. S(ac) = S(a) + S(c)
  BY ONLY IsFiniteSet(W), <1>1, <1>2, <1>6, SumPlus
<1>11. S(Da) = D * S(a)
  BY ONLY IsFiniteSet(W), D \in Nat, <1>2, <1>6, SumTimes
<1>12. S(Db) = D * S(b)
  BY ONLY IsFiniteSet(W), D \in Nat, <1>2, <1>6, SumTimes
<1>13. S(mz) = m * S(z)
  BY ONLY IsFiniteSet(W), m \in Nat, <1>2, <1>6, SumTimes
<1>14. S(Dac) = D * S(ac)
  BY ONLY IsFiniteSet(W), D \in Nat, <1>1, <1>2, SumTimes
<1>15. S(low) <= S(mid)
  BY ONLY IsFiniteSet(W), <1>4, <1>5, SumMonotone
<1>16. S(mid) <= S(top)
  BY ONLY IsFiniteSet(W), <1>4, <1>5, SumMonotone
<1>17. S(A) + D * S(a) <= m * S(z) + D * S(b)
  BY ONLY <1>7, <1>8, <1>11, <1>12, <1>13, <1>15
<1>18. m * S(z) + D * S(b) <= S(A) + D * (S(a) + S(c))
  BY ONLY <1>8, <1>9, <1>10, <1>12, <1>13, <1>14, <1>16
<1> QED BY <1>17, <1>18

\* The debts of hit get new snapshots: u2 are the debts then, `before` and `after` what the ones in hit had
\* unreleased and have.
TakenAnew(W, hit, u, s, g, u2, s2, before, after) ==
    \A w \in W : /\ IF w \in hit THEN s2[w] = g ELSE s2[w] = s[w] /\ u2[w] = u[w]
                 /\ before[w] = IF w \in hit THEN StillUnreleased(u[w], s[w], g) ELSE 0
                 /\ after[w] = IF w \in hit THEN u2[w] ELSE 0

\* They stay tracked if the headroom moves by as much, unless it ends at nothing or at no less than all the
\* debt there is; each of them counts as a harvest.
LEMMA TrackedAnew ==
    ASSUME NEW W, IsFiniteSet(W), NEW u \in [W -> Nat], NEW s, NEW g, InRange(g),
           \A w \in W : InRange(s[w]) /\ NotAfter(s[w], g),
           NEW H \in Nat, NEW k \in Nat, NEW l \in Nat, Tracked(W, u, s, g, H, k, l),
           NEW hit \in SUBSET W, NEW u2 \in [W -> Nat], NEW s2, NEW before, NEW after,
           TakenAnew(W, hit, u, s, g, u2, s2, before, after),
           NEW H2 \in Nat,
           \/ H + SumFunctionOnSet(after, W) <= H2 + SumFunctionOnSet(before, W)
           \/ SumFunctionOnSet(u2, W) <= H2,
           H2 # 0 => H2 + SumFunctionOnSet(before, W) <= H + SumFunctionOnSet(after, W),
           NEW k2, k2 = k + Cardinality(hit)
    PROVE  Tracked(W, u2, s2, g, H2, k2, l)
<1>0. /\ \A w \in W : IF w \in hit THEN s2[w] = g ELSE s2[w] = s[w] /\ u2[w] = u[w]
      /\ \A w \in W : before[w] = IF w \in hit THEN StillUnreleased(u[w], s[w], g) ELSE 0
      /\ \A w \in W : after[w] = IF w \in hit THEN u2[w] ELSE 0
  BY DEF TakenAnew
<1>1. PICK D \in Nat \ {0}, z \in [W -> Nat] :
         /\ \A w \in W : Weighs(z[w], u[w], s[w], g, D)
         /\ Fills(g.p * SumFunctionOnSet(z, W), H, k, l, D)
  BY DEF Tracked
<1>2. g.p \in Nat \ {0}
  BY DEF InRange, ReleasePoint
<1> DEFINE A == [w \in W |-> IF w \in hit THEN u2[w] * D ELSE z[w] * g.p]
           c == [w \in W |-> IF w \in hit THEN 1 ELSE 0]
           S(f) == SumFunctionOnSet(f, W)
<1>3. \A w \in W : /\ A[w] = IF w \in hit THEN u2[w] * D ELSE z[w] * g.p
                   /\ c[w] = IF w \in hit THEN 1 ELSE 0
  OBVIOUS
<1>4. A \in [W -> Nat]
  <2>1. ASSUME NEW w \in W PROVE u2[w] * D \in Nat /\ z[w] * g.p \in Nat
    BY <1>2
  <2> QED BY <2>1
<1> HIDE DEF A, c
<1>5. ASSUME NEW w \in W PROVE Weighs(A[w], u2[w], s2[w], g, D * g.p)
  <2>1. CASE w \in hit
    <3>1. A[w] = u2[w] * D /\ s2[w] = g /\ u2[w] \in Nat
      BY <1>0, <1>3, <2>1
    <3> QED BY <3>1, WeighsAnew
  <2>2. CASE w \notin hit
    <3>1. A[w] = z[w] * g.p /\ s2[w] = s[w] /\ u2[w] = u[w]
      BY <1>0, <1>3, <2>2
    <3>2. z[w] \in Nat /\ u[w] \in Nat /\ D \in Nat /\ InRange(s[w]) /\ NotAfter(s[w], g)
          /\ Weighs(z[w], u[w], s[w], g, D)
      BY <1>1
    <3>3. Weighs(z[w] * g.p, u[w], s[w], g, D * g.p)
      BY <1>2, <3>2, WeighsFiner
    <3> QED BY <3>1, <3>3
  <2> QED BY <2>1, <2>2
<1>6. ASSUME NEW w \in W
      PROVE  /\ A[w] \in Nat /\ z[w] \in Nat /\ before[w] \in Nat /\ after[w] \in Nat /\ c[w] \in Nat
             /\ A[w] + D * before[w] <= g.p * z[w] + D * after[w]
             /\ g.p * z[w] + D * after[w] <= A[w] + D * (before[w] + c[w])
  <2>1. z[w] \in Nat /\ A[w] \in Nat /\ u2[w] \in Nat /\ u[w] \in Nat
    BY <1>4
  <2>2. CASE w \in hit
    <3> DEFINE n == StillUnreleased(u[w], s[w], g)
    <3>1. n \in 0..u[w] /\ n * D <= g.p * z[w] /\ g.p * z[w] < (n + 1) * D
      BY <1>1, <2>1, WeighedUnreleased
    <3>2. before[w] = n /\ after[w] = u2[w] /\ c[w] = 1 /\ A[w] = u2[w] * D
      BY <1>0, <1>3, <2>2
    <3> HIDE DEF n
    <3>3. n * D = D * n /\ (n + 1) * D = D * (n + 1) /\ u2[w] * D = D * u2[w] /\ g.p * z[w] \in Int
      BY <1>2, <2>1, <3>1
    <3>4. D * n \in Int /\ D * (n + 1) \in Int /\ D * u2[w] \in Int
      BY <2>1, <3>1
    <3> QED BY <2>1, <3>1, <3>2, <3>3, <3>4
  <2>3. CASE w \notin hit
    <3>1. before[w] = 0 /\ after[w] = 0 /\ c[w] = 0 /\ A[w] = z[w] * g.p
      BY <1>0, <1>3, <2>3
    <3>2. D * 0 = 0 /\ z[w] * g.p = g.p * z[w] /\ D * (0 + 0) = 0
      BY <1>2, <2>1
    <3> QED BY <2>1, <3>1, <3>2
  <2> QED BY <2>2, <2>3
<1>7. /\ S(A) + D * S(before) <= g.p * S(z) + D * S(after)
      /\ g.p * S(z) + D * S(after) <= S(A) + D * (S(before) + S(c))
  <2>1. g.p \in Nat /\ D \in Nat
    BY <1>2
  <2> QED BY ONLY IsFiniteSet(W), <1>6, <2>1, SumSandwich
<1>8. S(c) = Cardinality(hit) /\ Cardinality(hit) \in Nat
  BY <1>3, SumCounts
<1> DEFINE SA == S(A)
           Sz == S(z)
           B == S(before)
           N == S(after)
           n == Cardinality(hit)
           R == RELEASE_RESCALE
<1>9. SA \in Nat /\ Sz \in Nat /\ B \in Nat /\ N \in Nat /\ n \in Nat /\ R \in Nat /\ g.p * Sz \in Nat
  <2>1. B \in Nat /\ N \in Nat
    BY ONLY IsFiniteSet(W), <1>6, SumNat
  <2>2. SA \in Nat /\ Sz \in Nat
    BY <1>4, SumOfWeights
  <2> QED BY <1>2, <1>8, <2>1, <2>2, RescaleAssumption
<1>10. SA <= H2 * D
  <2>1. CASE H + N <= H2 + B
    <3>1. (H + N) * D <= (H2 + B) * D
      BY <1>9, <2>1, TimesMonotone
    <3>2. (H + N) * D = H * D + D * N /\ (H2 + B) * D = H2 * D + D * B
      BY <1>9
    <3>3. g.p * Sz <= H * D
      BY <1>1 DEF Fills
    <3>4. SA + D * B <= g.p * Sz + D * N
      BY <1>7
    <3>5. D * N \in Int /\ D * B \in Int /\ H * D \in Int /\ H2 * D \in Int
      BY <1>9
    <3> HIDE DEF SA, Sz, B, N
    <3> QED BY <1>9, <3>1, <3>2, <3>3, <3>4, <3>5
  <2>2. CASE S(u2) <= H2
    <3> DEFINE Du == [w \in W |-> D * u2[w]]
    <3>1. ASSUME NEW w \in W PROVE A[w] \in Int /\ Du[w] \in Int /\ u2[w] \in Int /\ Du[w] = D * u2[w] /\ A[w] <= Du[w]
      <4>1. A[w] \in Nat /\ u2[w] \in Nat /\ Du[w] = D * u2[w]
        BY <1>4
      <4>2. g.p * A[w] <= u2[w] * (D * g.p)
        BY <1>5 DEF Weighs
      <4>3. g.p * A[w] = A[w] * g.p /\ u2[w] * (D * g.p) = (D * u2[w]) * g.p
        BY <1>2, <4>1
      <4>4. A[w] \in Int /\ D * u2[w] \in Int
        BY <4>1
      <4>5. A[w] <= D * u2[w]
        BY <1>2, <4>2, <4>3, <4>4, TimesCancel
      <4> QED BY <4>1, <4>4, <4>5
    <3> HIDE DEF Du
    <3>2. S(A) <= S(Du)
      BY ONLY IsFiniteSet(W), <3>1, SumMonotone
    <3>3. S(Du) = D * S(u2)
      BY ONLY IsFiniteSet(W), D \in Nat \ {0}, <3>1, SumTimes
    <3>4. S(u2) \in Nat
      BY SumOfWeights
    <3>5. D * S(u2) <= D * H2 /\ D * H2 = H2 * D
      BY <2>2, <3>4, TimesMonotone
    <3>6. D * S(u2) \in Int /\ H2 * D \in Int
      BY <3>4
    <3> HIDE DEF S
    <3> QED BY <1>9, <3>2, <3>3, <3>5, <3>6 DEF SA
  <2> QED BY <2>1, <2>2
<1>11. H2 * D * R <= (SA + (k + n) * D) * R + l * D
  <2>1. CASE H2 = 0
    <3>1. H2 * D * R = 0
      BY <1>9, <2>1
    <3>2. (SA + (k + n) * D) * R \in Nat /\ l * D \in Nat
      <4>1. SA + (k + n) * D \in Nat
        BY <1>9
      <4> QED BY <1>9, <4>1
    <3> QED BY <3>1, <3>2
  <2>2. CASE H2 # 0
    <3>1. H2 + B <= H + N
      BY <2>2
    <3>2. g.p * Sz + D * N <= SA + D * (B + n)
      BY <1>7, <1>8
    <3>3. H * D * R <= (g.p * Sz + k * D) * R + l * D
      BY <1>1 DEF Fills
    <3> DEFINE X == g.p * Sz
    <3>4. X \in Nat
      BY <1>9
    <3> HIDE DEF X, SA, Sz, B, N, n, R, S
    <3>5. (H2 + B) * (D * R) <= (H + N) * (D * R)
      BY <1>9, <3>1, TimesMonotone
    <3>6. (X + D * N) * R <= (SA + D * (B + n)) * R
      <4>1. X + D * N \in Int /\ SA + D * (B + n) \in Int
        BY <1>9, <3>4
      <4> QED BY <1>9, <3>2, <4>1, TimesMonotone DEF X
    <3>7. H * D * R <= (X + k * D) * R + l * D
      BY <3>3 DEF X
    <3> DEFINE hd == H2 * D * R
               dr == D * R
    <3>8. /\ (H2 + B) * (D * R) = H2 * D * R + B * dr /\ (H + N) * (D * R) = H * D * R + N * dr
          /\ (X + D * N) * R = X * R + N * dr /\ (SA + D * (B + n)) * R = SA * R + B * dr + n * dr
          /\ (X + k * D) * R = X * R + k * dr
          /\ (SA + (k + n) * D) * R = SA * R + k * dr + n * dr
      BY <1>9, <3>4
    <3>9. /\ H2 * D * R \in Int /\ H * D * R \in Int /\ B * dr \in Int /\ N * dr \in Int /\ X * R \in Int
          /\ SA * R \in Int /\ n * dr \in Int /\ k * dr \in Int /\ l * D \in Int
      BY <1>9, <3>4
    <3> HIDE DEF dr
    <3> QED BY <3>5, <3>6, <3>7, <3>8, <3>9
  <2> QED BY <2>1, <2>2
<1>12. Fills(g.p * SA, H2, k + n, l, D * g.p)
  <2> DEFINE a == H2 * D
             b == (SA + (k + n) * D) * R + l * D
  <2>1. a \in Nat /\ b \in Nat /\ a * R \in Nat
    <3>1. SA + (k + n) * D \in Nat /\ a \in Nat /\ l * D \in Nat
      BY <1>9
    <3> HIDE DEF a
    <3>2. (SA + (k + n) * D) * R \in Nat /\ a * R \in Nat
      BY <1>9, <3>1
    <3> QED BY <3>1, <3>2
  <2>2. /\ g.p * SA = SA * g.p /\ H2 * (D * g.p) = a * g.p /\ H2 * (D * g.p) * R = (a * R) * g.p
    <3> HIDE DEF SA, R
    <3> QED BY <1>2, <1>9
  <2>3. (g.p * SA + (k + n) * (D * g.p)) * R + l * (D * g.p) = b * g.p
    <3> HIDE DEF SA, R, n
    <3> QED BY <1>2, <1>9
  <2>4. SA <= a /\ a * R <= b
    BY <1>10, <1>11
  <2> HIDE DEF a, b, SA, R, n
  <2>5. SA * g.p <= a * g.p /\ (a * R) * g.p <= b * g.p
    BY <1>2, <1>9, <2>1, <2>4, TimesMonotone
  <2>6. g.p * SA <= H2 * (D * g.p)
    BY <2>2, <2>5
  <2>7. H2 * (D * g.p) * R <= (g.p * SA + (k + n) * (D * g.p)) * R + l * (D * g.p)
    BY <2>2, <2>3, <2>5
  <2> QED BY <2>6, <2>7 DEF Fills, R
<1>13. D * g.p \in Nat \ {0}
  BY <1>2
<1> QED BY <1>4, <1>5, <1>12, <1>13 DEF Tracked

\* What the code reads off the snapshots, wallet by wallet, is together the headroom but for a unit for
\* each harvest and each wallet, as long as there were no more than RESCALE pots.
LEMMA TrackedUnreleased ==
    ASSUME NEW W, IsFiniteSet(W), NEW u, NEW s, NEW g, InRange(g),
           \A w \in W : u[w] \in Nat /\ InRange(s[w]) /\ NotAfter(s[w], g),
           NEW H \in Nat, NEW k \in Nat, NEW l \in 0..RELEASE_RESCALE, Tracked(W, u, s, g, H, k, l),
           NEW n, \A w \in W : n[w] = StillUnreleased(u[w], s[w], g)
    PROVE  /\ SumFunctionOnSet(n, W) <= H
           /\ W # {} => H <= SumFunctionOnSet(n, W) + k + Cardinality(W)
<1> DEFINE S(f) == SumFunctionOnSet(f, W)
           zeros == [w \in W |-> 0]
           ones == [w \in W |-> 1]
           R == RELEASE_RESCALE
           card == Cardinality(W)
<1>1. PICK D \in Nat \ {0}, z \in [W -> Nat] :
         /\ \A w \in W : Weighs(z[w], u[w], s[w], g, D)
         /\ Fills(g.p * S(z), H, k, l, D)
  BY DEF Tracked
<1>2. g.p \in Nat \ {0} /\ R \in Nat \ {0}
  BY RescaleAssumption DEF InRange, ReleasePoint
<1>3. ASSUME NEW w \in W
      PROVE  n[w] \in Nat /\ z[w] \in Nat /\ n[w] * D <= g.p * z[w] /\ g.p * z[w] < (n[w] + 1) * D
  <2>1. /\ z[w] \in Nat /\ u[w] \in Nat /\ n[w] = StillUnreleased(u[w], s[w], g)
        /\ InRange(s[w]) /\ NotAfter(s[w], g) /\ Weighs(z[w], u[w], s[w], g, D)
    BY <1>1
  <2>2. n[w] \in 0..u[w] /\ n[w] * D <= g.p * z[w] /\ g.p * z[w] < (n[w] + 1) * D
    BY <2>1, WeighedUnreleased
  <2> QED BY <2>1, <2>2
<1> DEFINE Dn == [w \in W |-> D * n[w]]
           X == [w \in W |-> g.p * z[w]]
           n1 == [w \in W |-> n[w] + 1]
           Dn1 == [w \in W |-> D * n1[w]]
           X1 == [w \in W |-> X[w] + 1]
<1>4. ASSUME NEW w \in W
      PROVE  /\ n[w] \in Int /\ z[w] \in Int /\ ones[w] \in Int
             /\ Dn[w] \in Int /\ X[w] \in Int /\ n1[w] \in Int /\ Dn1[w] \in Int /\ X1[w] \in Int
             /\ Dn[w] = D * n[w] /\ X[w] = g.p * z[w] /\ n1[w] = n[w] + ones[w] /\ Dn1[w] = D * n1[w]
             /\ X1[w] = X[w] + ones[w]
             /\ Dn[w] <= X[w] /\ X1[w] <= Dn1[w]
  <2>1. /\ Dn[w] = D * n[w] /\ X[w] = g.p * z[w] /\ n1[w] = n[w] + 1 /\ Dn1[w] = D * (n[w] + 1)
        /\ X1[w] = g.p * z[w] + 1 /\ ones[w] = 1
    OBVIOUS
  <2>2. /\ D * n[w] \in Int /\ g.p * z[w] \in Int /\ D * (n[w] + 1) \in Int
        /\ D * n[w] = n[w] * D /\ D * (n[w] + 1) = (n[w] + 1) * D /\ n[w] \in Nat /\ z[w] \in Nat
    BY <1>2, <1>3
  <2> HIDE DEF Dn, X, n1, Dn1, X1, ones
  <2> QED BY <1>3, <2>1, <2>2
<1> HIDE DEF Dn, X, n1, Dn1, X1
<1>5. S(Dn) = D * S(n)
  BY ONLY IsFiniteSet(W), D \in Nat \ {0}, <1>4, SumTimes
<1>6. S(X) = g.p * S(z)
  BY ONLY IsFiniteSet(W), <1>2, <1>4, SumTimes
<1>7. S(n1) = S(n) + S(ones)
  BY ONLY IsFiniteSet(W), <1>4, SumPlus
<1>8. S(Dn1) = D * S(n1)
  <2>1. \A w \in W : n1[w] \in Int /\ Dn1[w] = D * n1[w]
    BY <1>4
  <2>2. D \in Int
    OBVIOUS
  <2> QED BY ONLY IsFiniteSet(W), <2>1, <2>2, SumTimes
<1>9. S(X1) = S(X) + S(ones)
  BY ONLY IsFiniteSet(W), <1>4, SumPlus
<1>10. S(ones) = card /\ card \in Nat
  <2>1. \A w \in W : ones[w] = IF w \in W THEN 1 ELSE 0
    OBVIOUS
  <2> HIDE DEF ones
  <2> QED BY <2>1, SumCounts
<1>11. S(Dn) <= S(X)
  BY ONLY IsFiniteSet(W), <1>4, SumMonotone
<1>12. S(X1) <= S(Dn1)
  BY ONLY IsFiniteSet(W), <1>4, SumMonotone
<1>13. S(n) \in Nat /\ S(z) \in Nat
  <2>1. S(n) \in Nat
    BY ONLY IsFiniteSet(W), <1>3, SumNat
  <2> QED BY <2>1, SumOfWeights
<1> DEFINE x == g.p * S(z)
           m == S(n)
<1>14. /\ D * m <= x /\ x + card <= D * (m + card)
       /\ x <= H * D /\ H * D * R <= (x + k * D) * R + l * D /\ x \in Nat /\ m \in Nat
  <2>1. D * m <= x /\ x + card <= D * (m + card)
    BY ONLY <1>5, <1>6, <1>7, <1>8, <1>9, <1>10, <1>11, <1>12
  <2> QED BY <1>1, <1>2, <1>13, <2>1 DEF Fills
<1> HIDE DEF x, m, card, S, R
<1>15. m <= H
  <2>1. D * m = m * D /\ D * m \in Int /\ H * D \in Int
    BY <1>14
  <2>2. m * D <= H * D
    BY <1>14, <2>1
  <2>3. m \in Int /\ H \in Int
    BY <1>14
  <2> QED BY <2>2, <2>3, TimesCancel
<1>16. ASSUME W # {} PROVE H <= m + k + card
  <2>1. card \in Nat \ {0}
    BY <1>10, <1>16, FS_EmptySet DEF card
  <2>2. x < D * (m + card)
    <3>1. D * (m + card) \in Int
      BY <1>14, <2>1
    <3> QED BY <1>14, <2>1, <3>1
  <2> DEFINE most == D * (m + card) - 1
             t == m + k + card
  <2>3. (x + k * D) * R <= (most + k * D) * R
    <3>1. x + k * D \in Int /\ most + k * D \in Int /\ x + k * D <= most + k * D
      <4>1. most \in Int /\ k * D \in Int /\ x <= most
        BY <1>14, <2>1, <2>2
      <4> HIDE DEF most
      <4> QED BY <1>14, <4>1
    <3> HIDE DEF most
    <3> QED BY <1>2, <3>1, TimesMonotone
  <2>4. l * D <= R * D /\ l * D \in Int /\ R * D \in Int
    BY <1>2, TimesMonotone DEF R
  <2>5. (most + k * D) * R = t * (D * R) - R
    BY <1>2, <1>14, <2>1
  <2>6. R * D = D * R /\ H * D * R = H * (D * R) /\ t * (D * R) + D * R = (t + 1) * (D * R)
    BY <1>2, <1>14, <2>1
  <2>7. /\ H * (D * R) \in Int /\ t * (D * R) \in Int /\ (t + 1) * (D * R) \in Int /\ D * R \in Nat \ {0}
        /\ (x + k * D) * R \in Int /\ t \in Int
    <3>1. t \in Int /\ D * R \in Nat \ {0} /\ x + k * D \in Int
      BY <1>2, <1>14, <2>1
    <3> HIDE DEF t
    <3> QED BY <1>2, <3>1
  <2>8. H * (D * R) < (t + 1) * (D * R)
    <3> HIDE DEF t, most
    <3> QED BY <1>2, <1>14, <2>3, <2>4, <2>5, <2>6, <2>7
  <2>9. H < t + 1
    <3>1. H \in Int /\ t + 1 \in Int
      BY <2>7
    <3> HIDE DEF t
    <3> QED BY <2>7, <2>8, <3>1, TimesCancel
  <2> QED BY <2>7, <2>9
<1> QED BY <1>15, <1>16 DEF S, m, card
=============================================================================
