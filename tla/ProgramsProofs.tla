--------------------------- MODULE ProgramsProofs ---------------------------
(***************************************************************************)
(* The programs that compute an anchor each for itself agree, for every    *)
(* layer, every number of epochs and of exits: the last block of an epoch  *)
(* (EpochBlocks) and the exit tree with its proofs (ExitTree).  And the    *)
(* program that computes the bridge's books for itself, the watchdog's     *)
(* slow loop (SlowLoop), raises an alarm only for a reason.                *)
(***************************************************************************)
EXTENDS MCEdges, Numbers

-----------------------------------------------------------------------------
(* EpochBlocks: the two searches for the last block before a limit *)

\* The blocks the layer has, and when it made them.
ChainOrdered ==
    /\ clock \in Nat /\ times \in Seq(Nat) /\ Len(times) \in Nat \ {0}
    /\ \A i \in 1..Len(times) : times[i] <= clock
    /\ \A i, j \in 1..Len(times) : i < j => times[i] < times[j]

\* What the relayer, the watchdog and the sdk search with: Halving's recursion, one step of it.
HalvesOf(head) == (0 .. head) \X (0 .. head)
HalvesLeft(head) == {r \in HalvesOf(head) : r[2] - r[1] > 1}
HalvesEnd(head) == HalvesOf(head) \ HalvesLeft(head)
Middle(r) == (r[1] + r[2]) \div 2
HalvesNext(head, limit) ==
    [r \in HalvesOf(head) |->
        IF r \in HalvesEnd(head) THEN r
        ELSE IF Before(Middle(r), limit) THEN <<Middle(r), r[2]>> ELSE <<r[1], Middle(r)>>]
HalvesSize(head) == [r \in HalvesOf(head) |-> IF r[1] < r[2] THEN r[2] - r[1] ELSE 0]
HalvesResult(head) == [r \in HalvesOf(head) |-> r[1]]
HalvesBody(g, head, limit) ==
    [r \in (0 .. head) \X (0 .. head) |->
        IF r[2] - r[1] <= 1 THEN r[1]
        ELSE IF Before((r[1] + r[2]) \div 2, limit) THEN g[<<(r[1] + r[2]) \div 2, r[2]>>]
             ELSE g[<<r[1], (r[1] + r[2]) \div 2>>]]
Halves(head, limit) == CHOOSE g : g = HalvesBody(g, head, limit)

LEMMA HalvingIsHalves ==
    ASSUME NEW head, NEW limit PROVE Halving(head, limit) = Halves(head, limit)[<<0, head>>]
BY Zenon DEF Halving, Halves, HalvesBody

LEMMA MiddleIsBetween ==
    ASSUME NEW a \in Int, NEW b \in Int, a <= b
    PROVE  /\ Middle(<<a, b>>) \in Int /\ a <= Middle(<<a, b>>) /\ Middle(<<a, b>>) <= b
           /\ b - a > 1 => a < Middle(<<a, b>>) /\ Middle(<<a, b>>) < b
<1>1. (a + b) \div 2 \in Int /\ a <= (a + b) \div 2 /\ (a + b) \div 2 <= b
  OBVIOUS
<1>2. b - a > 1 => a < (a + b) \div 2 /\ (a + b) \div 2 < b
  OBVIOUS
<1> QED BY <1>1, <1>2 DEF Middle

LEMMA HalvesAreASearch ==
    ASSUME NEW head \in Nat, NEW limit
    PROVE  /\ HalvesNext(head, limit) \in [HalvesOf(head) -> HalvesOf(head)]
           /\ HalvesSize(head) \in [HalvesOf(head) -> Nat]
           /\ \A r \in HalvesOf(head) : HalvesSize(head)[r] <= head
           /\ \A r \in HalvesLeft(head) :
                /\ r[1] \in 0..head /\ r[2] \in 0..head /\ Middle(r) \in Int /\ r[1] < Middle(r) /\ Middle(r) < r[2]
                /\ HalvesSize(head)[HalvesNext(head, limit)[r]] < HalvesSize(head)[r]
<1>1. ASSUME NEW r \in HalvesLeft(head)
      PROVE  /\ r[1] \in 0..head /\ r[2] \in 0..head /\ r = <<r[1], r[2]>> /\ r \in HalvesOf(head)
             /\ Middle(r) \in Int /\ r[1] < Middle(r) /\ Middle(r) < r[2]
  <2>1. /\ r[1] \in 0..head /\ r[2] \in 0..head /\ r = <<r[1], r[2]>> /\ r[2] - r[1] > 1 /\ r \in HalvesOf(head)
    BY DEF HalvesLeft, HalvesOf
  <2>2. r[1] <= r[2] /\ r[1] \in Int /\ r[2] \in Int
    BY <2>1
  <2>3. /\ Middle(<<r[1], r[2]>>) \in Int
        /\ r[1] < Middle(<<r[1], r[2]>>) /\ Middle(<<r[1], r[2]>>) < r[2]
    BY <2>1, <2>2, MiddleIsBetween
  <2> QED BY <2>1, <2>3
<1>2. ASSUME NEW r \in HalvesLeft(head)
      PROVE  /\ HalvesNext(head, limit)[r] \in {<<Middle(r), r[2]>>, <<r[1], Middle(r)>>}
             /\ HalvesNext(head, limit)[r] \in HalvesOf(head)
  <2>1. HalvesNext(head, limit)[r] \in {<<Middle(r), r[2]>>, <<r[1], Middle(r)>>}
    BY <1>1 DEF HalvesNext, HalvesEnd
  <2>2. <<Middle(r), r[2]>> \in HalvesOf(head) /\ <<r[1], Middle(r)>> \in HalvesOf(head)
    BY <1>1 DEF HalvesOf
  <2> QED BY <2>1, <2>2
<1>3. HalvesNext(head, limit) \in [HalvesOf(head) -> HalvesOf(head)]
  <2>1. ASSUME NEW r \in HalvesOf(head) PROVE HalvesNext(head, limit)[r] \in HalvesOf(head)
    BY <1>2 DEF HalvesNext, HalvesEnd
  <2> QED BY <2>1 DEF HalvesNext
<1>4. ASSUME NEW r \in HalvesOf(head) PROVE HalvesSize(head)[r] \in 0..head
  <2>1. r[1] \in 0..head /\ r[2] \in 0..head
    BY DEF HalvesOf
  <2> QED BY <2>1 DEF HalvesSize
<1>5. HalvesSize(head) \in [HalvesOf(head) -> Nat]
  BY <1>4 DEF HalvesSize
<1>6. ASSUME NEW r \in HalvesLeft(head)
      PROVE  HalvesSize(head)[HalvesNext(head, limit)[r]] < HalvesSize(head)[r]
  <2> DEFINE s == HalvesNext(head, limit)[r]
  <2>1. s \in HalvesOf(head) /\ s[1] < s[2] /\ s[2] - s[1] < r[2] - r[1] /\ s[1] \in Int /\ s[2] \in Int
    BY <1>1, <1>2
  <2>2. HalvesSize(head)[s] = s[2] - s[1]
    BY <2>1 DEF HalvesSize
  <2>3. HalvesSize(head)[r] = r[2] - r[1]
    BY <1>1 DEF HalvesSize
  <2> QED BY <2>1, <2>2, <2>3
<1> QED BY <1>1, <1>3, <1>4, <1>5, <1>6

\* Halving returns a block before the limit whose successor is not, if block 0 is one and the head is not.
LEMMA HalvingFinds ==
    ASSUME NEW head \in Nat, NEW limit, Before(0, limit), ~Before(head, limit)
    PROVE  /\ Halving(head, limit) \in 0..head - 1
           /\ Before(Halving(head, limit), limit) /\ ~Before(Halving(head, limit) + 1, limit)
<1> DEFINE D == HalvesOf(head)
           Ends == HalvesEnd(head)
           next == HalvesNext(head, limit)
           size == HalvesSize(head)
           result == HalvesResult(head)
           search == Halves(head, limit)
           Inv == {r \in D : r[1] < r[2] /\ Before(r[1], limit) /\ ~Before(r[2], limit)}
<1>1. /\ next \in [D -> D] /\ size \in [D -> Nat] /\ \A r \in D : size[r] <= head
      /\ \A r \in D \ Ends : size[next[r]] < size[r]
  BY HalvesAreASearch DEF HalvesEnd, HalvesLeft
<1>2. ASSUME NEW g
      PROVE  HalvesBody(g, head, limit) = [r \in D |-> IF r \in Ends THEN result[r] ELSE g[next[r]]]
  <2>1. ASSUME NEW r \in D
        PROVE  (IF r[2] - r[1] <= 1 THEN r[1]
                ELSE IF Before((r[1] + r[2]) \div 2, limit) THEN g[<<(r[1] + r[2]) \div 2, r[2]>>]
                     ELSE g[<<r[1], (r[1] + r[2]) \div 2>>])
               = IF r \in Ends THEN result[r] ELSE g[next[r]]
    <3>1. r[1] \in Int /\ r[2] \in Int
      BY DEF HalvesOf
    <3>2. r \in Ends <=> r[2] - r[1] <= 1
      BY <3>1 DEF HalvesEnd, HalvesLeft
    <3>3. result[r] = r[1]
      BY DEF HalvesResult
    <3>4. r \notin Ends => next[r] = IF Before(Middle(r), limit) THEN <<Middle(r), r[2]>> ELSE <<r[1], Middle(r)>>
      BY DEF HalvesNext
    <3> HIDE DEF D, Ends, next, result
    <3> QED BY <3>2, <3>3, <3>4, Zenon DEF Middle
  <2> HIDE DEF Ends, next, result
  <2> QED BY <2>1 DEF HalvesBody, HalvesOf
<1>3. \E g : IsSearch(g, D, Ends, result, next)
  <2> HIDE DEF D, Ends, next, result, size
  <2> QED BY <1>1, SearchExists
<1>4. IsSearch(search, D, Ends, result, next)
  <2>1. \E g : g = HalvesBody(g, head, limit)
    BY <1>2, <1>3, Zenon DEF IsSearch
  <2>2. search = HalvesBody(search, head, limit)
    BY <2>1, Zenon DEF Halves
  <2> HIDE DEF search
  <2> QED BY <1>2, <2>2, Zenon DEF IsSearch
<1>5. ASSUME NEW r \in Inv \ Ends PROVE next[r] \in Inv
  <2>1. r \in HalvesLeft(head)
    BY DEF HalvesEnd
  <2>2. r[1] \in Int /\ r[2] \in Int /\ r[1] < Middle(r) /\ Middle(r) < r[2] /\ Middle(r) \in Int
    BY <2>1, HalvesAreASearch
  <2>3. next[r] = IF Before(Middle(r), limit) THEN <<Middle(r), r[2]>> ELSE <<r[1], Middle(r)>>
    BY DEF HalvesNext
  <2>4. next[r] \in D
    BY <1>1
  <2> QED BY <2>2, <2>3, <2>4
<1>6. <<0, head>> \in Inv
  <2>1. head # 0
    OBVIOUS
  <2> QED BY <2>1 DEF HalvesOf
<1>7. PICK r \in Inv \cap Ends : search[<<0, head>>] = result[r]
  <2>1. Inv \in SUBSET D
    OBVIOUS
  <2> HIDE DEF D, Ends, next, result, size, search, Inv
  <2> QED BY <1>1, <1>4, <1>5, <1>6, <2>1, SearchKeeps
<1>8. r[1] \in 0..head /\ r[2] \in 0..head /\ r[2] = r[1] + 1
  BY DEF HalvesEnd, HalvesLeft, HalvesOf
<1>9. Halving(head, limit) = r[1]
  BY <1>7, HalvingIsHalves DEF HalvesResult
<1> QED BY <1>8, <1>9

\* What node-cli searches with: KeepingBest's recursion, one step of it.
RowsOf(head) == (0 .. head + 1) \X (-1 .. head) \X (0 .. head)
RowsLeft(head) == {r \in RowsOf(head) : r[1] <= r[2]}
RowsEnd(head) == RowsOf(head) \ RowsLeft(head)
RowsNext(head, limit) ==
    [r \in RowsOf(head) |->
        IF r \in RowsEnd(head) THEN r
        ELSE IF Before(Middle(r), limit) THEN <<Middle(r) + 1, r[2], Middle(r)>>
             ELSE <<r[1], Middle(r) - 1, r[3]>>]
RowsSize(head) == [r \in RowsOf(head) |-> IF r[1] <= r[2] THEN r[2] - r[1] + 1 ELSE 0]
RowsResult(head) == [r \in RowsOf(head) |-> r[3]]
RowsBody(g, head, limit) ==
    [r \in (0 .. head + 1) \X (-1 .. head) \X (0 .. head) |->
        IF r[1] > r[2] THEN r[3]
        ELSE IF Before((r[1] + r[2]) \div 2, limit) THEN g[<<(r[1] + r[2]) \div 2 + 1, r[2], (r[1] + r[2]) \div 2>>]
             ELSE g[<<r[1], (r[1] + r[2]) \div 2 - 1, r[3]>>]]
Rows(head, limit) == CHOOSE g : g = RowsBody(g, head, limit)

LEMMA KeepingIsRows ==
    ASSUME NEW head, NEW limit PROVE KeepingBest(head, limit) = Rows(head, limit)[<<0, head, 0>>]
BY Zenon DEF KeepingBest, Rows, RowsBody

LEMMA RowsAreASearch ==
    ASSUME NEW head \in Nat, NEW limit
    PROVE  /\ RowsNext(head, limit) \in [RowsOf(head) -> RowsOf(head)]
           /\ RowsSize(head) \in [RowsOf(head) -> Nat]
           /\ \A r \in RowsOf(head) : RowsSize(head)[r] <= head + 1
           /\ \A r \in RowsLeft(head) :
                /\ r[1] \in 0..head /\ r[2] \in 0..head /\ r[3] \in 0..head
                /\ Middle(r) \in Int /\ r[1] <= Middle(r) /\ Middle(r) <= r[2]
                /\ RowsSize(head)[RowsNext(head, limit)[r]] < RowsSize(head)[r]
<1>1. ASSUME NEW r \in RowsLeft(head)
      PROVE  /\ r[1] \in 0..head /\ r[2] \in 0..head /\ r[3] \in 0..head /\ r \in RowsOf(head)
             /\ Middle(r) \in Int /\ r[1] <= Middle(r) /\ Middle(r) <= r[2]
  <2>1. r[1] \in 0..head + 1 /\ r[2] \in -1..head /\ r[3] \in 0..head /\ r[1] <= r[2] /\ r \in RowsOf(head)
    BY DEF RowsLeft, RowsOf
  <2>2. r[1] \in 0..head /\ r[2] \in 0..head
    BY <2>1
  <2>3. /\ Middle(<<r[1], r[2]>>) \in Int
        /\ r[1] <= Middle(<<r[1], r[2]>>) /\ Middle(<<r[1], r[2]>>) <= r[2]
    BY <2>1, <2>2, MiddleIsBetween
  <2>4. Middle(<<r[1], r[2]>>) = Middle(r)
    BY DEF Middle
  <2> QED BY <2>1, <2>2, <2>3, <2>4
<1>2. ASSUME NEW r \in RowsLeft(head)
      PROVE  /\ \/ RowsNext(head, limit)[r] = <<Middle(r) + 1, r[2], Middle(r)>>
                \/ RowsNext(head, limit)[r] = <<r[1], Middle(r) - 1, r[3]>>
             /\ RowsNext(head, limit)[r] \in RowsOf(head)
  <2>1. \/ RowsNext(head, limit)[r] = <<Middle(r) + 1, r[2], Middle(r)>>
        \/ RowsNext(head, limit)[r] = <<r[1], Middle(r) - 1, r[3]>>
    BY <1>1 DEF RowsNext, RowsEnd
  <2>2. <<Middle(r) + 1, r[2], Middle(r)>> \in RowsOf(head)
    BY <1>1 DEF RowsOf
  <2>3. <<r[1], Middle(r) - 1, r[3]>> \in RowsOf(head)
    BY <1>1 DEF RowsOf
  <2> QED BY <2>1, <2>2, <2>3
<1>3. RowsNext(head, limit) \in [RowsOf(head) -> RowsOf(head)]
  <2>1. ASSUME NEW r \in RowsOf(head) PROVE RowsNext(head, limit)[r] \in RowsOf(head)
    BY <1>2 DEF RowsNext, RowsEnd
  <2> QED BY <2>1 DEF RowsNext
<1>4. ASSUME NEW r \in RowsOf(head) PROVE RowsSize(head)[r] \in 0..head + 1
  <2>1. r[1] \in 0..head + 1 /\ r[2] \in -1..head
    BY DEF RowsOf
  <2> QED BY <2>1 DEF RowsSize
<1>5. RowsSize(head) \in [RowsOf(head) -> Nat]
  BY <1>4 DEF RowsSize
<1>6. ASSUME NEW r \in RowsLeft(head)
      PROVE  RowsSize(head)[RowsNext(head, limit)[r]] < RowsSize(head)[r]
  <2> DEFINE s == RowsNext(head, limit)[r]
  <2>1. s \in RowsOf(head) /\ s[2] - s[1] < r[2] - r[1] /\ s[1] \in Int /\ s[2] \in Int
    BY <1>1, <1>2
  <2>2. RowsSize(head)[s] = IF s[1] <= s[2] THEN s[2] - s[1] + 1 ELSE 0
    BY <2>1 DEF RowsSize
  <2>3. RowsSize(head)[r] = r[2] - r[1] + 1 /\ r[1] <= r[2]
    BY <1>1 DEF RowsSize
  <2> HIDE DEF s
  <2> QED BY <1>1, <2>1, <2>2, <2>3 DEF s
<1>7. \A r \in RowsOf(head) : RowsSize(head)[r] <= head + 1
  BY <1>4
<1> QED BY <1>1, <1>3, <1>5, <1>6, <1>7

\* So does KeepingBest.
LEMMA KeepingBestFinds ==
    ASSUME NEW head \in Nat, NEW limit, Before(0, limit), ~Before(head, limit)
    PROVE  /\ KeepingBest(head, limit) \in 0..head - 1
           /\ Before(KeepingBest(head, limit), limit) /\ ~Before(KeepingBest(head, limit) + 1, limit)
<1> DEFINE D == RowsOf(head)
           Ends == RowsEnd(head)
           next == RowsNext(head, limit)
           size == RowsSize(head)
           result == RowsResult(head)
           search == Rows(head, limit)
           Inv == {r \in D : /\ r[1] <= r[2] + 1 /\ Before(r[3], limit)
                             /\ r[3] = r[1] - 1 \/ (r[1] = 0 /\ r[3] = 0)
                             /\ r[2] = head \/ ~Before(r[2] + 1, limit)}
<1>1. /\ next \in [D -> D] /\ size \in [D -> Nat] /\ \A r \in D : size[r] <= head + 1
      /\ \A r \in D \ Ends : size[next[r]] < size[r]
  BY RowsAreASearch DEF RowsEnd, RowsLeft
<1>2. ASSUME NEW g
      PROVE  RowsBody(g, head, limit) = [r \in D |-> IF r \in Ends THEN result[r] ELSE g[next[r]]]
  <2>1. ASSUME NEW r \in D
        PROVE  (IF r[1] > r[2] THEN r[3]
                ELSE IF Before((r[1] + r[2]) \div 2, limit)
                     THEN g[<<(r[1] + r[2]) \div 2 + 1, r[2], (r[1] + r[2]) \div 2>>]
                     ELSE g[<<r[1], (r[1] + r[2]) \div 2 - 1, r[3]>>])
               = IF r \in Ends THEN result[r] ELSE g[next[r]]
    <3>1. r[1] \in Int /\ r[2] \in Int
      BY DEF RowsOf
    <3>2. r \in Ends <=> r[1] > r[2]
      BY <3>1 DEF RowsEnd, RowsLeft
    <3>3. result[r] = r[3]
      BY DEF RowsResult
    <3>4. r \notin Ends => next[r] = IF Before(Middle(r), limit) THEN <<Middle(r) + 1, r[2], Middle(r)>>
                                     ELSE <<r[1], Middle(r) - 1, r[3]>>
      BY DEF RowsNext
    <3> HIDE DEF D, Ends, next, result
    <3> QED BY <3>2, <3>3, <3>4, Zenon DEF Middle
  <2> HIDE DEF Ends, next, result
  <2> QED BY <2>1 DEF RowsBody, RowsOf
<1>3. \E g : IsSearch(g, D, Ends, result, next)
  <2>1. head + 1 \in Nat
    OBVIOUS
  <2> HIDE DEF D, Ends, next, result, size
  <2> QED BY <1>1, <2>1, SearchExists
<1>4. IsSearch(search, D, Ends, result, next)
  <2>1. \E g : g = RowsBody(g, head, limit)
    BY <1>2, <1>3, Zenon DEF IsSearch
  <2>2. search = RowsBody(search, head, limit)
    BY <2>1, Zenon DEF Rows
  <2> HIDE DEF search
  <2> QED BY <1>2, <2>2, Zenon DEF IsSearch
<1>5. ASSUME NEW r \in Inv \ Ends PROVE next[r] \in Inv
  <2>1. r \in RowsLeft(head)
    BY DEF RowsEnd
  <2>2. /\ r[1] \in Int /\ r[2] \in 0..head /\ r[3] \in 0..head
        /\ r[1] <= Middle(r) /\ Middle(r) <= r[2] /\ Middle(r) \in Int
    BY <2>1, RowsAreASearch
  <2>3. next[r] = IF Before(Middle(r), limit) THEN <<Middle(r) + 1, r[2], Middle(r)>>
                  ELSE <<r[1], Middle(r) - 1, r[3]>>
    BY DEF RowsNext
  <2>4. next[r] \in D
    BY <1>1
  <2>5. CASE Before(Middle(r), limit)
    BY <2>2, <2>3, <2>4, <2>5
  <2>6. CASE ~Before(Middle(r), limit)
    <3>1. Middle(r) - 1 + 1 = Middle(r)
      BY <2>2
    <3> QED BY <2>2, <2>3, <2>4, <2>6, <3>1
  <2> QED BY <2>5, <2>6
<1>6. <<0, head, 0>> \in Inv
  BY DEF RowsOf
<1>7. PICK r \in Inv \cap Ends : search[<<0, head, 0>>] = result[r]
  <2>1. Inv \in SUBSET D
    OBVIOUS
  <2> HIDE DEF D, Ends, next, result, size, search, Inv
  <2> QED BY <1>1, <1>4, <1>5, <1>6, <2>1, SearchKeeps
<1>8. /\ r[1] \in 0..head + 1 /\ r[2] \in -1..head /\ r[3] \in 0..head /\ r[1] = r[2] + 1
      /\ Before(r[3], limit)
      /\ r[3] = r[1] - 1 \/ (r[1] = 0 /\ r[3] = 0)
      /\ r[2] = head \/ ~Before(r[2] + 1, limit)
  BY DEF RowsEnd, RowsLeft, RowsOf
<1>9. KeepingBest(head, limit) = r[3]
  BY <1>7, KeepingIsRows DEF RowsResult
<1>10. r[1] # 0
  <2>1. SUFFICES ASSUME r[1] = 0 PROVE FALSE
    OBVIOUS
  <2>2. r[2] = -1 /\ r[2] + 1 = 0 /\ r[2] # head
    BY <1>8, <2>1
  <2> QED BY <1>8, <2>2
<1>11. r[3] = r[2] /\ r[3] # head
  BY <1>8, <1>10
<1> QED BY <1>8, <1>9, <1>11

-----------------------------------------------------------------------------
(* EpochBlocks: the last block of an epoch that is over never changes *)

LEMMA EpochEnds ==
    ASSUME NEW e \in Int, e >= -1
    PROVE  /\ epochEndsAt(e) \in Nat /\ epochEndsAt(e - 1) \in Int
           /\ epochEndsAt(e - 1) <= epochEndsAt(e) /\ epochEndsAt(e - 1) = e * EPOCH
<1>1. EPOCH \in Nat /\ EPOCH > 0 /\ e + 1 \in Nat
  BY EpochSizes
<1>2. (e + 1) * EPOCH = e * EPOCH + EPOCH /\ e * EPOCH \in Int /\ (e + 1) * EPOCH \in Nat
  BY <1>1
<1>3. e - 1 + 1 = e
  OBVIOUS
<1> QED BY <1>1, <1>2, <1>3 DEF epochEndsAt

LEMMA BlocksAreOrdered ==
    ASSUME ChainOrdered
    PROVE  /\ LastBlock \in Nat
           /\ \A n \in 0..LastBlock : Ts(n) \in Nat /\ Ts(n) <= clock
           /\ \A m, n \in 0..LastBlock : m < n => Ts(m) < Ts(n)
           /\ \A limit \in Int : \A m, n \in 0..LastBlock : m <= n /\ Before(n, limit) => Before(m, limit)
<1>1. LastBlock \in Nat /\ \A n \in 0..LastBlock : n + 1 \in 1..Len(times)
  BY DEF ChainOrdered, LastBlock
<1>2. \A n \in 0..LastBlock : Ts(n) \in Nat /\ Ts(n) <= clock
  BY <1>1 DEF ChainOrdered, Ts
<1>3. ASSUME NEW m \in 0..LastBlock, NEW n \in 0..LastBlock, m < n PROVE Ts(m) < Ts(n)
  <2>1. m + 1 < n + 1
    BY <1>1, <1>3
  <2> QED BY <1>1, <2>1 DEF ChainOrdered, Ts
<1>4. ASSUME NEW limit \in Int, NEW m \in 0..LastBlock, NEW n \in 0..LastBlock, m <= n, Before(n, limit)
      PROVE  Before(m, limit)
  <2>1. m = n \/ Ts(m) < Ts(n)
    BY <1>1, <1>3, <1>4
  <2>2. Ts(m) \in Nat /\ Ts(n) \in Nat /\ Ts(n) < limit
    BY <1>2, <1>4 DEF Before
  <2> QED BY <2>1, <2>2 DEF Before
<1> QED BY <1>1, <1>2, <1>3, <1>4

\* A block before the end of an epoch, with none after it or one past the end after it, is the true one.
LEMMA TrueBlockIs ==
    ASSUME ChainOrdered, NEW e \in Int, e >= -1, NEW n \in 0..LastBlock, Before(n, epochEndsAt(e)),
           n = LastBlock \/ ~Before(n + 1, epochEndsAt(e))
    PROVE  TrueBlock(e) = n
<1> DEFINE before == {m \in 0 .. LastBlock : Ts(m) < epochEndsAt(e)}
<1>1. LastBlock \in Nat /\ n \in before /\ epochEndsAt(e) \in Int
  BY BlocksAreOrdered, EpochEnds DEF Before
<1>2. ASSUME NEW m \in before PROVE m <= n
  <2>1. SUFFICES ASSUME n < m PROVE FALSE
    BY <1>1
  <2>2. n # LastBlock /\ n + 1 \in 0..LastBlock /\ n + 1 <= m
    BY <1>1, <2>1
  <2>3. Before(n + 1, epochEndsAt(e))
    BY <1>1, <2>2, BlocksAreOrdered DEF Before
  <2> QED BY <2>2, <2>3
<1>3. before # {} /\ before \in SUBSET Int
  BY <1>1
<1>4. TrueBlock(e) = CHOOSE m \in before : \A k \in before : k <= m
  BY <1>3 DEF TrueBlock
<1>5. ASSUME NEW m \in before, \A k \in before : k <= m PROVE m = n
  <2>1. n <= m /\ m <= n /\ m \in Int /\ n \in Int
    BY <1>1, <1>2, <1>5
  <2> QED BY <2>1
<1> HIDE DEF before
<1> QED BY <1>1, <1>2, <1>4, <1>5

LEMMA NoTrueBlock ==
    ASSUME ChainOrdered, NEW e \in Int, e >= -1, ~Before(0, epochEndsAt(e))
    PROVE  TrueBlock(e) = Null
<1>1. LastBlock \in Nat /\ 0 \in 0..LastBlock /\ epochEndsAt(e) \in Int
  BY BlocksAreOrdered, EpochEnds
<1>2. ASSUME NEW m \in 0..LastBlock PROVE ~(Ts(m) < epochEndsAt(e))
  <2>1. 0 <= m
    BY <1>1
  <2> QED BY <1>1, <2>1, BlocksAreOrdered DEF Before
<1>3. {m \in 0 .. LastBlock : Ts(m) < epochEndsAt(e)} = {}
  BY <1>2
<1> QED BY <1>3 DEF TrueBlock

\* The answer to a question about an epoch that is over, which no later block changes.
Settled(b, e) == b = TrueBlock(e) /\ clock >= epochEndsAt(e)

BlocksBefore(e) == {n \in 0 .. LastBlock : Ts(n) < epochEndsAt(e)}
LastOfThem(S) == IF S = {} THEN Null ELSE CHOOSE n \in S : \A m \in S : m <= n

LEMMA SameTrueBlock == ASSUME NEW e, BlocksBefore(e)' = BlocksBefore(e) PROVE TrueBlock(e)' = TrueBlock(e)
<1>1. TrueBlock(e) = LastOfThem(BlocksBefore(e))
  BY Zenon DEF TrueBlock, LastOfThem, BlocksBefore
<1>2. TrueBlock(e)' = LastOfThem(BlocksBefore(e)')
  BY Zenon DEF TrueBlock, LastOfThem, BlocksBefore
<1> QED BY <1>1, <1>2

\* The layer only grows, and time only passes.
LEMMA ChainGrows ==
    ASSUME ChainOrdered, Tick \/ MineBlock
    PROVE  /\ ChainOrdered' /\ LastBlock' \in Nat /\ LastBlock <= LastBlock' /\ clock <= clock' /\ clock' \in Nat
           /\ \A n \in 0..LastBlock : Ts(n)' = Ts(n)
           /\ \A e \in Int : e >= -1 /\ clock >= epochEndsAt(e) => TrueBlock(e)' = TrueBlock(e)
<1>1. clock \in Nat /\ times \in Seq(Nat) /\ Len(times) \in Nat \ {0} /\ LastBlock \in Nat /\ LastBlock = Len(times) - 1
  BY DEF ChainOrdered, LastBlock
<1>2. CASE Tick
  <2>1. times' = times /\ clock' = clock + 1
    BY <1>2 DEF Tick
  <2>2. ChainOrdered'
    BY <1>1, <2>1 DEF ChainOrdered
  <2>3. LastBlock' = LastBlock /\ \A n : Ts(n)' = Ts(n)
    BY <2>1 DEF LastBlock, Ts
  <2>4. \A e : epochEndsAt(e)' = epochEndsAt(e)
    BY DEF epochEndsAt
  <2>5. ASSUME NEW e PROVE TrueBlock(e)' = TrueBlock(e)
    <3>1. {n \in 0 .. LastBlock' : Ts(n)' < epochEndsAt(e)} = {n \in 0 .. LastBlock : Ts(n) < epochEndsAt(e)}
      BY <2>3
    <3> QED BY <2>4, <3>1, SameTrueBlock DEF BlocksBefore
  <2> QED BY <1>1, <2>1, <2>2, <2>3, <2>5
<1>3. CASE MineBlock
  <2>1. times' = Append(times, clock) /\ clock' = clock /\ clock > times[Len(times)]
    <3>1. LastBlock + 1 = Len(times)
      BY <1>1
    <3> QED BY <1>3, <3>1 DEF MineBlock, MayMine, Ts
  <2> DEFINE k == Len(times)
  <2>2. /\ times' \in Seq(Nat) /\ Len(times') = k + 1 /\ times'[k + 1] = clock
        /\ \A i \in 1..k : times'[i] = times[i]
    BY <1>1, <2>1
  <2>3. k \in Nat \ {0} /\ \A i \in 1..k : times[i] \in Nat /\ times[i] <= clock
    BY <1>1 DEF ChainOrdered
  <2>4. ASSUME NEW i \in 1..k PROVE times[i] < clock
    <3>1. i = k \/ times[i] < times[k]
      BY <2>3 DEF ChainOrdered
    <3>2. times[k] \in Nat /\ times[i] \in Nat /\ clock \in Nat /\ times[k] < clock
      BY <1>1, <2>1, <2>3
    <3> HIDE DEF k
    <3> QED BY <3>1, <3>2
  <2>5. ASSUME NEW i \in 1..k + 1, NEW j \in 1..k + 1, i < j PROVE times'[i] < times'[j]
    <3>1. i \in 1..k
      BY <2>3, <2>5
    <3>2. CASE j = k + 1
      BY <2>2, <2>4, <3>1, <3>2
    <3>3. CASE j \in 1..k
      BY <2>2, <2>5, <3>1, <3>3 DEF ChainOrdered
    <3> QED BY <2>3, <3>2, <3>3
  <2>6. \A i \in 1..k + 1 : times'[i] <= clock
    <3>1. \A i \in 1..k + 1 : i \in 1..k \/ i = k + 1
      BY <2>3
    <3> QED BY <1>1, <2>2, <2>3, <3>1
  <2>7. ChainOrdered'
    <3>1. k + 1 \in Nat \ {0}
      BY <2>3
    <3> HIDE DEF k
    <3> QED BY <1>1, <2>1, <2>2, <2>5, <2>6, <3>1 DEF ChainOrdered
  <2>8. LastBlock' = LastBlock + 1
    BY <1>1, <2>2 DEF LastBlock
  <2>9. \A n \in 0..LastBlock : Ts(n)' = Ts(n)
    <3>1. \A n \in 0..LastBlock : n + 1 \in 1..k
      BY <1>1
    <3> QED BY <2>2, <3>1 DEF Ts
  <2>10. ASSUME NEW n, n = LastBlock + 1 PROVE n \notin 0..LastBlock /\ Ts(n)' = clock
    <3>1. n + 1 = k + 1
      BY <1>1, <2>10
    <3> QED BY <1>1, <2>2, <2>10, <3>1 DEF Ts
  <2>11. ASSUME NEW e \in Int, e >= -1, clock >= epochEndsAt(e) PROVE TrueBlock(e)' = TrueBlock(e)
    <3>1. epochEndsAt(e)' = epochEndsAt(e) /\ epochEndsAt(e) \in Nat
      BY <2>11, EpochEnds DEF epochEndsAt
    <3>2. ASSUME NEW n PROVE (n \in 0..LastBlock' /\ Ts(n)' < epochEndsAt(e)) <=> (n \in 0..LastBlock /\ Ts(n) < epochEndsAt(e))
      <4>1. n \in 0..LastBlock' <=> n \in 0..LastBlock \/ n = LastBlock + 1
        BY <1>1, <2>8
      <4>2. ~(clock < epochEndsAt(e))
        BY <1>1, <2>11, <3>1
      <4> QED BY <2>9, <2>10, <4>1, <4>2
    <3>3. {n \in 0 .. LastBlock' : Ts(n)' < epochEndsAt(e)} = {n \in 0 .. LastBlock : Ts(n) < epochEndsAt(e)}
      BY <3>2
    <3> QED BY <3>1, <3>3, SameTrueBlock DEF BlocksBefore
  <2> QED BY <1>1, <2>1, <2>7, <2>8, <2>9, <2>11
<1> QED BY <1>2, <1>3

-----------------------------------------------------------------------------
(* EpochBlocks: what a program answers *)

\* An answer is the last block before the end of the epoch among those up to the head; node-cli gives
\* one only if its node is past the end, and nobody takes the block before the first for one in error.
LEMMA SearchAnswers ==
    ASSUME ChainOrdered, NEW head \in 0..LastBlock, NEW by \in Programs, NEW e \in Int, e >= -1,
           NEW b, b = l2BlockFor(by, head, e)
    PROVE  /\ b \in {Null, NotDetermined} \cup 0..head
           /\ b = Null => by \in {"relayer", "watchdog"} /\ ~Before(0, epochEndsAt(e))
           /\ b = NotDetermined => \/ by = "node" /\ Before(head, epochEndsAt(e))
                                   \/ by \in {"node", "sdk"} /\ ~Before(0, epochEndsAt(e))
           /\ b \in Nat => /\ Before(b, epochEndsAt(e))
                           /\ \/ b = head /\ by # "node"
                              \/ b + 1 \in 0..head /\ ~Before(b + 1, epochEndsAt(e)) /\ ~Before(head, epochEndsAt(e))
<1> DEFINE limit == epochEndsAt(e)
<1>1. head \in Nat /\ Null \notin Nat /\ NotDetermined \notin Nat /\ Null # NotDetermined /\ head \in 0..head
  BY BlocksAreOrdered DEF Null, NotDetermined
<1>2. ASSUME NEW x \in 0..head - 1 PROVE x \in 0..head /\ x + 1 \in 0..head /\ x \in Nat
  BY <1>1
<1>3. Before(0, limit) /\ ~Before(head, limit) =>
          \A x \in {Halving(head, limit), KeepingBest(head, limit)} :
              /\ x \in 0..head /\ x \in Nat /\ Before(x, limit)
              /\ x + 1 \in 0..head /\ ~Before(x + 1, limit)
  BY <1>1, <1>2, HalvingFinds, KeepingBestFinds
<1> HIDE DEF limit
<1>4. CASE by = "node"
  <2>1. b = IF Before(head, limit) \/ ~Before(0, limit) THEN NotDetermined ELSE KeepingBest(head, limit)
    BY <1>4 DEF l2BlockFor, NodeBlockFor, limit
  <2> QED BY <1>1, <1>3, <1>4, <2>1 DEF limit
<1>5. CASE by = "sdk"
  <2>1. b = IF ~Before(0, limit) THEN NotDetermined ELSE IF Before(head, limit) THEN head ELSE Halving(head, limit)
    BY <1>5 DEF l2BlockFor, SdkBlockFor, limit
  <2> QED BY <1>1, <1>3, <1>5, <2>1 DEF limit
<1>6. CASE by \in {"relayer", "watchdog"}
  <2>1. b = IF Before(head, limit) THEN head ELSE IF ~Before(0, limit) THEN Null ELSE Halving(head, limit)
    BY <1>6 DEF l2BlockFor, RelayerBlockFor, limit
  <2> QED BY <1>1, <1>3, <1>6, <2>1 DEF limit
<1> QED BY <1>4, <1>5, <1>6 DEF Programs

\* What a read adds to the job's blocks.
NotedBlock(b) == IF b = NotDetermined THEN Null ELSE b

\* An answer that was not doubtful, and any of node-cli's from a node past the epoch, is the true one.
LEMMA AnswersSettle ==
    ASSUME ChainOrdered, NEW head \in 0..LastBlock, NEW by \in Programs, NEW e \in Int, e >= -1,
           NEW b, b = l2BlockFor(by, head, e),
           \/ by = "node" /\ ~Before(head, epochEndsAt(e))
           \/ by # "node" /\ head = LastBlock /\ clock >= epochEndsAt(e)
           \/ by = "node" /\ b # NotDetermined,
           by = "sdk" => b # NotDetermined
    PROVE  Settled(NotedBlock(b), e)
<1> DEFINE limit == epochEndsAt(e)
<1>1. /\ limit \in Nat /\ head \in Nat /\ 0 \in 0..LastBlock /\ LastBlock \in Nat /\ clock \in Nat
      /\ Ts(head) \in Nat /\ Ts(head) <= clock /\ Ts(0) \in Nat /\ Ts(0) <= clock
  BY EpochEnds, BlocksAreOrdered DEF ChainOrdered
<1>2. ~Before(head, limit) => clock >= limit
  BY <1>1 DEF Before
<1>3. ~Before(0, limit) => clock >= limit
  BY <1>1 DEF Before
<1>4. ~Before(0, limit) => ~Before(head, limit)
  BY <1>1, BlocksAreOrdered
<1>5. b \in {Null, NotDetermined} \cup 0..head /\ Null \notin Nat /\ NotDetermined \notin Nat
  BY SearchAnswers DEF Null, NotDetermined
<1> HIDE DEF limit
<1>6. CASE b \in 0..head
  <2>1. b \in Nat /\ b \in 0..LastBlock /\ NotedBlock(b) = b
    BY <1>1, <1>5, <1>6 DEF NotedBlock
  <2>2. Before(b, limit) /\ \/ b = head /\ by # "node"
                            \/ b + 1 \in 0..head /\ ~Before(b + 1, limit) /\ ~Before(head, limit)
    BY <2>1, SearchAnswers DEF limit
  <2>3. clock >= limit /\ (b = LastBlock \/ ~Before(b + 1, limit))
    BY <1>2, <2>2, <1>5, <2>1 DEF limit
  <2>4. TrueBlock(e) = b
    BY <2>1, <2>2, <2>3, TrueBlockIs DEF limit
  <2> QED BY <2>1, <2>3, <2>4 DEF Settled, limit
<1>7. CASE b \notin 0..head
  <2>1. b \in {Null, NotDetermined} /\ NotedBlock(b) = Null
    BY <1>5, <1>7 DEF NotedBlock
  <2>2. ~Before(0, limit)
    BY <2>1, SearchAnswers DEF limit, Null, NotDetermined
  <2>3. clock >= limit
    BY <1>3, <2>2
  <2> QED BY <2>1, <2>2, <2>3, NoTrueBlock DEF Settled, limit
<1> QED BY <1>6, <1>7

-----------------------------------------------------------------------------
(* EpochBlocks: the invariant *)

CacheEntries == [block : Int, doubtful : BOOLEAN]
BlocksTypes ==
    /\ ChainOrdered
    /\ job \in [by : Programs \cup {"nobody"}, epoch : Epochs, blocks : Seq(Int), head : Nat, doubtful : BOOLEAN]
    /\ Len(job.blocks) \in Nat
    /\ job.head \in 0..LastBlock
    /\ blockCache \in [Epochs -> CacheEntries]
    /\ job # NoJob =>
        job.by \in Programs /\ job.epoch # -1 /\ Len(job.blocks) <= Len(Reads(job.by))

\* What a job has read of an epoch, unless something was doubtful: the epoch's true block.
BlocksSettled ==
    job.by = "node" \/ ~job.doubtful =>
        \A i \in 1..Len(job.blocks) : Settled(job.blocks[i], job.epoch + Reads(job.by)[i])
CacheSettled ==
    \A e \in Epochs : blockCache[e].block # NotCached /\ ~blockCache[e].doubtful => Settled(blockCache[e].block, e)
\* Once node-cli has read its epoch's block its node is past the epoch, so the epoch before is over too.
NodeIsPast == job.by = "node" /\ Len(job.blocks) > 0 => ~Before(job.head, epochEndsAt(job.epoch))
\* The relayer's first read is of its epoch, and its node's head at the second read is no older.
RelayerReadsForward ==
    job.by = "relayer" =>
        /\ Len(job.blocks) >= 1 => job.blocks[1] \in 0..job.head /\ Before(job.blocks[1], epochEndsAt(job.epoch))
        /\ Len(job.blocks) >= 2 =>
            /\ job.blocks[2] >= -1
            /\ \A n \in job.blocks[2] + 1..job.blocks[1] : ~Before(n, epochEndsAt(job.epoch - 1))

BlocksInv == BlocksTypes /\ BlocksSettled /\ CacheSettled /\ NodeIsPast /\ RelayerReadsForward

LEMMA EpochsAreInts ==
    /\ Epochs \subseteq Int /\ 0 \in Epochs /\ -1 \in Epochs
    /\ \A e \in Epochs : e >= -1 /\ (e # -1 => e - 1 \in Epochs /\ e \in Nat)
<1> DEFINE most == LastTick \div EPOCH
<1>1. most \in Nat
  BY EpochSizes, DivBounds
<1> HIDE DEF most
<1>2. /\ -1..most \subseteq Int /\ 0 \in -1..most /\ -1 \in -1..most
      /\ \A e \in -1..most : e >= -1 /\ (e # -1 => e - 1 \in -1..most /\ e \in Nat)
  BY <1>1
<1> QED BY <1>2 DEF Epochs, most

LEMMA ReadsAre ==
    ASSUME NEW by \in Programs
    PROVE  /\ Len(Reads(by)) \in Nat
           /\ \A i \in 1..Len(Reads(by)) : Reads(by)[i] \in {0, -1}
           /\ by = "node" => Len(Reads(by)) = 3 /\ Reads(by)[1] = 0 /\ Reads(by)[2] = 0 /\ Reads(by)[3] = -1
           /\ by \in {"relayer", "watchdog"} => Len(Reads(by)) = 2 /\ Reads(by)[1] = 0 /\ Reads(by)[2] = -1
           /\ by = "sdk" => Len(Reads(by)) = 2 /\ Reads(by)[1] = -1 /\ Reads(by)[2] = 0
<1>1. CASE by = "node"
  BY <1>1 DEF Reads, NodeReads
<1>2. CASE by \in {"relayer", "watchdog"}
  BY <1>2 DEF Reads, RelayerReads
<1>3. CASE by = "sdk"
  BY <1>3 DEF Reads, SdkReads
<1> QED BY <1>1, <1>2, <1>3 DEF Programs

LEMMA BlocksStart == ASSUME EpochInit PROVE BlocksInv
<1>1. clock \in Nat /\ times = <<clock>>
  BY EpochSizes DEF EpochInit
<1>2. times \in Seq(Nat) /\ Len(times) = 1 /\ times[1] = clock
  BY <1>1
<1>3. ChainOrdered
  BY <1>1, <1>2 DEF ChainOrdered
<1>4. LastBlock = 0
  BY <1>2 DEF LastBlock
<1>5. /\ job = NoJob /\ job.by = "nobody" /\ job.epoch = 0 /\ job.blocks = << >> /\ job.head = 0 /\ job.doubtful = FALSE
      /\ Len(job.blocks) = 0 /\ job.blocks \in Seq(Int)
  BY DEF EpochInit, NoJob
<1>6. job \in [by : Programs \cup {"nobody"}, epoch : Epochs, blocks : Seq(Int), head : Nat, doubtful : BOOLEAN]
  BY <1>5, EpochsAreInts DEF NoJob
<1>7. \A e \in Epochs : blockCache[e].block = NotCached
  BY DEF EpochInit
<1>8. blockCache \in [Epochs -> CacheEntries]
  BY DEF EpochInit, CacheEntries, NotCached
<1>9. BlocksTypes
  BY <1>3, <1>4, <1>5, <1>6, <1>8 DEF BlocksTypes
<1> QED BY <1>5, <1>7, <1>9 DEF BlocksInv, BlocksSettled, CacheSettled, NodeIsPast, RelayerReadsForward

\* Time and the layer leave what is settled as it is.
LEMMA SettledStays ==
    ASSUME ChainOrdered, Tick \/ MineBlock, NEW e \in Int, e >= -1, NEW b, Settled(b, e)
    PROVE  (clock >= epochEndsAt(e))' /\ b = TrueBlock(e)'
<1>1. clock \in Nat /\ clock' \in Nat /\ clock <= clock' /\ epochEndsAt(e) \in Nat /\ epochEndsAt(e)' = epochEndsAt(e)
  BY ChainGrows, EpochEnds DEF ChainOrdered, epochEndsAt
<1>2. TrueBlock(e)' = TrueBlock(e)
  BY ChainGrows DEF Settled
<1> QED BY <1>1, <1>2 DEF Settled

LEMMA ReadsAreOfEpochs ==
    ASSUME BlocksTypes, NEW i \in 1..Len(job.blocks)
    PROVE  /\ job # NoJob /\ job.by \in Programs /\ i \in 1..Len(Reads(job.by)) /\ job.epoch \in Nat
           /\ job.epoch + Reads(job.by)[i] \in Int /\ job.epoch + Reads(job.by)[i] >= -1
<1>1. Len(job.blocks) \in Nat /\ Len(job.blocks) > 0
  BY DEF BlocksTypes
<1>2. job # NoJob
  <2>1. Len(NoJob.blocks) = 0
    BY DEF NoJob
  <2> QED BY <1>1, <2>1
<1>3. job.by \in Programs /\ job.epoch # -1 /\ Len(job.blocks) <= Len(Reads(job.by)) /\ job.epoch \in Epochs
  BY <1>2 DEF BlocksTypes
<1>4. i \in 1..Len(Reads(job.by)) /\ Reads(job.by)[i] \in {0, -1} /\ job.epoch \in Nat
  <2>1. Len(Reads(job.by)) \in Nat /\ \A j \in 1..Len(Reads(job.by)) : Reads(job.by)[j] \in {0, -1}
    BY <1>3, ReadsAre
  <2>2. i \in 1..Len(Reads(job.by))
    BY <1>1, <1>3, <2>1
  <2> QED BY <1>3, <2>1, <2>2, EpochsAreInts
<1> QED BY <1>2, <1>3, <1>4

LEMMA GrowthKeeps == ASSUME BlocksInv, Tick \/ MineBlock PROVE BlocksInv'
<1>1. job' = job /\ blockCache' = blockCache
  BY DEF Tick, MineBlock
<1>2. /\ ChainOrdered /\ ChainOrdered' /\ LastBlock \in Nat /\ LastBlock' \in Nat /\ LastBlock <= LastBlock'
      /\ \A n \in 0..LastBlock : Ts(n)' = Ts(n)
  BY ChainGrows, BlocksAreOrdered DEF BlocksInv, BlocksTypes
<1>3. ASSUME NEW n \in 0..LastBlock, NEW limit PROVE Before(n, limit)' = Before(n, limit)
  BY <1>2 DEF Before
<1>4. job.head \in 0..LastBlock'
  BY <1>2 DEF BlocksInv, BlocksTypes
<1>5. BlocksTypes'
  BY <1>1, <1>2, <1>4 DEF BlocksInv, BlocksTypes
<1>6. ASSUME NEW i \in 1..Len(job.blocks), job.by = "node" \/ ~job.doubtful,
             NEW e, e = job.epoch + Reads(job.by)[i], NEW b, b = job.blocks[i]
      PROVE  Settled(b, e)'
  <2>1. e \in Int /\ e >= -1
    BY <1>6, ReadsAreOfEpochs DEF BlocksInv
  <2>2. Settled(b, e)
    BY <1>6 DEF BlocksInv, BlocksSettled
  <2> QED BY <1>2, <2>1, <2>2, SettledStays DEF Settled
<1>7. BlocksSettled'
  BY <1>1, <1>6 DEF BlocksSettled
<1>8. ASSUME NEW e \in Epochs, blockCache[e].block # NotCached /\ ~blockCache[e].doubtful,
             NEW b, b = blockCache[e].block
      PROVE  Settled(b, e)'
  <2>1. e \in Int /\ e >= -1
    BY EpochsAreInts
  <2>2. Settled(b, e)
    BY <1>8 DEF BlocksInv, CacheSettled
  <2> QED BY <1>2, <2>1, <2>2, SettledStays DEF Settled
<1>9. CacheSettled'
  BY <1>1, <1>8 DEF CacheSettled
<1>10. NodeIsPast'
  <2>1. SUFFICES ASSUME job.by = "node", Len(job.blocks) > 0 PROVE ~Before(job.head, epochEndsAt(job.epoch))'
    BY <1>1 DEF NodeIsPast
  <2> QED BY <1>1, <1>3, <2>1 DEF NodeIsPast, BlocksInv, BlocksTypes, epochEndsAt
<1>11. RelayerReadsForward'
  <2>1. job.head \in 0..LastBlock /\ LastBlock \in Nat /\ Len(job.blocks) \in Nat /\ job.blocks \in Seq(Int)
    BY <1>2 DEF BlocksInv, BlocksTypes
  <2>2. \A e : epochEndsAt(e)' = epochEndsAt(e)
    BY DEF epochEndsAt
  <2>3. ASSUME job.by = "relayer", Len(job.blocks) >= 1
        PROVE  job.blocks[1] \in 0..job.head /\ Before(job.blocks[1], epochEndsAt(job.epoch))'
    <3>1. job.blocks[1] \in 0..job.head /\ Before(job.blocks[1], epochEndsAt(job.epoch))
      BY <2>3 DEF BlocksInv, RelayerReadsForward
    <3>2. job.blocks[1] \in 0..LastBlock
      BY <2>1, <3>1
    <3> QED BY <1>1, <1>3, <2>2, <3>1, <3>2
  <2>4. ASSUME job.by = "relayer", Len(job.blocks) >= 2
        PROVE  /\ job.blocks[2] >= -1
               /\ \A n \in job.blocks[2] + 1..job.blocks[1] : ~Before(n, epochEndsAt(job.epoch - 1))'
    <3>1. /\ job.blocks[2] >= -1 /\ job.blocks[1] \in 0..job.head
          /\ \A n \in job.blocks[2] + 1..job.blocks[1] : ~Before(n, epochEndsAt(job.epoch - 1))
      BY <2>1, <2>4 DEF BlocksInv, RelayerReadsForward
    <3>2. job.blocks[2] \in Int /\ job.blocks[1] \in Int
      BY <2>1, <2>4
    <3>3. ASSUME NEW n \in job.blocks[2] + 1..job.blocks[1] PROVE n \in 0..LastBlock
      BY <2>1, <3>1, <3>2
    <3> QED BY <1>1, <1>3, <2>2, <3>1, <3>3
  <2> QED BY <1>1, <2>3, <2>4 DEF RelayerReadsForward
<1> QED BY <1>5, <1>7, <1>9, <1>10, <1>11 DEF BlocksInv

\* The steps of a job leave the layer alone.
LEMMA SameChain ==
    ASSUME UNCHANGED <<clock, times>>
    PROVE  /\ ChainOrdered' = ChainOrdered /\ LastBlock' = LastBlock
           /\ \A n, limit : Before(n, limit)' = Before(n, limit)
           /\ \A e : epochEndsAt(e)' = epochEndsAt(e)
           /\ \A b, e : Settled(b, e)' = Settled(b, e)
<1>1. clock' = clock /\ times' = times
  OBVIOUS
<1>2. ChainOrdered' = ChainOrdered
  BY <1>1 DEF ChainOrdered
<1>3. LastBlock' = LastBlock /\ \A n : Ts(n)' = Ts(n)
  BY <1>1 DEF LastBlock, Ts
<1>4. \A n, limit : Before(n, limit)' = Before(n, limit)
  BY <1>3 DEF Before
<1>5. \A e : epochEndsAt(e)' = epochEndsAt(e)
  BY DEF epochEndsAt
<1>6. ASSUME NEW e PROVE TrueBlock(e)' = TrueBlock(e)
  <2>1. {n \in 0 .. LastBlock' : Ts(n)' < epochEndsAt(e)} = {n \in 0 .. LastBlock : Ts(n) < epochEndsAt(e)}
    BY <1>3
  <2> QED BY <1>5, <2>1, SameTrueBlock DEF BlocksBefore
<1>7. \A b, e : Settled(b, e)' = Settled(b, e)
  BY <1>1, <1>5, <1>6 DEF Settled
<1> QED BY <1>2, <1>3, <1>4, <1>5, <1>7

\* A job that has not read anything.
LEMMA EmptyJobKeeps ==
    ASSUME BlocksInv, UNCHANGED <<clock, times>>, blockCache' \in [Epochs -> CacheEntries], CacheSettled',
           NEW by \in Programs \cup {"nobody"}, NEW e \in Epochs,
           job' = NoJob \/ (by \in Programs /\ e # -1),
           job' = [by |-> by, epoch |-> e, blocks |-> <<>>, head |-> 0, doubtful |-> FALSE]
    PROVE  BlocksInv'
<1>1. /\ job'.by = by /\ job'.epoch = e /\ job'.blocks = << >> /\ job'.head = 0 /\ Len(job'.blocks) = 0
      /\ job' \in [by : Programs \cup {"nobody"}, epoch : Epochs, blocks : Seq(Int), head : Nat, doubtful : BOOLEAN]
  OBVIOUS
<1>2. ChainOrdered' /\ LastBlock' \in Nat
  BY SameChain, BlocksAreOrdered DEF BlocksInv, BlocksTypes
<1>3. by \in Programs => 0 <= Len(Reads(by))
  BY ReadsAre
<1>4. BlocksTypes'
  BY <1>1, <1>2, <1>3 DEF BlocksTypes, NoJob
<1> QED BY <1>1, <1>4 DEF BlocksInv, BlocksSettled, NodeIsPast, RelayerReadsForward

LEMMA StartKeeps == ASSUME BlocksInv, NEW by \in Programs, NEW e \in Epochs \ {-1}, StartRange(by, e) PROVE BlocksInv'
<1>1. UNCHANGED <<clock, times>> /\ blockCache' = blockCache
  BY DEF StartRange
<1>2. job' = [by |-> by, epoch |-> e, blocks |-> <<>>, head |-> 0, doubtful |-> FALSE]
  BY DEF StartRange, NoJob
<1>3. CacheSettled'
  BY <1>1, SameChain DEF CacheSettled, BlocksInv
<1>4. blockCache' \in [Epochs -> CacheEntries]
  BY <1>1 DEF BlocksInv, BlocksTypes
<1> QED BY <1>1, <1>2, <1>3, <1>4, EmptyJobKeeps

LEMMA DroppedKeeps ==
    ASSUME BlocksInv, UNCHANGED <<clock, times>>, blockCache' \in [Epochs -> CacheEntries], CacheSettled', job' = NoJob
    PROVE  BlocksInv'
<1>1. job' = [by |-> "nobody", epoch |-> 0, blocks |-> <<>>, head |-> 0, doubtful |-> FALSE]
  BY DEF NoJob
<1> QED BY <1>1, EpochsAreInts, EmptyJobKeeps

LEMMA UseKeeps == ASSUME BlocksInv, UseRange PROVE BlocksInv'
<1>1. UNCHANGED <<clock, times>> /\ blockCache' = blockCache /\ job' = NoJob
  BY DEF UseRange
<1>2. CacheSettled'
  BY <1>1, SameChain DEF CacheSettled, BlocksInv
<1> QED BY <1>1, <1>2, DroppedKeeps DEF BlocksInv, BlocksTypes

\* The epoch a job asks about is its own or the one before; node-cli asks about the one before last.
LEMMA NextEpochIs ==
    ASSUME BlocksInv, Reading
    PROVE  /\ job.by \in Programs /\ job.epoch \in Nat /\ NextEpoch \in Epochs /\ NextEpoch \in Int /\ NextEpoch >= -1
           /\ Len(job.blocks) \in Nat /\ Len(job.blocks) + 1 <= Len(Reads(job.by))
           /\ NextEpoch = job.epoch + Reads(job.by)[Len(job.blocks) + 1]
           /\ NextEpoch \in {job.epoch, job.epoch - 1}
           /\ job.by = "node" /\ NextEpoch # job.epoch => Len(job.blocks) > 0
           /\ job.by = "relayer" => \/ Len(job.blocks) = 0 /\ NextEpoch = job.epoch
                                    \/ Len(job.blocks) = 1 /\ NextEpoch = job.epoch - 1
<1> DEFINE k == Len(job.blocks)
<1>1. job # NoJob /\ k < Len(Reads(job.by)) /\ k \in Nat
  BY DEF Reading, BlocksInv, BlocksTypes
<1>2. job.by \in Programs /\ job.epoch \in Epochs /\ job.epoch # -1
  BY <1>1 DEF BlocksInv, BlocksTypes
<1>3. Len(Reads(job.by)) \in Nat /\ \A j \in 1..Len(Reads(job.by)) : Reads(job.by)[j] \in {0, -1}
  BY <1>2, ReadsAre
<1>4. k + 1 \in 1..Len(Reads(job.by)) /\ Reads(job.by)[k + 1] \in {0, -1}
  BY <1>1, <1>3
<1>5. job.epoch \in Nat /\ job.epoch - 1 \in Epochs /\ NextEpoch = job.epoch + Reads(job.by)[k + 1]
  BY <1>2, EpochsAreInts DEF NextEpoch
<1>6. NextEpoch \in {job.epoch, job.epoch - 1} /\ NextEpoch \in Int /\ NextEpoch >= -1
  BY <1>4, <1>5
<1>7. job.by = "node" /\ NextEpoch # job.epoch => k > 0
  <2>1. SUFFICES ASSUME job.by = "node", k = 0 PROVE NextEpoch = job.epoch
    BY <1>1
  <2>2. Reads(job.by)[k + 1] = 0
    BY <1>2, <2>1, ReadsAre
  <2> QED BY <1>5, <2>2
<1> HIDE DEF k
<1>8. job.by = "relayer" => \/ k = 0 /\ NextEpoch = job.epoch
                            \/ k = 1 /\ NextEpoch = job.epoch - 1
  <2>1. SUFFICES ASSUME job.by = "relayer"
                 PROVE  \/ k = 0 /\ NextEpoch = job.epoch
                        \/ k = 1 /\ NextEpoch = job.epoch - 1
    OBVIOUS
  <2>2. Len(Reads(job.by)) = 2 /\ Reads(job.by)[1] = 0 /\ Reads(job.by)[2] = -1
    BY <1>2, <2>1, ReadsAre
  <2>3. k = 0 \/ k = 1
    BY <1>1, <2>2
  <2>4. CASE k = 0
    <3>1. Reads(job.by)[k + 1] = 0
      BY <2>2, <2>4
    <3> QED BY <1>5, <2>4, <3>1
  <2>5. CASE k = 1
    <3>1. Reads(job.by)[k + 1] = -1
      BY <2>2, <2>5
    <3> QED BY <1>5, <2>5, <3>1
  <2> QED BY <2>3, <2>4, <2>5
<1>9. k + 1 <= Len(Reads(job.by))
  BY <1>4, <1>3
<1> QED BY <1>1, <1>2, <1>5, <1>6, <1>7, <1>8, <1>9 DEF k

Refused(b, e) == \/ b = NotDetermined /\ ~(job.by = "node" /\ e < job.epoch)
                 \/ b = Null /\ e = job.epoch

\* What a step that reads is: the epoch e asked about, the answer b, the head it was given at, the doubt.
IsRead(e, b, head, doubtful) ==
    /\ Reading /\ UNCHANGED <<clock, times>> /\ e = NextEpoch
    /\ head \in job.head..LastBlock /\ doubtful \in BOOLEAN /\ b \in Int
    /\ Answered(b, e, head, doubtful)
    /\ job.by # "watchdog" => /\ b = l2BlockFor(job.by, head, e)
                              /\ doubtful = (head < LastBlock \/ clock < epochEndsAt(e))
    /\ job.by = "watchdog" /\ ~doubtful /\ ~Refused(b, e) => Settled(b, e) /\ b # NotDetermined

\* An answer that a job takes: settled unless it was doubtful, and of node-cli always.
LEMMA TakenAnswerIsTrue ==
    ASSUME BlocksInv, NEW e, NEW b, NEW head, NEW doubtful, IsRead(e, b, head, doubtful), ~Refused(b, e)
    PROVE  /\ job.by = "node" => ~Before(head, epochEndsAt(job.epoch))
           /\ job.by = "node" \/ ~doubtful => Settled(NotedBlock(b), e)
<1>1. /\ job.by \in Programs /\ job.epoch \in Nat /\ e \in Int /\ e >= -1 /\ e \in {job.epoch, job.epoch - 1}
      /\ job.by = "node" /\ e # job.epoch => Len(job.blocks) > 0
  BY NextEpochIs DEF IsRead
<1>2. ChainOrdered /\ LastBlock \in Nat /\ job.head \in 0..LastBlock /\ job.head \in Nat
  BY BlocksAreOrdered DEF BlocksInv, BlocksTypes
<1>3. head \in job.head..LastBlock /\ head \in 0..LastBlock /\ job.head <= head
  BY <1>2 DEF IsRead
<1>4. job.by # "watchdog" => /\ b = l2BlockFor(job.by, head, e)
                             /\ doubtful = (head < LastBlock \/ clock < epochEndsAt(e))
  BY DEF IsRead
<1>5. epochEndsAt(e) \in Nat /\ epochEndsAt(job.epoch) \in Nat /\ epochEndsAt(e) <= epochEndsAt(job.epoch) /\ clock \in Nat
  <2>1. job.epoch \in Int /\ job.epoch >= -1
    BY <1>1
  <2>2. /\ epochEndsAt(e) \in Nat /\ epochEndsAt(job.epoch) \in Nat
        /\ epochEndsAt(job.epoch - 1) <= epochEndsAt(job.epoch)
    BY <1>1, <2>1, EpochEnds
  <2>3. clock \in Nat
    BY <1>2 DEF ChainOrdered
  <2> QED BY <1>1, <2>2, <2>3
<1>6. CASE job.by = "node"
  <2>1. b = l2BlockFor(job.by, head, e)
    BY <1>4, <1>6
  <2>2. ~Before(head, epochEndsAt(job.epoch))
    <3>1. CASE e = job.epoch
      <4>1. b # NotDetermined /\ b # Null
        BY <1>1, <1>6, <3>1 DEF Refused
      <4>2. b \in 0..head /\ b \in Nat
        BY <1>1, <1>2, <1>3, <2>1, <4>1, SearchAnswers
      <4>3. ~Before(head, epochEndsAt(e))
        BY <1>1, <1>2, <1>3, <1>6, <2>1, <4>2, SearchAnswers
      <4> QED BY <3>1, <4>3
    <3>2. CASE e # job.epoch
      <4>1. ~Before(job.head, epochEndsAt(job.epoch))
        BY <1>1, <1>6, <3>2 DEF BlocksInv, NodeIsPast
      <4> QED BY <1>2, <1>3, <1>5, <4>1, BlocksAreOrdered
    <3> QED BY <3>1, <3>2
  <2>3. ~Before(head, epochEndsAt(e))
    <3>1. Ts(head) \in Nat
      BY <1>2, <1>3, BlocksAreOrdered
    <3> QED BY <1>5, <2>2, <3>1 DEF Before
  <2>4. Settled(NotedBlock(b), e)
    BY <1>1, <1>2, <1>3, <1>6, <2>1, <2>3, AnswersSettle
  <2> QED BY <2>2, <2>4
<1>7. CASE job.by # "node" /\ ~doubtful
  <2>1. CASE job.by = "watchdog"
    BY <1>7, <2>1 DEF IsRead, NotedBlock
  <2>2. CASE job.by # "watchdog"
    <3>1. b = l2BlockFor(job.by, head, e) /\ ~(head < LastBlock) /\ ~(clock < epochEndsAt(e))
      BY <1>4, <1>7, <2>2
    <3>2. head = LastBlock /\ clock >= epochEndsAt(e)
      BY <1>2, <1>3, <1>5, <3>1
    <3>3. b # NotDetermined
      BY <1>7 DEF Refused
    <3> QED BY <1>1, <1>2, <1>3, <1>7, <3>1, <3>2, <3>3, AnswersSettle
  <2> QED BY <2>1, <2>2
<1> QED BY <1>6, <1>7

LEMMA ReadForwardKeeps ==
    ASSUME BlocksInv, NEW e, NEW b, NEW head, NEW doubtful, IsRead(e, b, head, doubtful), ~Refused(b, e),
           job.by = "relayer"
    PROVE  \/ Len(job.blocks) = 0 /\ NotedBlock(b) \in 0..head /\ Before(NotedBlock(b), epochEndsAt(job.epoch))
           \/ /\ Len(job.blocks) = 1 /\ NotedBlock(b) >= -1 /\ job.blocks[1] \in 0..head
              /\ \A n \in NotedBlock(b) + 1..job.blocks[1] : ~Before(n, epochEndsAt(job.epoch - 1))
<1>1. /\ job.by \in Programs /\ job.epoch \in Nat /\ e \in Int /\ e >= -1
      /\ \/ Len(job.blocks) = 0 /\ e = job.epoch
         \/ Len(job.blocks) = 1 /\ e = job.epoch - 1
  BY NextEpochIs DEF IsRead
<1>2. ChainOrdered /\ LastBlock \in Nat /\ job.head \in 0..LastBlock /\ job.head \in Nat
  BY BlocksAreOrdered DEF BlocksInv, BlocksTypes
<1>3. head \in job.head..LastBlock /\ head \in 0..LastBlock /\ job.head <= head
  BY <1>2 DEF IsRead
<1>4. b = l2BlockFor(job.by, head, e) /\ epochEndsAt(e) \in Nat
  BY <1>1, EpochEnds DEF IsRead
<1>5. /\ b \in {Null} \cup 0..head /\ NotedBlock(b) = b
      /\ b = Null => ~Before(0, epochEndsAt(e))
      /\ b \in Nat => /\ Before(b, epochEndsAt(e))
                      /\ b = head \/ (b + 1 \in 0..head /\ ~Before(b + 1, epochEndsAt(e)))
  <2>1. /\ b \in {Null, NotDetermined} \cup 0..head /\ b # NotDetermined
        /\ b = Null => ~Before(0, epochEndsAt(e))
        /\ b \in Nat => /\ Before(b, epochEndsAt(e))
                        /\ b = head \/ (b + 1 \in 0..head /\ ~Before(b + 1, epochEndsAt(e)))
    BY <1>1, <1>2, <1>3, <1>4, SearchAnswers
  <2> QED BY <2>1 DEF NotedBlock
<1>6. CASE Len(job.blocks) = 0 /\ e = job.epoch
  <2>1. b \in 0..head /\ b \in Nat
    BY <1>2, <1>3, <1>5, <1>6 DEF Refused
  <2> QED BY <1>5, <1>6, <2>1
<1>7. CASE Len(job.blocks) = 1 /\ e = job.epoch - 1
  <2>1. job.blocks[1] \in 0..job.head
    BY <1>7 DEF BlocksInv, RelayerReadsForward
  <2>2. job.blocks[1] \in 0..head /\ job.blocks[1] \in Int
    BY <1>2, <1>3, <2>1
  <2>3. b \in Int /\ b >= -1
    BY <1>2, <1>3, <1>5 DEF Null
  <2>4. ASSUME NEW n \in b + 1..job.blocks[1] PROVE ~Before(n, epochEndsAt(e))
    <3>1. n \in 0..head /\ n \in 0..LastBlock /\ n >= b + 1
      BY <1>2, <1>3, <2>2, <2>3
    <3>2. CASE b = Null
      BY <1>2, <1>4, <1>5, <3>1, <3>2, BlocksAreOrdered
    <3>3. CASE b \in Nat
      <4>1. b # head
        BY <1>3, <3>1, <3>3
      <4>2. b + 1 \in 0..LastBlock /\ ~Before(b + 1, epochEndsAt(e))
        BY <1>2, <1>3, <1>5, <3>3, <4>1
      <4> QED BY <1>2, <1>4, <3>1, <4>2, BlocksAreOrdered
    <3> QED BY <1>5, <3>2, <3>3
  <2> QED BY <1>5, <1>7, <2>2, <2>3, <2>4
<1> QED BY <1>1, <1>6, <1>7

\* An answer keeps the invariant, whatever became of the cache.
LEMMA AnswerKeeps ==
    ASSUME BlocksInv, NEW e, NEW b, NEW head, NEW doubtful, IsRead(e, b, head, doubtful),
           blockCache' \in [Epochs -> CacheEntries], CacheSettled'
    PROVE  BlocksInv'
<1>1. CASE Refused(b, e)
  <2>1. job' = NoJob
    BY <1>1 DEF IsRead, Answered, Refused
  <2> QED BY <2>1, DroppedKeeps DEF IsRead
<1>2. CASE ~Refused(b, e)
  <2> DEFINE k == Len(job.blocks)
             noted == NotedBlock(b)
  <2>1. job' = [job EXCEPT !.blocks = Append(@, noted), !.head = head, !.doubtful = @ \/ doubtful]
    BY <1>2 DEF IsRead, Answered, Refused, NotedBlock
  <2>2. /\ job \in [by : Programs \cup {"nobody"}, epoch : Epochs, blocks : Seq(Int), head : Nat, doubtful : BOOLEAN]
        /\ ChainOrdered /\ LastBlock \in Nat /\ job.head \in 0..LastBlock
    BY BlocksAreOrdered DEF BlocksInv, BlocksTypes
  <2>3. /\ job.by \in Programs /\ job.epoch \in Nat /\ job.epoch # -1 /\ k \in Nat /\ k + 1 <= Len(Reads(job.by))
        /\ e = job.epoch + Reads(job.by)[k + 1]
    BY NextEpochIs DEF IsRead
  <2>4. head \in Nat /\ head \in 0..LastBlock /\ noted \in Int /\ doubtful \in BOOLEAN
    BY <2>2 DEF IsRead, NotedBlock, Null
  <2> HIDE DEF noted
  <2>5. /\ job'.by = job.by /\ job'.epoch = job.epoch /\ job'.head = head /\ job'.doubtful = (job.doubtful \/ doubtful)
        /\ job'.blocks = Append(job.blocks, noted) /\ job.blocks \in Seq(Int)
    BY <2>1, <2>2
  <2>6. /\ job'.blocks \in Seq(Int) /\ Len(job'.blocks) = k + 1 /\ job'.blocks[k + 1] = noted
        /\ \A i \in 1..k : job'.blocks[i] = job.blocks[i]
    BY <2>4, <2>5
  <2>7. job' \in [by : Programs \cup {"nobody"}, epoch : Epochs, blocks : Seq(Int), head : Nat, doubtful : BOOLEAN]
    BY <2>1, <2>2, <2>4, <2>5, <2>6
  <2> HIDE DEF k
  <2>8. /\ UNCHANGED <<clock, times>> /\ ChainOrdered' /\ LastBlock' = LastBlock
        /\ \A n, limit : Before(n, limit)' = Before(n, limit)
        /\ \A c, d : Settled(c, d)' = Settled(c, d)
    BY <2>2, SameChain DEF IsRead
  <2>9. BlocksTypes'
    BY <2>3, <2>4, <2>5, <2>6, <2>7, <2>8 DEF BlocksTypes
  <2>10. BlocksSettled'
    <3>1. ASSUME job.by = "node" \/ ~(job.doubtful \/ doubtful), NEW i \in 1..k + 1,
                 NEW c, c = job'.blocks[i], NEW d, d = job.epoch + Reads(job.by)[i]
          PROVE  Settled(c, d)'
      <4>1. CASE i = k + 1
        <5>1. c = noted /\ d = e
          BY <2>3, <2>6, <3>1, <4>1
        <5>2. Settled(noted, e)
          BY <1>2, <2>5, <3>1, TakenAnswerIsTrue DEF noted
        <5> QED BY <2>8, <5>1, <5>2
      <4>2. CASE i # k + 1
        <5>1. i \in 1..k
          BY <2>3, <4>2
        <5>2. Settled(job.blocks[i], job.epoch + Reads(job.by)[i])
          BY <2>2, <3>1, <5>1 DEF BlocksInv, BlocksSettled, k
        <5>3. c = job.blocks[i]
          BY <2>6, <3>1, <5>1
        <5> QED BY <2>8, <3>1, <5>2, <5>3
      <4> QED BY <4>1, <4>2
    <3> QED BY <2>5, <2>6, <3>1 DEF BlocksSettled
  <2>11. NodeIsPast'
    <3>1. job.by = "node" => ~Before(head, epochEndsAt(job.epoch))
      BY <1>2, TakenAnswerIsTrue
    <3>2. epochEndsAt(job.epoch)' = epochEndsAt(job.epoch)
      BY <2>5 DEF epochEndsAt
    <3> QED BY <2>5, <2>8, <3>1, <3>2 DEF NodeIsPast
  <2>12. RelayerReadsForward'
    <3>1. SUFFICES ASSUME job.by = "relayer" PROVE RelayerReadsForward'
      BY <2>5 DEF RelayerReadsForward
    <3>2. \/ k = 0 /\ noted \in 0..head /\ Before(noted, epochEndsAt(job.epoch))
          \/ /\ k = 1 /\ noted >= -1 /\ job.blocks[1] \in 0..head
             /\ \A n \in noted + 1..job.blocks[1] : ~Before(n, epochEndsAt(job.epoch - 1))
      BY <1>2, <3>1, ReadForwardKeeps DEF k, noted
    <3>3. epochEndsAt(job.epoch)' = epochEndsAt(job.epoch) /\ epochEndsAt(job.epoch - 1)' = epochEndsAt(job.epoch - 1)
      BY <2>5 DEF epochEndsAt
    <3>4. CASE k = 0
      <4>1. Len(job'.blocks) = 1 /\ job'.blocks[1] = noted
        BY <2>6, <3>4
      <4>2. noted \in 0..head /\ Before(noted, epochEndsAt(job.epoch))
        BY <3>2, <3>4
      <4> QED BY <2>5, <2>8, <3>3, <4>1, <4>2 DEF RelayerReadsForward
    <3>5. CASE k = 1
      <4>1. Len(job'.blocks) = 2 /\ job'.blocks[2] = noted /\ job'.blocks[1] = job.blocks[1]
        BY <2>6, <3>5
      <4>2. /\ noted >= -1 /\ job.blocks[1] \in 0..head
            /\ \A n \in noted + 1..job.blocks[1] : ~Before(n, epochEndsAt(job.epoch - 1))
        BY <3>2, <3>5
      <4>3. Before(job.blocks[1], epochEndsAt(job.epoch))
        BY <3>1, <3>5 DEF k, BlocksInv, RelayerReadsForward
      <4> QED BY <2>5, <2>8, <3>3, <4>1, <4>2, <4>3 DEF RelayerReadsForward
    <3> QED BY <3>2, <3>4, <3>5
  <2> QED BY <2>9, <2>10, <2>11, <2>12 DEF BlocksInv
<1> QED BY <1>1, <1>2

LEMMA ReadKeeps == ASSUME BlocksInv, ReadBlock PROVE BlocksInv'
<1>1. PICK e : e = NextEpoch
  OBVIOUS
<1>2. PICK entry : entry = blockCache[e]
  OBVIOUS
<1>3. /\ Reading /\ UNCHANGED <<clock, times>>
      /\ \/ /\ job.by = "watchdog" /\ entry.block # NotCached
            /\ Answered(entry.block, e, job.head, entry.doubtful)
            /\ UNCHANGED blockCache
         \/ \E head \in job.head .. LastBlock :
               LET b == l2BlockFor(job.by, head, e)
                   doubtful == head < LastBlock \/ clock < epochEndsAt(e) IN
               /\ Answered(b, e, head, doubtful)
               /\ blockCache' = IF job.by = "watchdog" /\ CachesIt(e)
                                THEN [blockCache EXCEPT ![e] = [block |-> b, doubtful |-> doubtful]]
                                ELSE blockCache
  BY <1>1, <1>2 DEF ReadBlock
<1>4. job.by \in Programs /\ job.epoch \in Nat /\ e \in Epochs /\ e \in Int /\ e >= -1
  BY <1>1, <1>3, NextEpochIs
<1>5. /\ ChainOrdered /\ LastBlock \in Nat /\ job.head \in 0..LastBlock /\ clock \in Nat
      /\ blockCache \in [Epochs -> CacheEntries] /\ job.head \in job.head..LastBlock
  BY BlocksAreOrdered DEF BlocksInv, BlocksTypes, ChainOrdered
<1>6. entry.block \in Int /\ entry.doubtful \in BOOLEAN
  BY <1>2, <1>4, <1>5 DEF CacheEntries
<1>7. CASE /\ job.by = "watchdog" /\ entry.block # NotCached
           /\ Answered(entry.block, e, job.head, entry.doubtful)
           /\ UNCHANGED blockCache
  <2>1. PICK head : head = job.head
    OBVIOUS
  <2>2. ~entry.doubtful => Settled(entry.block, e)
    BY <1>2, <1>4, <1>7 DEF BlocksInv, CacheSettled
  <2>3. ~Refused(entry.block, e) => entry.block # NotDetermined
    BY <1>7 DEF Refused
  <2>4. IsRead(e, entry.block, head, entry.doubtful)
    BY <1>1, <1>3, <1>5, <1>6, <1>7, <2>1, <2>2, <2>3 DEF IsRead
  <2>5. CacheSettled' /\ blockCache' \in [Epochs -> CacheEntries]
    BY <1>3, <1>5, <1>7, SameChain DEF BlocksInv, CacheSettled
  <2> QED BY <2>4, <2>5, AnswerKeeps
<1>8. CASE \E head \in job.head .. LastBlock :
               LET b == l2BlockFor(job.by, head, e)
                   doubtful == head < LastBlock \/ clock < epochEndsAt(e) IN
               /\ Answered(b, e, head, doubtful)
               /\ blockCache' = IF job.by = "watchdog" /\ CachesIt(e)
                                THEN [blockCache EXCEPT ![e] = [block |-> b, doubtful |-> doubtful]]
                                ELSE blockCache
  <2>1. PICK head \in job.head .. LastBlock :
               LET b == l2BlockFor(job.by, head, e)
                   doubtful == head < LastBlock \/ clock < epochEndsAt(e) IN
               /\ Answered(b, e, head, doubtful)
               /\ blockCache' = IF job.by = "watchdog" /\ CachesIt(e)
                                THEN [blockCache EXCEPT ![e] = [block |-> b, doubtful |-> doubtful]]
                                ELSE blockCache
    BY <1>8
  <2>2. PICK b : b = l2BlockFor(job.by, head, e)
    OBVIOUS
  <2>3. PICK doubtful : doubtful = (head < LastBlock \/ clock < epochEndsAt(e))
    OBVIOUS
  <2>4. /\ Answered(b, e, head, doubtful)
        /\ blockCache' = IF job.by = "watchdog" /\ CachesIt(e)
                         THEN [blockCache EXCEPT ![e] = [block |-> b, doubtful |-> doubtful]]
                         ELSE blockCache
    BY <2>1, <2>2, <2>3
  <2>5. /\ head \in 0..LastBlock /\ doubtful \in BOOLEAN
        /\ b \in {Null, NotDetermined} \cup 0..head
        /\ b = NotDetermined => job.by \in {"node", "sdk"}
    <3>1. head \in 0..LastBlock
      BY <1>5, <2>1
    <3> QED BY <1>4, <1>5, <2>2, <2>3, <3>1, SearchAnswers
  <2>6. b \in Int
    BY <1>5, <2>5 DEF Null, NotDetermined
  <2>7. job.by = "watchdog" => b # NotDetermined /\ NotedBlock(b) = b
    BY <2>5 DEF NotedBlock
  <2>8. job.by = "watchdog" /\ ~doubtful => Settled(b, e)
    <3>1. SUFFICES ASSUME job.by = "watchdog", ~doubtful PROVE Settled(b, e)
      OBVIOUS
    <3>2. epochEndsAt(e) \in Nat
      BY <1>4, EpochEnds
    <3>3. head = LastBlock /\ clock >= epochEndsAt(e)
      <4>1. ~(head < LastBlock) /\ ~(clock < epochEndsAt(e))
        BY <2>3, <3>1, Zenon
      <4> QED BY <1>5, <2>5, <3>2, <4>1
    <3>4. Settled(NotedBlock(b), e)
      BY <1>4, <1>5, <2>2, <2>5, <3>1, <3>3, AnswersSettle
    <3> QED BY <2>7, <3>1, <3>4
  <2>9. IsRead(e, b, head, doubtful)
    BY <1>1, <1>3, <2>1, <2>2, <2>3, <2>4, <2>5, <2>6, <2>7, <2>8 DEF IsRead
  <2>10. blockCache' \in [Epochs -> CacheEntries]
    BY <1>4, <1>5, <2>4, <2>5, <2>6 DEF CacheEntries
  <2>11. ASSUME NEW d \in Epochs, blockCache'[d].block # NotCached /\ ~blockCache'[d].doubtful,
                NEW c, c = blockCache'[d].block
         PROVE  Settled(c, d)
    <3>1. CASE blockCache'[d] = blockCache[d]
      BY <2>11, <3>1 DEF BlocksInv, CacheSettled
    <3>2. CASE job.by = "watchdog" /\ d = e /\ blockCache'[d] = [block |-> b, doubtful |-> doubtful]
      BY <2>8, <2>11, <3>2
    <3>3. \/ blockCache'[d] = blockCache[d]
          \/ job.by = "watchdog" /\ d = e /\ blockCache'[d] = [block |-> b, doubtful |-> doubtful]
      BY <1>5, <2>4
    <3> QED BY <3>1, <3>2, <3>3
  <2>12. CacheSettled'
    BY <1>3, <2>11, SameChain DEF CacheSettled
  <2> QED BY <2>9, <2>10, <2>12, AnswerKeeps
<1> QED BY <1>3, <1>7, <1>8

LEMMA BlocksStep == ASSUME BlocksInv, [EpochNext]_epochVars PROVE BlocksInv'
<1>1. CASE UNCHANGED epochVars
  <2>1. UNCHANGED <<clock, times>> /\ job' = job /\ blockCache' = blockCache
    BY <1>1 DEF epochVars
  <2>2. /\ ChainOrdered' /\ LastBlock' = LastBlock
        /\ \A n, limit : Before(n, limit)' = Before(n, limit)
        /\ \A e : epochEndsAt(e)' = epochEndsAt(e)
        /\ \A b, e : Settled(b, e)' = Settled(b, e)
    BY <2>1, SameChain DEF BlocksInv, BlocksTypes
  <2>3. BlocksTypes'
    BY <2>1, <2>2 DEF BlocksInv, BlocksTypes
  <2>4. BlocksSettled' /\ CacheSettled'
    BY <2>1, <2>2 DEF BlocksInv, BlocksSettled, CacheSettled
  <2>5. NodeIsPast' /\ RelayerReadsForward'
    BY <2>1, <2>2 DEF BlocksInv, NodeIsPast, RelayerReadsForward
  <2> QED BY <2>3, <2>4, <2>5 DEF BlocksInv
<1>2. CASE Tick \/ MineBlock
  BY <1>2, GrowthKeeps
<1>3. CASE ReadBlock
  BY <1>3, ReadKeeps
<1>4. CASE UseRange
  BY <1>4, UseKeeps
<1>5. ASSUME NEW by \in Programs, NEW e \in Epochs \ {-1}, StartRange(by, e) PROVE BlocksInv'
  BY <1>5, StartKeeps
<1> QED BY <1>1, <1>2, <1>3, <1>4, <1>5 DEF EpochNext

\* What a finished job reads out of its blocks is one of the answers to the epoch in question.
LEMMA ReadIs ==
    ASSUME BlocksInv, Done, NEW offset \in {0, -1}
    PROVE  \E i \in 1..Len(job.blocks) : Reads(job.by)[i] = offset /\ Read(offset) = job.blocks[i]
<1>1. /\ job # NoJob /\ Len(job.blocks) = Len(Reads(job.by)) /\ job.by \in Programs /\ job.blocks \in Seq(Int)
      /\ DOMAIN job.blocks = 1..Len(job.blocks)
  BY DEF Done, BlocksInv, BlocksTypes
<1>2. \E i \in 1..Len(job.blocks) :
          Reads(job.by)[i] = offset /\ \A j \in 1..Len(job.blocks) : j > i => Reads(job.by)[j] # offset
  <2>1. CASE job.by = "node"
    <3>1. Len(job.blocks) = 3 /\ Reads(job.by)[1] = 0 /\ Reads(job.by)[2] = 0 /\ Reads(job.by)[3] = -1
      BY <1>1, <2>1, ReadsAre
    <3> QED BY <3>1
  <2>2. CASE job.by \in {"relayer", "watchdog"}
    <3>1. Len(job.blocks) = 2 /\ Reads(job.by)[1] = 0 /\ Reads(job.by)[2] = -1
      BY <1>1, <2>2, ReadsAre
    <3> QED BY <3>1
  <2>3. CASE job.by = "sdk"
    <3>1. Len(job.blocks) = 2 /\ Reads(job.by)[1] = -1 /\ Reads(job.by)[2] = 0
      BY <1>1, <2>3, ReadsAre
    <3> QED BY <3>1
  <2> QED BY <1>1, <2>1, <2>2, <2>3 DEF Programs
<1> DEFINE i == CHOOSE i \in DOMAIN job.blocks :
                    Reads(job.by)[i] = offset /\ \A j \in DOMAIN job.blocks : j > i => Reads(job.by)[j] # offset
<1>3. i \in 1..Len(job.blocks) /\ Reads(job.by)[i] = offset
  BY <1>1, <1>2
<1>4. Read(offset) = job.blocks[i]
  BY DEF Read
<1> HIDE DEF i
<1> QED BY <1>3, <1>4

LEMMA RangeHolds ==
    ASSUME BlocksInv, Done, job.by = "node" \/ ~job.doubtful
    PROVE  RangeIsTrue /\ (job.by = "node" => job.blocks[1] = LastOf)
<1>1. PICK i \in 1..Len(job.blocks) : Reads(job.by)[i] = 0 /\ Read(0) = job.blocks[i]
  BY ReadIs
<1>2. PICK j \in 1..Len(job.blocks) : Reads(job.by)[j] = -1 /\ Read(-1) = job.blocks[j]
  BY ReadIs
<1>3. job.epoch \in Nat /\ job.by \in Programs /\ Len(job.blocks) = Len(Reads(job.by))
  BY <1>1, ReadsAreOfEpochs DEF BlocksInv, Done
<1>4. Settled(Read(0), job.epoch)
  <2>1. Settled(job.blocks[i], job.epoch + 0)
    BY <1>1 DEF BlocksInv, BlocksSettled
  <2>2. job.epoch + 0 = job.epoch
    BY <1>3
  <2> QED BY <1>1, <2>1, <2>2
<1>5. Settled(Read(-1), job.epoch - 1)
  <2>1. Settled(job.blocks[j], job.epoch + -1)
    BY <1>2 DEF BlocksInv, BlocksSettled
  <2>2. job.epoch + -1 = job.epoch - 1
    BY <1>3
  <2> QED BY <1>2, <2>1, <2>2
<1>6. job.by = "node" => job.blocks[1] = Read(0)
  <2>1. SUFFICES ASSUME job.by = "node" PROVE job.blocks[1] = Read(0)
    OBVIOUS
  <2>2. 1 \in 1..Len(job.blocks) /\ Reads(job.by)[1] = 0
    BY <1>3, <2>1, ReadsAre
  <2>3. Settled(job.blocks[1], job.epoch + 0)
    BY <2>1, <2>2 DEF BlocksInv, BlocksSettled
  <2>4. job.epoch + 0 = job.epoch
    BY <1>3
  <2> QED BY <1>4, <2>3, <2>4 DEF Settled
<1> QED BY <1>4, <1>5, <1>6 DEF RangeIsTrue, LastOf, FirstOf, Settled

LEMMA RelayerStaysInEpoch ==
    ASSUME BlocksInv, Done, job.by = "relayer"
    PROVE  \A n \in FirstOf .. LastOf : Ts(n) \div EPOCH = job.epoch
<1>1. PICK i \in 1..Len(job.blocks) : Reads(job.by)[i] = 0 /\ Read(0) = job.blocks[i]
  BY ReadIs
<1>2. PICK j \in 1..Len(job.blocks) : Reads(job.by)[j] = -1 /\ Read(-1) = job.blocks[j]
  BY ReadIs
<1>3. /\ job.epoch \in Nat /\ job.by \in Programs /\ Len(job.blocks) = Len(Reads(job.by))
      /\ Len(Reads(job.by)) = 2 /\ Reads(job.by)[1] = 0 /\ Reads(job.by)[2] = -1
  BY <1>1, ReadsAreOfEpochs, ReadsAre DEF BlocksInv, Done
<1>4. Read(0) = job.blocks[1] /\ Read(-1) = job.blocks[2]
  <2>1. 1..Len(job.blocks) = {1, 2}
    <3>1. Len(job.blocks) = 2
      BY ONLY <1>3
    <3>2. 1..2 = {1, 2}
      OBVIOUS
    <3> QED BY <3>1, <3>2
  <2> QED BY <1>1, <1>2, <1>3, <2>1
<1>5. /\ job.blocks[1] \in 0..job.head /\ Before(job.blocks[1], epochEndsAt(job.epoch))
      /\ job.blocks[2] >= -1
      /\ \A n \in job.blocks[2] + 1..job.blocks[1] : ~Before(n, epochEndsAt(job.epoch - 1))
  BY <1>3 DEF BlocksInv, RelayerReadsForward
<1>6. /\ ChainOrdered /\ LastBlock \in Nat /\ job.head \in 0..LastBlock
      /\ job.blocks[1] \in Int /\ job.blocks[2] \in Int
  BY <1>3, BlocksAreOrdered DEF BlocksInv, BlocksTypes
<1>7. EPOCH \in Nat \ {0} /\ epochEndsAt(job.epoch) \in Nat /\ epochEndsAt(job.epoch - 1) = job.epoch * EPOCH
      /\ job.epoch * EPOCH \in Nat
  <2>1. job.epoch \in Int /\ job.epoch >= -1
    BY <1>3
  <2> QED BY <1>3, <2>1, EpochEnds, EpochSizes, ProductType
<1>8. ASSUME NEW n \in job.blocks[2] + 1..job.blocks[1] PROVE Ts(n) \div EPOCH = job.epoch
  <2>1. n \in 0..LastBlock /\ job.blocks[1] \in 0..LastBlock /\ n <= job.blocks[1]
    BY <1>5, <1>6
  <2>2. Before(n, epochEndsAt(job.epoch)) /\ ~Before(n, epochEndsAt(job.epoch - 1)) /\ Ts(n) \in Nat
    <3>1. epochEndsAt(job.epoch) \in Int
      BY <1>7
    <3>2. Before(n, epochEndsAt(job.epoch))
      BY <1>5, <1>6, <2>1, <3>1, BlocksAreOrdered
    <3>3. ~Before(n, epochEndsAt(job.epoch - 1))
      BY <1>5
    <3>4. Ts(n) \in Nat
      BY <1>6, <2>1, BlocksAreOrdered
    <3> QED BY <3>2, <3>3, <3>4
  <2>3. job.epoch * EPOCH <= Ts(n) /\ Ts(n) < (job.epoch + 1) * EPOCH
    BY <1>7, <2>2 DEF Before, epochEndsAt
  <2> DEFINE t == Ts(n)
             e == job.epoch
  <2> HIDE DEF t, e
  <2>4. t \in Nat /\ e \in Nat /\ EPOCH \in Nat \ {0} /\ e * EPOCH <= t /\ t < (e + 1) * EPOCH
    BY <1>3, <1>7, <2>2, <2>3 DEF t, e
  <2>5. e <= t \div EPOCH /\ t \div EPOCH \in Nat /\ (t \div EPOCH) * EPOCH <= t
    BY <2>4, DivAtLeast, DivBounds
  <2>6. ~(e + 1 <= t \div EPOCH)
    <3>1. SUFFICES ASSUME e + 1 <= t \div EPOCH PROVE FALSE
      OBVIOUS
    <3>2. (e + 1) * EPOCH <= (t \div EPOCH) * EPOCH
      BY <2>4, <2>5, <3>1
    <3>3. (e + 1) * EPOCH \in Nat /\ (t \div EPOCH) * EPOCH \in Nat
      BY <2>4, <2>5
    <3> QED BY <2>4, <2>5, <3>2, <3>3
  <2>7. t \div EPOCH = e
    BY <2>4, <2>5, <2>6
  <2> QED BY <2>7 DEF t, e
<1> QED BY <1>4, <1>8 DEF FirstOf, LastOf

LEMMA BlocksInvSuffices == ASSUME BlocksInv PROVE RangesAgree
BY RangeHolds, RelayerStaysInEpoch
   DEF RangesAgree, WitnessIsNeverMisled, OnlyABehindNodeMisleads, RangesHoldOneEpoch

LEMMA BlocksMove == ASSUME [EdgesNext]_edgeVars PROVE [EpochNext]_epochVars
BY DEF EdgesNext, edgeVars, mathVars

-----------------------------------------------------------------------------
(* ExitTree: lists, and the recursions the tree is computed with *)

\* A list of w values: what Len and the provers know of a sequence.
IsList(s, w) == w \in Nat /\ DOMAIN s = 1..w /\ s = [i \in 1..w |-> s[i]]
Listed(s) == {s[i] : i \in DOMAIN s}

LEMMA ListsAreSequences ==
    ASSUME NEW w, NEW s, IsList(s, w) PROVE s \in Seq(Listed(s)) /\ Len(s) = w /\ (s = <<>> <=> w = 0)
<1>1. w \in Nat /\ s \in [1..w -> Listed(s)]
  BY DEF IsList, Listed
<1>2. s \in Seq(Listed(s))
  BY <1>1
<1>3. Len(s) = w
  BY <1>1, <1>2 DEF IsList
<1> QED BY <1>2, <1>3

\* Concatenation, step by step: merkleProof's and proof's recursion.
PathsBody(g, X, n) == [d \in 0 .. n |-> IF d = 0 THEN <<>> ELSE g[d - 1] \o X[d]]
Paths(X, n) == CHOOSE g : g = PathsBody(g, X, n)

LEMMA PathsExist == ASSUME NEW n \in Nat, NEW X PROVE Paths(X, n) = PathsBody(Paths(X, n), X, n)
<1> DEFINE Solved == {k \in Nat : \E g : g = PathsBody(g, X, k)}
<1>1. 0 \in Solved
  <2> DEFINE g == [d \in 0..0 |-> <<>>]
  <2>1. g = PathsBody(g, X, 0)
    BY DEF PathsBody
  <2> QED BY <2>1
<1>2. ASSUME NEW k \in Nat, k \in Solved PROVE k + 1 \in Solved
  <2>1. PICK g : g = PathsBody(g, X, k)
    BY <1>2
  <2> DEFINE h == [d \in 0..k + 1 |-> IF d = 0 THEN <<>> ELSE g[d - 1] \o X[d]]
  <2>2. ASSUME NEW d \in 0..k PROVE h[d] = g[d]
    <3>1. g[d] = IF d = 0 THEN <<>> ELSE g[d - 1] \o X[d]
      BY <2>1, Zenon DEF PathsBody
    <3>2. d \in 0..k + 1
      OBVIOUS
    <3> QED BY <3>1, <3>2
  <2>3. ASSUME NEW d \in 0..k + 1, d # 0 PROVE h[d - 1] = g[d - 1]
    <3>1. d - 1 \in 0..k
      BY <2>3
    <3> QED BY <2>2, <3>1
  <2>4. h = PathsBody(h, X, k + 1)
    BY <2>3 DEF PathsBody
  <2> HIDE DEF h
  <2> QED BY <2>4
<1>3. \E g : g = PathsBody(g, X, n)
  <2>1. \A k \in Nat : k \in Solved
    <3> HIDE DEF Solved
    <3> QED BY <1>1, <1>2, StepByStep
  <2> QED BY <2>1
<1> QED BY <1>3, Zenon DEF Paths

\* Halving a place, step by step.
PlacesBody(g, index, n) == [d \in 1 .. n |-> IF d = 1 THEN index ELSE Above(g[d - 1])]
PlacesOf(index, n) == CHOOSE g : g = PlacesBody(g, index, n)

LEMMA PlacesExist == ASSUME NEW n \in Nat, NEW index PROVE PlacesOf(index, n) = PlacesBody(PlacesOf(index, n), index, n)
<1> DEFINE Solved == {k \in Nat : \E g : g = PlacesBody(g, index, k)}
<1>1. 0 \in Solved
  <2> DEFINE g == [d \in 1..0 |-> index]
  <2>1. g = PlacesBody(g, index, 0)
    BY DEF PlacesBody
  <2> QED BY <2>1
<1>2. ASSUME NEW k \in Nat, k \in Solved PROVE k + 1 \in Solved
  <2>1. PICK g : g = PlacesBody(g, index, k)
    BY <1>2
  <2> DEFINE h == [d \in 1..k + 1 |-> IF d = 1 THEN index ELSE Above(g[d - 1])]
  <2>2. ASSUME NEW d \in 1..k PROVE h[d] = g[d]
    <3>1. g[d] = IF d = 1 THEN index ELSE Above(g[d - 1])
      BY <2>1, Zenon DEF PlacesBody
    <3>2. d \in 1..k + 1
      OBVIOUS
    <3> QED BY <3>1, <3>2
  <2>3. ASSUME NEW d \in 1..k + 1, d # 1 PROVE h[d - 1] = g[d - 1]
    <3>1. d - 1 \in 1..k
      BY <2>3
    <3> QED BY <2>2, <3>1
  <2>4. h = PlacesBody(h, index, k + 1)
    BY <2>3 DEF PlacesBody
  <2> HIDE DEF h
  <2> QED BY <2>4
<1>3. \E g : g = PlacesBody(g, index, n)
  <2>1. \A k \in Nat : k \in Solved
    <3> HIDE DEF Solved
    <3> QED BY <1>1, <1>2, StepByStep
  <2> QED BY <2>1
<1> QED BY <1>3, Zenon DEF PlacesOf

\* The levels, one from the other.
LevelsBody(g, hashes, n) == [d \in 1 .. n |-> IF d = 1 THEN hashes ELSE Raised(g[d - 1])]
LevelsOf(hashes, n) == CHOOSE g : g = LevelsBody(g, hashes, n)

LEMMA LevelsExist == ASSUME NEW n \in Nat, NEW hashes PROVE LevelsOf(hashes, n) = LevelsBody(LevelsOf(hashes, n), hashes, n)
<1> DEFINE Solved == {k \in Nat : \E g : g = LevelsBody(g, hashes, k)}
<1>1. 0 \in Solved
  <2> DEFINE g == [d \in 1..0 |-> hashes]
  <2>1. g = LevelsBody(g, hashes, 0)
    BY DEF LevelsBody
  <2> QED BY <2>1
<1>2. ASSUME NEW k \in Nat, k \in Solved PROVE k + 1 \in Solved
  <2>1. PICK g : g = LevelsBody(g, hashes, k)
    BY <1>2
  <2> DEFINE h == [d \in 1..k + 1 |-> IF d = 1 THEN hashes ELSE Raised(g[d - 1])]
  <2>2. ASSUME NEW d \in 1..k PROVE h[d] = g[d]
    <3>1. g[d] = IF d = 1 THEN hashes ELSE Raised(g[d - 1])
      BY <2>1, Zenon DEF LevelsBody
    <3>2. d \in 1..k + 1
      OBVIOUS
    <3> QED BY <3>1, <3>2
  <2>3. ASSUME NEW d \in 1..k + 1, d # 1 PROVE h[d - 1] = g[d - 1]
    <3>1. d - 1 \in 1..k
      BY <2>3
    <3> QED BY <2>2, <3>1
  <2>4. h = LevelsBody(h, hashes, k + 1)
    BY <2>3 DEF LevelsBody
  <2> HIDE DEF h
  <2> QED BY <2>4
<1>3. \E g : g = LevelsBody(g, hashes, n)
  <2>1. \A k \in Nat : k \in Solved
    <3> HIDE DEF Solved
    <3> QED BY <1>1, <1>2, StepByStep
  <2> QED BY <2>1
<1> QED BY <1>3, Zenon DEF LevelsOf

\* Hashing a leaf up a path, step by step.
HashedBody(g, path, leaf, n) == [i \in 0 .. n |-> IF i = 0 THEN leaf ELSE hashPair(g[i - 1], path[i])]
Hashed(path, leaf, n) == CHOOSE g : g = HashedBody(g, path, leaf, n)

LEMMA HashedExist ==
    ASSUME NEW n \in Nat, NEW path, NEW leaf
    PROVE  Hashed(path, leaf, n) = HashedBody(Hashed(path, leaf, n), path, leaf, n)
<1> DEFINE Solved == {k \in Nat : \E g : g = HashedBody(g, path, leaf, k)}
<1>1. 0 \in Solved
  <2> DEFINE g == [i \in 0..0 |-> leaf]
  <2>1. g = HashedBody(g, path, leaf, 0)
    BY DEF HashedBody
  <2> QED BY <2>1
<1>2. ASSUME NEW k \in Nat, k \in Solved PROVE k + 1 \in Solved
  <2>1. PICK g : g = HashedBody(g, path, leaf, k)
    BY <1>2
  <2> DEFINE h == [i \in 0..k + 1 |-> IF i = 0 THEN leaf ELSE hashPair(g[i - 1], path[i])]
  <2>2. ASSUME NEW i \in 0..k PROVE h[i] = g[i]
    <3>1. g[i] = IF i = 0 THEN leaf ELSE hashPair(g[i - 1], path[i])
      BY <2>1, Zenon DEF HashedBody
    <3>2. i \in 0..k + 1
      OBVIOUS
    <3> QED BY <3>1, <3>2
  <2>3. ASSUME NEW i \in 0..k + 1, i # 0 PROVE h[i - 1] = g[i - 1]
    <3>1. i - 1 \in 0..k
      BY <2>3
    <3> QED BY <2>2, <3>1
  <2>4. h = HashedBody(h, path, leaf, k + 1)
    BY <2>3 DEF HashedBody
  <2> HIDE DEF h
  <2> QED BY <2>4
<1>3. \E g : g = HashedBody(g, path, leaf, n)
  <2>1. \A k \in Nat : k \in Solved
    <3> HIDE DEF Solved
    <3> QED BY <1>1, <1>2, StepByStep
  <2> QED BY <2>1
<1> QED BY <1>3, Zenon DEF Hashed

\* The model's recursions are these.
LEMMA RecursionsAre ==
    ASSUME NEW hashes, NEW index, NEW path, NEW root, NEW leaf
    PROVE  /\ Levels(hashes) = LevelsOf(hashes, Len(hashes))
           /\ PlacesUp(hashes, index) = PlacesOf(index, Len(hashes))
           /\ verify(path, root, leaf) <=> Hashed(path, leaf, Len(path))[Len(path)] = root
<1>1. Levels(hashes) = LevelsOf(hashes, Len(hashes))
  BY Zenon DEF Levels, LevelsOf, LevelsBody
<1>2. PlacesUp(hashes, index) = PlacesOf(index, Len(hashes))
  BY Zenon DEF PlacesUp, PlacesOf, PlacesBody
<1>3. verify(path, root, leaf) <=> Hashed(path, leaf, Len(path))[Len(path)] = root
  BY Zenon DEF verify, Hashed, HashedBody
<1> QED BY <1>1, <1>2, <1>3

\* What a path makes of a leaf.
Top(path, leaf) == Hashed(path, leaf, Len(path))[Len(path)]

LEMMA HashedSteps ==
    ASSUME NEW n \in Nat, NEW path, NEW leaf
    PROVE  /\ Hashed(path, leaf, n)[0] = leaf
           /\ \A i \in 1..n : Hashed(path, leaf, n)[i] = hashPair(Hashed(path, leaf, n)[i - 1], path[i])
<1> DEFINE h == Hashed(path, leaf, n)
<1>1. h = HashedBody(h, path, leaf, n)
  BY HashedExist
<1> HIDE DEF h
<1>2. ASSUME NEW i \in 0..n PROVE h[i] = IF i = 0 THEN leaf ELSE hashPair(h[i - 1], path[i])
  BY <1>1, Zenon DEF HashedBody
<1>3. 0 \in 0..n /\ \A i \in 1..n : i \in 0..n /\ i # 0
  OBVIOUS
<1>4. h[0] = leaf
  BY <1>2, <1>3
<1>5. \A i \in 1..n : h[i] = hashPair(h[i - 1], path[i])
  BY <1>2, <1>3
<1> QED BY <1>4, <1>5 DEF h

\* Every step of the way up may be taken back, so two leaves never come to the same top by one path.
LEMMA TopIsOfOneLeaf ==
    ASSUME NEW V, NEW path \in Seq(V), NEW a, NEW b, Top(path, a) = Top(path, b)
    PROVE  a = b
<1> DEFINE n == Len(path)
           f == Hashed(path, a, n)
           g == Hashed(path, b, n)
           Same == {i \in 0..n : f[i] = g[i]}
<1>1. n \in Nat /\ n \in Same
  BY DEF Top
<1>2. PICK i \in Same : \A j \in Same : i <= j
  <2>1. Same \in SUBSET Nat /\ Same # {}
    BY <1>1
  <2> HIDE DEF Same
  <2> QED BY <2>1, LeastMember
<1>3. /\ f[0] = a /\ g[0] = b
      /\ \A j \in 1..n : f[j] = hashPair(f[j - 1], path[j]) /\ g[j] = hashPair(g[j - 1], path[j])
  BY <1>1, HashedSteps
<1> HIDE DEF n, f, g
<1>4. i = 0
  <2>1. SUFFICES ASSUME i # 0 PROVE FALSE
    OBVIOUS
  <2>2. i \in 1..n /\ i - 1 \in 0..n
    BY <1>1, <2>1
  <2>3. {f[i - 1], path[i]} = {g[i - 1], path[i]}
    BY <1>3, <2>2 DEF hashPair
  <2>4. f[i - 1] = g[i - 1]
    BY <2>3
  <2>5. i <= i - 1
    BY <1>2, <2>2, <2>4
  <2> QED BY <2>2, <2>5
<1> QED BY <1>2, <1>3, <1>4

LEMMA TopOfNone == ASSUME NEW leaf PROVE Top(<<>>, leaf) = leaf
<1>1. Len(<<>>) = 0
  OBVIOUS
<1> QED BY <1>1, HashedSteps DEF Top

LEMMA TopOfLonger ==
    ASSUME NEW V, NEW path \in Seq(V), NEW p \in V, NEW leaf
    PROVE  Top(path \o <<p>>, leaf) = hashPair(Top(path, leaf), p)
<1> DEFINE n == Len(path)
           longer == path \o <<p>>
           f == Hashed(path, leaf, n)
           g == Hashed(longer, leaf, n + 1)
           Differ == {i \in 0..n : f[i] # g[i]}
<1>1. n \in Nat /\ n + 1 \in Nat /\ n + 1 \in 1..n + 1 /\ Len(longer) = n + 1 /\ longer[n + 1] = p
  OBVIOUS
<1>2. \A i \in 1..n : longer[i] = path[i] /\ i \in 1..n + 1
  OBVIOUS
<1> HIDE DEF longer, n
<1>3. /\ f[0] = leaf /\ \A j \in 1..n : f[j] = hashPair(f[j - 1], path[j])
      /\ g[0] = leaf /\ \A j \in 1..n + 1 : g[j] = hashPair(g[j - 1], longer[j])
  BY <1>1, HashedSteps
<1> HIDE DEF f, g
<1>4. f[n] = g[n]
  <2>1. SUFFICES ASSUME Differ # {} PROVE FALSE
    BY <1>1
  <2>2. Differ \in SUBSET Nat
    BY <1>1
  <2> HIDE DEF Differ
  <2>3. PICK i \in Differ : \A j \in Differ : i <= j
    BY <2>1, <2>2, LeastMember
  <2> USE DEF Differ
  <2>4. i # 0 /\ i \in 1..n /\ i - 1 \in 0..n
    BY <1>1, <1>3
  <2>5. f[i - 1] = g[i - 1]
    BY <1>1, <2>3, <2>4
  <2>6. f[i] = g[i]
    BY <1>2, <1>3, <2>4, <2>5
  <2> QED BY <2>6
<1>5. g[n + 1] = hashPair(f[n], p)
  <2>1. g[n + 1] = hashPair(g[n + 1 - 1], longer[n + 1]) /\ n + 1 - 1 = n
    BY <1>1, <1>3
  <2> QED BY <1>1, <1>4, <2>1
<1> QED BY <1>1, <1>5 DEF Top, f, g, longer, n

\* The next level: half as long, and a node's parent is its hash with its sibling's, or the node itself.
LEMMA RaisedIs ==
    ASSUME NEW w \in Nat \ {0}, NEW s, IsList(s, w)
    PROVE  /\ IsList(Raised(s), (w + 1) \div 2) /\ (w + 1) \div 2 \in 1..w /\ (w > 1 => (w + 1) \div 2 < w)
           /\ \A i \in 1..w : /\ Above(i) \in 1..(w + 1) \div 2
                              /\ Sibling(i) \in Nat \ {0}
                              /\ Raised(s)[Above(i)] = IF Sibling(i) <= w THEN hashPair(s[i], s[Sibling(i)]) ELSE s[i]
<1> DEFINE half == (w + 1) \div 2
<1>1. Len(s) = w
  BY ListsAreSequences
<1>2. half \in 1..w /\ (w > 1 => half < w)
  OBVIOUS
<1>3. \A q \in 1..half : Raised(s)[q] = IF 2 * q <= w THEN hashPair(s[2 * q - 1], s[2 * q]) ELSE s[2 * q - 1]
  BY <1>1 DEF Raised
<1>4. IsList(Raised(s), half)
  BY <1>1, <1>2 DEF Raised, IsList
<1>5. ASSUME NEW i \in 1..w
      PROVE  /\ Above(i) \in 1..half /\ Sibling(i) \in Nat \ {0}
             /\ Raised(s)[Above(i)] = IF Sibling(i) <= w THEN hashPair(s[i], s[Sibling(i)]) ELSE s[i]
  <2>1. Above(i) \in 1..half
    BY DEF Above
  <2>2. CASE i % 2 = 1
    <3>1. 2 * Above(i) = i + 1 /\ Sibling(i) = i + 1 /\ 2 * Above(i) - 1 = i
      BY <2>2 DEF Above, Sibling
    <3> QED BY <1>1, <1>3, <2>1, <3>1
  <2>3. CASE i % 2 = 0
    <3>1. 2 * Above(i) = i /\ Sibling(i) = i - 1 /\ 2 * Above(i) - 1 = i - 1 /\ i - 1 \in Nat \ {0}
      BY <2>3 DEF Above, Sibling
    <3>2. Raised(s)[Above(i)] = hashPair(s[i - 1], s[i])
      BY <1>3, <2>1, <3>1
    <3>3. hashPair(s[i - 1], s[i]) = hashPair(s[i], s[i - 1])
      BY DEF hashPair
    <3>4. Sibling(i) <= w
      BY <3>1
    <3> QED BY <2>1, <3>1, <3>2, <3>3, <3>4
  <2>4. i % 2 = 1 \/ i % 2 = 0
    OBVIOUS
  <2> QED BY <2>2, <2>3, <2>4
<1> QED BY <1>2, <1>4, <1>5

\* The relayer's partner is the others' sibling.
LEMMA PartnersAgree ==
    ASSUME NEW w \in Nat, NEW s, IsList(s, w), NEW i \in 1..w
    PROVE  PartnerInPairs(s, i) = SiblingIfThere(s, i)
<1> DEFINE pair == CHOOSE q \in 0 .. w : i \in {2 * q + 1, 2 * q + 2}
           half == (i - 1) \div 2
<1>1. Len(s) = w
  BY ListsAreSequences
<1>2. half \in 0..w /\ i \in {2 * half + 1, 2 * half + 2}
  OBVIOUS
<1>3. pair \in 0..w /\ i \in {2 * pair + 1, 2 * pair + 2}
  BY <1>2
<1> HIDE DEF pair, half
<1>4. /\ i = 2 * pair + 1 => i % 2 = 1 /\ Sibling(i) = i + 1
      /\ i = 2 * pair + 2 => i % 2 = 0 /\ Sibling(i) = i - 1
  BY <1>3 DEF Sibling
<1>5. PartnerInPairs(s, i) = IF 2 * pair + 1 = w THEN <<>>
                             ELSE IF i = 2 * pair + 1 THEN <<s[i + 1]>> ELSE <<s[i - 1]>>
  BY <1>1 DEF PartnerInPairs, pair
<1>6. SiblingIfThere(s, i) = IF Sibling(i) <= w THEN <<s[Sibling(i)]>> ELSE <<>>
  BY <1>1 DEF SiblingIfThere
<1>7. CASE i = 2 * pair + 1
  BY <1>3, <1>4, <1>5, <1>6, <1>7
<1>8. CASE i = 2 * pair + 2
  BY <1>3, <1>4, <1>5, <1>6, <1>8
<1> QED BY <1>3, <1>7, <1>8

\* On the way up: the node above the leaf on each level is what the path so far makes of the leaf.
LEMMA LevelsAre ==
    ASSUME NEW n \in Nat \ {0}, NEW hashes, IsList(hashes, n)
    PROVE  /\ Levels(hashes)[1] = hashes
           /\ \A d \in 1..n : \E w \in 1..n - d + 1 : IsList(Levels(hashes)[d], w)
           /\ \A d \in 1..n - 1 : Levels(hashes)[d + 1] = Raised(Levels(hashes)[d])
<1> DEFINE level == LevelsOf(hashes, n)
<1>1. Len(hashes) = n /\ level = Levels(hashes)
  BY ListsAreSequences, RecursionsAre
<1>2. level = LevelsBody(level, hashes, n)
  BY LevelsExist
<1> HIDE DEF level
<1>3. ASSUME NEW d \in 1..n PROVE level[d] = IF d = 1 THEN hashes ELSE Raised(level[d - 1])
  BY <1>2, Zenon DEF LevelsBody
<1>4. level[1] = hashes
  BY <1>3
<1>5. ASSUME NEW d \in 1..n - 1 PROVE level[d + 1] = Raised(level[d])
  <2>1. d + 1 \in 1..n /\ d + 1 # 1 /\ d + 1 - 1 = d
    OBVIOUS
  <2> QED BY <1>3, <2>1
<1> DEFINE Fits(d) == \E w \in 1..n - d + 1 : IsList(level[d], w)
           Fit == {k \in Nat : k + 1 \in 1..n => Fits(k + 1)}
<1>6. 0 \in Fit
  <2>1. n \in 1..n - 1 + 1
    OBVIOUS
  <2>2. Fits(0 + 1)
    BY <1>4, <2>1
  <2> QED BY <2>2
<1>7. ASSUME NEW k \in Nat, k \in Fit PROVE k + 1 \in Fit
  <2>1. SUFFICES ASSUME k + 2 \in 1..n PROVE Fits(k + 2)
    <3>1. k + 1 + 1 = k + 2 /\ k + 1 \in Nat
      OBVIOUS
    <3> HIDE DEF Fits
    <3> QED BY <3>1
  <2>2. k + 1 \in 1..n /\ k + 1 \in 1..n - 1 /\ k + 1 + 1 = k + 2
    BY <2>1
  <2>3. PICK w \in 1..n - (k + 1) + 1 : IsList(level[k + 1], w)
    BY <1>7, <2>2
  <2>4. level[k + 2] = Raised(level[k + 1])
    BY <1>5, <2>2
  <2>5. w \in Nat \ {0}
    BY <2>1, <2>3
  <2>6. IsList(level[k + 2], (w + 1) \div 2) /\ (w + 1) \div 2 \in 1..w /\ (w > 1 => (w + 1) \div 2 < w)
    BY <2>3, <2>4, <2>5, RaisedIs
  <2>7. (w + 1) \div 2 \in 1..n - (k + 2) + 1
    BY <2>1, <2>3, <2>5, <2>6
  <2> QED BY <2>6, <2>7
<1>8. ASSUME NEW d \in 1..n PROVE Fits(d)
  <2>1. d - 1 \in Nat /\ d - 1 + 1 = d
    OBVIOUS
  <2>2. d - 1 \in Fit
    <3> HIDE DEF Fit
    <3> QED BY <1>6, <1>7, <2>1, StepByStep
  <2> HIDE DEF Fits
  <2> QED BY <2>1, <2>2
<1> QED BY <1>1, <1>4, <1>5, <1>8

\* What is on the way up from a place: the sibling there, if there is one.
OnTheWay(hashes, index) ==
    [d \in 1 .. Len(hashes) |-> SiblingIfThere(Levels(hashes)[d], PlacesUp(hashes, index)[d])]
\* The values of a tree.
TreeValues(hashes) == UNION {Listed(Levels(hashes)[d]) : d \in 1..Len(hashes)}

LEMMA WayUpIs ==
    ASSUME NEW n \in Nat \ {0}, NEW hashes, IsList(hashes, n), NEW index \in 1..n,
           NEW path, path = PathsBody(path, OnTheWay(hashes, index), n)
    PROVE  /\ \A d \in 1..n : PlacesUp(hashes, index)[d] \in 1..Len(Levels(hashes)[d])
           /\ path[n] \in Seq(TreeValues(hashes))
           /\ Top(path[n], hashes[index]) = merkleRoot(hashes)
<1> DEFINE level == Levels(hashes)
           place == PlacesUp(hashes, index)
           X == OnTheWay(hashes, index)
           V == TreeValues(hashes)
           leaf == hashes[index]
           Holds(d) == /\ place[d] \in 1..Len(level[d]) /\ path[d - 1] \in Seq(V)
                       /\ Top(path[d - 1], leaf) = level[d][place[d]]
           Held == {k \in Nat : k + 1 \in 1..n => Holds(k + 1)}
<1>1. Len(hashes) = n /\ hashes # <<>>
  BY ListsAreSequences
<1>2. /\ level[1] = hashes
      /\ \A d \in 1..n : \E w \in 1..n - d + 1 : IsList(level[d], w)
      /\ \A d \in 1..n - 1 : level[d + 1] = Raised(level[d])
  BY LevelsAre
<1>3. /\ place[1] = index /\ \A d \in 1..n - 1 : place[d + 1] = Above(place[d])
  <2>1. place = PlacesBody(place, index, n)
    BY <1>1, PlacesExist, RecursionsAre
  <2> HIDE DEF place
  <2>2. ASSUME NEW d \in 1..n PROVE place[d] = IF d = 1 THEN index ELSE Above(place[d - 1])
    BY <2>1, Zenon DEF PlacesBody
  <2>3. ASSUME NEW d \in 1..n - 1 PROVE d + 1 \in 1..n /\ d + 1 # 1 /\ d + 1 - 1 = d
    OBVIOUS
  <2> QED BY <2>2, <2>3
<1>4. /\ path[0] = <<>> /\ \A d \in 1..n : path[d] = path[d - 1] \o X[d]
  <2>1. path = PathsBody(path, X, n)
    OBVIOUS
  <2> HIDE DEF X
  <2>2. ASSUME NEW d \in 0..n PROVE path[d] = IF d = 0 THEN <<>> ELSE path[d - 1] \o X[d]
    BY <2>1, Zenon DEF PathsBody
  <2>3. 0 \in 0..n /\ \A d \in 1..n : d \in 0..n /\ d # 0
    OBVIOUS
  <2>4. path[0] = <<>>
    BY <2>2, <2>3
  <2>5. \A d \in 1..n : path[d] = path[d - 1] \o X[d]
    BY <2>2, <2>3
  <2> QED BY <2>4, <2>5
<1>5. \A d \in 1..n : X[d] = SiblingIfThere(level[d], place[d])
  BY <1>1 DEF OnTheWay
<1>6. \A d \in 1..n : Listed(level[d]) \subseteq V
  BY <1>1 DEF TreeValues
<1> HIDE DEF level, place, X, V, leaf
\* One level up.
<1>7. ASSUME NEW d \in 1..n, Holds(d)
      PROVE  /\ path[d] \in Seq(V)
             /\ d # n => Holds(d + 1)
             /\ d = n => Top(path[n], leaf) = level[n][1]
  <2>1. PICK w \in 1..n - d + 1 : IsList(level[d], w)
    BY <1>2
  <2>2. w \in Nat \ {0} /\ Len(level[d]) = w /\ \A i \in 1..w : level[d][i] \in V
    BY <1>6, <2>1, ListsAreSequences DEF IsList, Listed
  <2> DEFINE i == place[d]
             s == level[d]
  <2>3. i \in 1..w /\ path[d - 1] \in Seq(V) /\ Top(path[d - 1], leaf) = s[i]
    BY <1>7, <2>2
  <2> HIDE DEF i, s
  <2>4. /\ IsList(Raised(s), (w + 1) \div 2) /\ Above(i) \in 1..(w + 1) \div 2
        /\ Sibling(i) \in Nat \ {0}
        /\ Raised(s)[Above(i)] = IF Sibling(i) <= w THEN hashPair(s[i], s[Sibling(i)]) ELSE s[i]
    <3>1. IsList(s, w) /\ w \in Nat \ {0} /\ i \in 1..w
      BY <2>1, <2>2, <2>3 DEF s
    <3> QED BY ONLY <3>1, RaisedIs
  <2>5. X[d] = IF Sibling(i) <= w THEN <<s[Sibling(i)]>> ELSE <<>>
    BY <1>5, <2>2 DEF SiblingIfThere, i, s
  <2>6. path[d] \in Seq(V) /\ Top(path[d], leaf) = Raised(s)[Above(i)]
    <3>1. CASE Sibling(i) <= w
      <4>1. s[Sibling(i)] \in V
        BY <2>2, <2>4, <3>1 DEF s
      <4>2. path[d] = path[d - 1] \o <<s[Sibling(i)]>>
        BY <1>4, <2>5, <3>1
      <4> QED BY <2>3, <2>4, <3>1, <4>1, <4>2, TopOfLonger
    <3>2. CASE ~(Sibling(i) <= w)
      <4>1. path[d] = path[d - 1] \o <<>>
        BY <1>4, <2>5, <3>2
      <4>2. path[d] = path[d - 1]
        BY <2>3, <4>1
      <4> QED BY <2>3, <2>4, <3>2, <4>2
    <3> QED BY <3>1, <3>2
  <2>7. ASSUME d # n PROVE Holds(d + 1)
    <3>1. d \in 1..n - 1 /\ d + 1 - 1 = d
      BY <2>7
    <3>2. level[d + 1] = Raised(s) /\ place[d + 1] = Above(i)
      BY <1>2, <1>3, <3>1 DEF i, s
    <3>3. Len(level[d + 1]) = (w + 1) \div 2
      BY <2>4, <3>2, ListsAreSequences
    <3> QED BY <2>4, <2>6, <3>1, <3>2, <3>3
  <2>8. ASSUME d = n PROVE Top(path[n], leaf) = level[n][1]
    <3>1. w = 1 /\ i = 1
      BY <2>1, <2>3, <2>8
    <3>2. Sibling(i) = 2
      BY <3>1 DEF Sibling
    <3>3. Raised(s)[Above(i)] = s[1]
      BY <2>4, <3>1, <3>2
    <3> QED BY <2>6, <2>8, <3>3 DEF s
  <2> QED BY <2>6, <2>7, <2>8
<1>8. 0 \in Held
  <2>1. path[1 - 1] = <<>> /\ <<>> \in Seq(V)
    BY <1>4
  <2>2. place[1] \in 1..Len(level[1])
    BY <1>1, <1>2, <1>3
  <2>3. Top(<<>>, leaf) = level[1][place[1]]
    BY <1>2, <1>3, TopOfNone DEF leaf
  <2>4. Holds(1) /\ 0 + 1 = 1
    BY <2>1, <2>2, <2>3
  <2> HIDE DEF Holds
  <2> QED BY <2>4
<1>9. ASSUME NEW k \in Nat, k \in Held PROVE k + 1 \in Held
  <2>1. k + 1 + 1 \in 1..n => k + 1 \in 1..n /\ k + 1 # n
    OBVIOUS
  <2> HIDE DEF Holds
  <2>2. k + 1 \in Nat
    OBVIOUS
  <2> QED BY <1>7, <1>9, <2>1, <2>2
<1>10. ASSUME NEW d \in 1..n PROVE Holds(d)
  <2>1. d - 1 \in Nat /\ d - 1 + 1 = d
    OBVIOUS
  <2>2. d - 1 \in Held
    <3> HIDE DEF Held
    <3> QED BY <1>8, <1>9, <2>1, StepByStep
  <2> HIDE DEF Holds
  <2> QED BY <2>1, <2>2
<1>11. path[n] \in Seq(V) /\ Top(path[n], leaf) = level[n][1]
  <2>1. n \in 1..n
    OBVIOUS
  <2> HIDE DEF Holds
  <2> QED BY <1>7, <1>10, <2>1
<1>12. merkleRoot(hashes) = level[n][1]
  BY <1>1 DEF merkleRoot, level
<1> QED BY <1>10, <1>11, <1>12 DEF level, place, V, leaf

\* Both algorithms gather this path.
ProofBody(g, hashes, index) ==
    [d \in 0 .. Len(hashes) |->
        IF d = 0 THEN <<>> ELSE g[d - 1] \o SiblingIfThere(Levels(hashes)[d], PlacesUp(hashes, index)[d])]
ProofPath(hashes, index) == CHOOSE g : g = ProofBody(g, hashes, index)
MerkleBody(g, hashes, index) ==
    [d \in 0 .. Len(hashes) |->
        IF d = 0 THEN <<>> ELSE g[d - 1] \o PartnerInPairs(Levels(hashes)[d], PlacesUp(hashes, index)[d])]
MerklePath(hashes, index) == CHOOSE g : g = MerkleBody(g, hashes, index)

LEMMA ProofsAre ==
    ASSUME NEW n \in Nat \ {0}, NEW hashes, IsList(hashes, n), NEW index \in 1..n
    PROVE  \A p \in {proof(hashes, index), merkleProof(hashes, index)} :
               \E path : path = PathsBody(path, OnTheWay(hashes, index), n) /\ p = path[n]
<1> DEFINE X == OnTheWay(hashes, index)
<1>1. Len(hashes) = n
  BY ListsAreSequences
<1>2. proof(hashes, index) = ProofPath(hashes, index)[n] /\ merkleProof(hashes, index) = MerklePath(hashes, index)[n]
  <2>1. proof(hashes, index) = ProofPath(hashes, index)[Len(hashes)]
    BY Zenon DEF proof, ProofPath, ProofBody
  <2>2. merkleProof(hashes, index) = MerklePath(hashes, index)[Len(hashes)]
    BY Zenon DEF merkleProof, MerklePath, MerkleBody
  <2> QED BY <1>1, <2>1, <2>2
<1>3. ASSUME NEW d \in 1..n
      PROVE  /\ X[d] = SiblingIfThere(Levels(hashes)[d], PlacesUp(hashes, index)[d])
             /\ X[d] = PartnerInPairs(Levels(hashes)[d], PlacesUp(hashes, index)[d])
  <2>1. PICK w \in 1..n - d + 1 : IsList(Levels(hashes)[d], w)
    BY LevelsAre
  <2>2. w \in Nat /\ Len(Levels(hashes)[d]) = w
    BY <2>1, ListsAreSequences
  <2>3. PlacesUp(hashes, index)[d] \in 1..w
    BY <2>2, PathsExist, WayUpIs
  <2>4. X[d] = SiblingIfThere(Levels(hashes)[d], PlacesUp(hashes, index)[d])
    BY <1>1 DEF OnTheWay
  <2> QED BY <2>1, <2>2, <2>3, <2>4, PartnersAgree
<1> HIDE DEF X
<1>4. \A d \in 0..n : d # 0 => d \in 1..n
  OBVIOUS
<1>5. ASSUME NEW g PROVE ProofBody(g, hashes, index) = PathsBody(g, X, n)
  BY <1>1, <1>3, <1>4 DEF ProofBody, PathsBody
<1>6. ASSUME NEW g PROVE MerkleBody(g, hashes, index) = PathsBody(g, X, n)
  BY <1>1, <1>3, <1>4 DEF MerkleBody, PathsBody
<1>7. ProofPath(hashes, index) = PathsBody(ProofPath(hashes, index), X, n)
  <2>1. \E g : g = ProofBody(g, hashes, index)
    BY <1>5, PathsExist
  <2>2. ProofPath(hashes, index) = ProofBody(ProofPath(hashes, index), hashes, index)
    BY <2>1, Zenon DEF ProofPath
  <2> QED BY <1>5, <2>2
<1>8. MerklePath(hashes, index) = PathsBody(MerklePath(hashes, index), X, n)
  <2>1. \E g : g = MerkleBody(g, hashes, index)
    BY <1>6, PathsExist
  <2>2. MerklePath(hashes, index) = MerkleBody(MerklePath(hashes, index), hashes, index)
    BY <2>1, Zenon DEF MerklePath
  <2> QED BY <1>6, <2>2
<1> QED BY <1>2, <1>7, <1>8 DEF X

-----------------------------------------------------------------------------
(* ExitTree: the invariant *)

TreeInv == gathered \in Seq(ExitIds) /\ Len(gathered) \in Nat

LEMMA TreeStart == ASSUME ExitTreeInit PROVE TreeInv
BY DEF ExitTreeInit, TreeInv

LEMMA TreeStep == ASSUME TreeInv, ExitTreeNext \/ UNCHANGED gathered PROVE TreeInv'
<1>1. CASE UNCHANGED gathered
  BY <1>1 DEF TreeInv
<1>2. ASSUME NEW id \in ExitIds, Gather(id) PROVE TreeInv'
  BY <1>2 DEF TreeInv, Gather
<1> QED BY <1>1, <1>2 DEF ExitTreeNext

LEMMA TreeMoves == ASSUME [EdgesNext]_edgeVars PROVE ExitTreeNext \/ UNCHANGED gathered
BY DEF EdgesNext, edgeVars, mathVars

\* How many of a set of exits are smaller, and the exit a place is given to by that.
RankIn(id, S) == Cardinality({other \in S : other < id})
PlacedAt(i, S) == CHOOSE id \in S : RankIn(id, S) = i - 1

LEMMA PlacedAtIs ==
    ASSUME NEW S, NEW i, NEW id \in S, RankIn(id, S) = i - 1
    PROVE  PlacedAt(i, S) \in S /\ RankIn(PlacedAt(i, S), S) = i - 1
BY Zenon DEF PlacedAt

LEMMA SortedIsByRank ==
    ASSUME NEW ids
    PROVE  sortLeaves(ids) = [i \in 1..Len(ids) |-> PlacedAt(i, Range(ids))]
BY Zenon DEF sortLeaves, PlacedAt, RankIn

\* An exit has a place among the sorted ones, in whatever order they were read.
LEMMA SortedHasAll ==
    ASSUME NEW ids \in Seq(ExitIds), NEW id \in Range(ids)
    PROVE  PlaceOf(id, ids) \in 1..Len(ids) /\ sortLeaves(ids)[PlaceOf(id, ids)] = id
<1> DEFINE S == Range(ids)
           n == Len(ids)
           Smaller(x) == {y \in S : y < x}
           rank(x) == RankIn(x, S)
<1>0. \A x : rank(x) = Cardinality(Smaller(x))
  BY DEF RankIn
<1>1. n \in Nat /\ DOMAIN ids = 1..n /\ S = {ids[i] : i \in 1..n}
  BY DEF Range
<1>2. S \subseteq Nat /\ ExitIds \subseteq Nat
  BY <1>1, ExitTreeConstants
<1>3. IsFiniteSet(S) /\ Cardinality(S) <= n /\ Cardinality(S) \in Nat
  <2> DEFINE f == [i \in 1..n |-> ids[i]]
  <2>1. f \in [1..n -> S] /\ \A x \in S : \E i \in 1..n : f[i] = x
    BY <1>1
  <2>2. f \in Surjection(1..n, S)
    BY <2>1 DEF Surjection
  <2>3. IsFiniteSet(1..n) /\ Cardinality(1..n) = n
    BY <1>1, FS_Interval
  <2> QED BY <2>2, <2>3, FS_Surjection, FS_CardinalityType
<1>4. ASSUME NEW x \in S PROVE IsFiniteSet(Smaller(x)) /\ rank(x) \in 0..n - 1
  <2>1. Smaller(x) \in SUBSET S /\ x \notin Smaller(x)
    BY <1>2
  <2>2. IsFiniteSet(Smaller(x)) /\ rank(x) \in Nat /\ rank(x) <= Cardinality(S) /\ rank(x) # Cardinality(S)
    <3> DEFINE T == Smaller(x)
    <3>1. T \in SUBSET S /\ T # S
      BY <2>1
    <3>2. rank(x) = Cardinality(T)
      BY <1>0
    <3> HIDE DEF T, S, rank
    <3>3. IsFiniteSet(T) /\ Cardinality(T) <= Cardinality(S) /\ Cardinality(T) # Cardinality(S)
      BY <1>3, <3>1, FS_Subset
    <3>4. Cardinality(T) \in Nat
      BY <3>3, FS_CardinalityType
    <3> QED BY <3>2, <3>3, <3>4 DEF T
  <2> HIDE DEF rank
  <2> QED BY <1>1, <1>3, <2>2
<1>5. ASSUME NEW x \in S, NEW y \in S, rank(x) = rank(y) PROVE x = y
  <2>1. ASSUME NEW a \in S, NEW b \in S, a < b PROVE rank(a) # rank(b)
    <3>1. Smaller(a) \in SUBSET Smaller(b) /\ a \in Smaller(b) /\ a \notin Smaller(a)
      BY <1>2, <2>1
    <3>2. IsFiniteSet(Smaller(b))
      BY <1>4
    <3> QED BY <1>0, <3>1, <3>2, FS_Subset
  <2>2. x \in Nat /\ y \in Nat
    BY <1>2
  <2> HIDE DEF rank
  <2> QED BY <1>5, <2>1, <2>2
<1>6. rank(id) + 1 \in 1..n /\ rank(id) + 1 - 1 = rank(id)
  <2>1. rank(id) \in 0..n - 1
    BY <1>4
  <2> HIDE DEF rank
  <2> QED BY <1>1, <2>1
<1>7. sortLeaves(ids)[rank(id) + 1] = id
  <2>1. PICK i : i = rank(id) + 1
    OBVIOUS
  <2>2. i \in 1..n /\ RankIn(id, S) = i - 1
    <3>1. RankIn(id, S) = rank(id)
      OBVIOUS
    <3>2. rank(id) \in 0..n - 1
      BY <1>4
    <3> HIDE DEF rank
    <3> QED BY <1>1, <2>1, <3>1, <3>2
  <2>3. sortLeaves(ids)[i] = PlacedAt(i, S)
    BY <2>2, SortedIsByRank
  <2>4. PlacedAt(i, S) \in S /\ RankIn(PlacedAt(i, S), S) = RankIn(id, S)
    BY <2>2, PlacedAtIs
  <2>5. PlacedAt(i, S) = id
    BY <1>5, <2>4
  <2> QED BY <2>1, <2>3, <2>5
<1>8. \E i \in 1..Len(ids) : sortLeaves(ids)[i] = id
  <2> HIDE DEF rank
  <2> QED BY <1>6, <1>7
<1> QED BY <1>8 DEF PlaceOf

\* Two readings of the same exits are sorted alike.
LEMMA ReversedIsSortedAlike ==
    ASSUME NEW ids \in Seq(ExitIds)
    PROVE  /\ Reverse(ids) \in Seq(ExitIds) /\ Len(Reverse(ids)) = Len(ids) /\ Range(Reverse(ids)) = Range(ids)
           /\ leafHashes(Reverse(ids)) = leafHashes(ids)
<1> DEFINE n == Len(ids)
           mirror == Reverse(ids)
<1>1. n \in Nat /\ DOMAIN ids = 1..n /\ \A i \in 1..n : ids[i] \in ExitIds /\ n - i + 1 \in 1..n /\ n - (n - i + 1) + 1 = i
  OBVIOUS
<1>2. mirror = [i \in 1..n |-> ids[(n - i) + 1]]
  BY DEF Reverse
<1>3. mirror \in Seq(ExitIds) /\ Len(mirror) = n /\ DOMAIN mirror = 1..n
  BY <1>1, <1>2
<1>4. Range(mirror) = Range(ids)
  <2>1. Range(mirror) = {mirror[i] : i \in 1..n} /\ Range(ids) = {ids[i] : i \in 1..n}
    BY <1>1, <1>3 DEF Range
  <2>2. \A i \in 1..n : mirror[i] = ids[n - i + 1]
    BY <1>2
  <2> HIDE DEF n, mirror
  <2>3. \A i \in 1..n : mirror[i] \in {ids[j] : j \in 1..n}
    BY <1>1, <2>2
  <2>4. \A i \in 1..n : ids[i] \in {mirror[j] : j \in 1..n}
    <3>1. \A i \in 1..n : ids[i] = mirror[n - i + 1]
      BY <1>1, <2>2
    <3> QED BY <1>1, <3>1
  <2> QED BY <2>1, <2>3, <2>4
<1> HIDE DEF n, mirror
<1>5. sortLeaves(mirror) = sortLeaves(ids)
  <2>1. /\ sortLeaves(mirror) = [i \in 1..Len(mirror) |-> PlacedAt(i, Range(mirror))]
        /\ sortLeaves(ids) = [i \in 1..Len(ids) |-> PlacedAt(i, Range(ids))]
    BY SortedIsByRank
  <2>2. Len(mirror) = Len(ids) /\ Range(mirror) = Range(ids)
    BY <1>3, <1>4 DEF n
  <2> QED BY ONLY <2>1, <2>2
<1>6. leafHashes(mirror) = leafHashes(ids)
  <2>1. /\ leafHashes(mirror) = [i \in 1..Len(mirror) |-> leafHash[sortLeaves(mirror)[i]]]
        /\ leafHashes(ids) = [i \in 1..Len(ids) |-> leafHash[sortLeaves(ids)[i]]]
    BY DEF leafHashes
  <2>2. Len(mirror) = Len(ids)
    BY <1>3 DEF n
  <2> QED BY ONLY <1>5, <2>1, <2>2
<1> QED BY <1>3, <1>4, <1>6 DEF n, mirror

LEMMA TreeInvSuffices == ASSUME TreeInv PROVE ProofsPass
<1> DEFINE other == Reverse(gathered)
           hashes == leafHashes(other)
           root == merkleRoot(leafHashes(gathered))
<1>1. /\ other \in Seq(ExitIds) /\ Len(other) = Len(gathered) /\ Range(other) = Range(gathered)
      /\ hashes = leafHashes(gathered)
  BY ReversedIsSortedAlike DEF TreeInv
<1>2. SUFFICES ASSUME NEW id \in Range(gathered), NEW claimed \in ExitIds,
                      NEW p \in {merkleProof(hashes, PlaceOf(id, other)), proof(hashes, PlaceOf(id, other))}
               PROVE  verify(p, root, leafHash[claimed]) <=> claimed = id
  BY DEF ProofsPass
<1> DEFINE n == Len(other)
           index == PlaceOf(id, other)
<1>3. n \in Nat \ {0} /\ index \in 1..n /\ sortLeaves(other)[index] = id /\ id \in ExitIds
  <2>1. n \in Nat /\ id \in Range(other)
    BY <1>1
  <2>2. index \in 1..n /\ sortLeaves(other)[index] = id
    BY <1>1, <2>1, SortedHasAll
  <2>3. id \in ExitIds
    BY <1>1, <2>1 DEF Range
  <2> HIDE DEF n, index
  <2> QED BY <2>1, <2>2, <2>3
<1>4. hashes = [i \in 1..n |-> leafHash[sortLeaves(other)[i]]]
  BY DEF leafHashes
<1>5. IsList(hashes, n) /\ hashes[index] = leafHash[id]
  <2> HIDE DEF hashes, n, index
  <2> QED BY <1>3, <1>4 DEF IsList
<1> HIDE DEF hashes, n, index, other
<1>6. root = merkleRoot(hashes)
  BY <1>1
<1>7. PICK path : path = PathsBody(path, OnTheWay(hashes, index), n) /\ p = path[n]
  BY <1>2, <1>3, <1>5, ProofsAre DEF index
<1>8. p \in Seq(TreeValues(hashes)) /\ Top(p, leafHash[id]) = root
  BY <1>3, <1>5, <1>6, <1>7, WayUpIs
<1>9. verify(p, root, leafHash[claimed]) <=> Top(p, leafHash[claimed]) = root
  BY RecursionsAre DEF Top
<1>10. Top(p, leafHash[claimed]) = root => leafHash[claimed] = leafHash[id]
  BY <1>8, TopIsOfOneLeaf
<1> QED BY <1>3, <1>8, <1>9, <1>10, ExitTreeConstants

\* The programs that compute the same things agree for any number of blocks and exits: the last block of
\* an epoch (a witness whatever its node has seen, the others unless theirs was behind, the relayer never
\* a block of another epoch), and the exit tree, where every program's proof of an exit passes against
\* the relayer's root and passes for no other exit.
THEOREM TheProgramsAgree == EdgesSpec => []ProgramsAgree
<1>1. EdgesInit => BlocksInv /\ TreeInv
  BY BlocksStart, TreeStart DEF EdgesInit
<1>2. BlocksInv /\ TreeInv /\ [EdgesNext]_edgeVars => (BlocksInv /\ TreeInv)'
  BY BlocksMove, BlocksStep, TreeMoves, TreeStep
<1>3. BlocksInv /\ TreeInv => ProgramsAgree
  BY BlocksInvSuffices, TreeInvSuffices DEF ProgramsAgree
<1> QED BY <1>1, <1>2, <1>3, PTL DEF EdgesSpec
-----------------------------------------------------------------------------
(* SlowLoop: the alarms of the watchdog's slow loop *)

\* What is in a stretch, in the books and in the log.
SlowKinds == {"locked", "burned", "bought", "given", "swept", "withdrawn", "exit", "collected", "revoked", "settled",
              "nothing", "taken"}
Happening == [kind : SlowKinds, amount : Nat, leak : BOOLEAN, epoch : Nat, bucket : Nat]
SlowBooks == [lockedBac : Nat, totalBurned : Nat, buybackBac : Nat, owedTotal : Nat, reservedTotal : Nat, tokenBalance : Int]
LogRow == [pot : Nat, at : Nat, leak : BOOLEAN, shrunk : BOOLEAN]
ShadowRows == [snapshot : SlowBooks, atCursor : BOOLEAN, roll_base : Nat, roll_base_at : Nat,
               release_log : [SettledEpochs -> LogRow]]

LEMMA FlowNat ==
    ASSUME NEW s \in Seq(Happening), NEW n \in 0..Len(s), NEW k
    PROVE  FlowOf(s, n, k) \in Nat
<1> DEFINE f == [i \in 1..n |-> s[i].amount]
           S == {i \in 1..n : s[i].kind = k}
<1>1. IsFiniteSet(1..n) /\ S \subseteq 1..n
  BY FS_Interval
<1>2. IsFiniteSet(S)
  BY <1>1, FS_Subset
<1>3. \A i \in S : f[i] \in Nat
  <2>1. \A i \in 1..n : s[i] \in Happening /\ f[i] = s[i].amount
    OBVIOUS
  <2> QED BY <1>1, <2>1 DEF Happening
<1>4. SumFunctionOnSet(f, S) \in Nat
  <2> HIDE DEF f, S
  <2> QED BY <1>2, <1>3, SumNat
<1> QED BY <1>4 DEF FlowOf

LEMMA FlowNothing == ASSUME NEW s, NEW k PROVE FlowOf(s, 0, k) = 0
<1>1. {i \in 1..0 : s[i].kind = k} = {}
  OBVIOUS
<1> QED BY <1>1, SumEmpty DEF FlowOf

\* One more event adds what it is about to the flow of its kind.
LEMMA FlowGrows ==
    ASSUME NEW s \in Seq(Happening), NEW e \in Happening, NEW k
    PROVE  /\ \A n \in 0..Len(s) : FlowOf(Append(s, e), n, k) = FlowOf(s, n, k)
           /\ FlowOf(Append(s, e), Len(s) + 1, k) = FlowOf(s, Len(s), k) + (IF e.kind = k THEN e.amount ELSE 0)
<1> DEFINE t == Append(s, e)
           L == Len(s)
           f(x, n) == [i \in 1..n |-> x[i].amount]
           S(x, n) == {i \in 1..n : x[i].kind = k}
<1>0. L \in Nat /\ t \in Seq(Happening) /\ Len(t) = L + 1 /\ t[L + 1] = e /\ \A i \in 1..L : t[i] = s[i]
  OBVIOUS
<1> HIDE DEF t, L
<1>1. ASSUME NEW n \in 0..L PROVE FlowOf(t, n, k) = FlowOf(s, n, k)
  <2>1. \A i \in 1..n : t[i] = s[i]
    BY <1>0
  <2>2. f(t, n) = f(s, n)
    BY <2>1
  <2>3. S(t, n) = S(s, n)
    BY <2>1
  <2> QED BY <2>2, <2>3 DEF FlowOf
<1>2. FlowOf(t, L + 1, k) = FlowOf(t, L, k) + (IF e.kind = k THEN e.amount ELSE 0)
  <2> DEFINE F == f(t, L + 1)
             G == f(t, L)
             T == S(t, L)
             I == 1..L + 1
  <2>1. IsFiniteSet(I) /\ T \subseteq I /\ T \subseteq 1..L /\ L + 1 \in I \ T
    <3>1. IsFiniteSet(I)
      BY <1>0, FS_Interval
    <3>2. T \subseteq 1..L
      OBVIOUS
    <3>3. 1..L \subseteq I /\ L + 1 \in I /\ L + 1 \notin 1..L
      BY <1>0
    <3> QED BY <3>1, <3>2, <3>3
  <2>2. \A i \in I : F[i] \in Int /\ F[i] = t[i].amount
    <3>1. \A i \in I : t[i] \in Happening
      BY <1>0
    <3> QED BY <3>1 DEF Happening
  <2>3. \A i \in T : G[i] = F[i]
    BY <2>1, <2>2
  <2>4. IsFiniteSet(T)
    BY <2>1, FS_Subset
  <2>5. S(t, L + 1) = IF e.kind = k THEN T \cup {L + 1} ELSE T
    BY <1>0
  <2>6. F[L + 1] = e.amount
    BY <1>0, <2>1, <2>2
  <2>7. FlowOf(t, L + 1, k) = SumFunctionOnSet(F, S(t, L + 1)) /\ FlowOf(t, L, k) = SumFunctionOnSet(G, T)
    BY Zenon DEF FlowOf
  <2> HIDE DEF F, G, T, I
  <2>8. SumFunctionOnSet(G, T) = SumFunctionOnSet(F, T)
    <3>1. \A i \in T : G[i] \in Int /\ G[i] = F[i]
      BY <2>1, <2>2, <2>3
    <3> QED BY ONLY <2>4, <3>1, SumSame
  <2>9. /\ SumFunctionOnSet(F, T) \in Int
        /\ SumFunctionOnSet(F, T \cup {L + 1}) = F[L + 1] + SumFunctionOnSet(F, T)
    <3>1. \A i \in I : F[i] \in Int
      BY <2>2
    <3>0. IsFiniteSet(I)
      BY <2>1
    <3>2. L + 1 \in I \ T /\ T \in SUBSET I
      BY <2>1
    <3> DEFINE x == L + 1
    <3> HIDE DEF x
    <3>3. x \in I \ T
      BY <3>2 DEF x
    <3>4. /\ SumFunctionOnSet(F, T) \in Int
          /\ SumFunctionOnSet(F, T \cup {x}) = F[x] + SumFunctionOnSet(F, T)
      BY ONLY <3>0, <3>1, <3>2, <3>3, SumAdd
    <3> QED BY <3>4 DEF x
  <2>10. e.amount \in Int
    BY DEF Happening
  <2> HIDE DEF S
  <2> QED BY <2>5, <2>6, <2>7, <2>8, <2>9, <2>10
<1>3. FlowOf(t, L, k) = FlowOf(s, L, k)
  BY <1>0, <1>1
<1> QED BY <1>1, <1>2, <1>3 DEF t, L

\* The greater and the smaller of two.
LEMMA MaxOfTwo == ASSUME NEW a \in Int, NEW b \in Int PROVE Max({a, b}) = IF a <= b THEN b ELSE a
<1> DEFINE m == IF a <= b THEN b ELSE a
<1>1. m \in {a, b} /\ \A y \in {a, b} : m >= y
  OBVIOUS
<1>2. Max({a, b}) \in {a, b} /\ \A y \in {a, b} : Max({a, b}) >= y
  BY <1>1, Zenon DEF Max
<1> QED BY <1>2

LEMMA MinOfTwo == ASSUME NEW a \in Int, NEW b \in Int PROVE Min({a, b}) = IF a <= b THEN a ELSE b
<1> DEFINE m == IF a <= b THEN a ELSE b
<1>1. m \in {a, b} /\ \A y \in {a, b} : m <= y
  OBVIOUS
<1>2. Min({a, b}) \in {a, b} /\ \A y \in {a, b} : Min({a, b}) <= y
  BY <1>1, Zenon DEF Min
<1> QED BY <1>2

\* More that is free allows no smaller pot.
LEMMA AllowedGrows ==
    ASSUME NEW x \in Int, NEW y \in Int, x <= y
    PROVE  /\ potAllowed(x) \in Nat /\ potAllowed(x) <= potAllowed(y)
           /\ y \in Nat => potAllowed(y) = y \div RELEASE_PART
<1> DEFINE mx == Max({0, x})
           my == Max({0, y})
<1>1. mx \in Nat /\ my \in Nat /\ mx <= my /\ (y \in Nat => my = y)
  BY MaxOfTwo
<1> HIDE DEF mx, my
<1>2. RELEASE_PART \in Nat \ {0}
  BY SlowSizes
<1>3. mx \div RELEASE_PART \in Nat /\ mx \div RELEASE_PART <= my \div RELEASE_PART
  BY <1>1, <1>2, DivMonotone, DivBounds
<1>4. potAllowed(x) = mx \div RELEASE_PART /\ potAllowed(y) = my \div RELEASE_PART
  BY Zenon DEF potAllowed, mx, my
<1> QED BY <1>1, <1>3, <1>4

-----------------------------------------------------------------------------
(* A stretch s, from the books b of the snapshot to the books bk. *)
FreeOf(b, s, n) == (b.buybackBac + FlowOf(s, n, "bought")) - (b.reservedTotal + FlowOf(s, n, "settled"))
FreeIn(bk) == bk.buybackBac - bk.reservedTotal
Surplus(bk) == bk.tokenBalance - (bk.lockedBac - bk.totalBurned + bk.buybackBac)
OffLocked(bk, s, b) == bk.lockedBac - b.lockedBac - FlowOf(s, Len(s), "locked")
OffBurned(bk, s, b) == bk.totalBurned - b.totalBurned - FlowOf(s, Len(s), "burned")
OffBuyback(bk, s, b) ==
    bk.buybackBac - b.buybackBac
      - (FlowOf(s, Len(s), "bought") + FlowOf(s, Len(s), "swept") - FlowOf(s, Len(s), "collected"))
LeakUpTo(s, n) == \E i \in 1..n : s[i].leak
NotReplayed(s, n) == \E i \in 1..n : s[i].kind \in {"swept", "revoked"}
WithdrawnIn(s) == \E i \in 1..Len(s) : s[i].kind = "withdrawn"
TakenIn(s) == \E i \in 1..Len(s) : s[i].kind = "taken"
RefilledIn(s) == \E i, j \in 1..Len(s) : i < j /\ s[i].kind = "taken" /\ s[j].kind = "given"
TooMuch(s, b) ==
    \E j \in 1..Len(s) : s[j].kind = "settled" /\ s[j].amount > potAllowed(FreeOf(b, s, j - 1)) + 1

\* The inequalities of one snapshot.
Owing(bk) == bk.totalBurned <= bk.lockedBac /\ bk.owedTotal <= bk.buybackBac /\ bk.reservedTotal <= bk.owedTotal

\* Without a leak the events explain the books and the replay knows what is free, but for what it does not
\* take in; a leak leaves a mark: on the books, or on the balance until somebody puts back what was taken.
Compares(bk, s, b) ==
    /\ ~LeakUpTo(s, Len(s)) => /\ OffLocked(bk, s, b) = 0 /\ OffBurned(bk, s, b) = 0 /\ OffBuyback(bk, s, b) = 0
                               /\ FreeOf(b, s, Len(s)) <= FreeIn(bk)
                               /\ NotReplayed(s, Len(s)) \/ FreeOf(b, s, Len(s)) = FreeIn(bk)
    /\ LeakUpTo(s, Len(s)) => \/ TakenIn(s) \/ TooMuch(s, b)
                              \/ OffLocked(bk, s, b) # 0 \/ OffBuyback(bk, s, b) # 0
    /\ \A j \in 1..Len(s) :
          s[j].kind = "settled" =>
             LeakUpTo(s, j) \/ NotReplayed(s, j) \/ s[j].amount <= potAllowed(FreeOf(b, s, j - 1))
StretchFits(bk, s, b, known) ==
    /\ ~LeakUpTo(s, Len(s)) /\ ~WithdrawnIn(s) /\ Surplus(b) >= 0 => Surplus(bk) >= 0
    /\ TakenIn(s) => LeakUpTo(s, Len(s)) /\ (Surplus(bk) < 0 \/ RefilledIn(s))
    /\ known => Compares(bk, s, b)

\* What one event does to the books: one they show, and a leak.
OfKind(e, kind) == IF e.kind = kind THEN e.amount ELSE 0
MovedSeen(bk, w, e) ==
    /\ e.kind # "taken"
    /\ e.kind # "withdrawn" /\ Surplus(bk) >= 0 => Surplus(w) >= 0
    /\ e.kind # "given" /\ Surplus(bk) < 0 => Surplus(w) < 0
    /\ w.lockedBac = bk.lockedBac + OfKind(e, "locked") /\ w.totalBurned = bk.totalBurned + OfKind(e, "burned")
    /\ w.buybackBac = bk.buybackBac + (OfKind(e, "bought") + OfKind(e, "swept") - OfKind(e, "collected"))
    /\ FreeIn(bk) + OfKind(e, "bought") - OfKind(e, "settled") <= FreeIn(w)
    /\ e.kind \in {"swept", "revoked"} \/ FreeIn(w) = FreeIn(bk) + OfKind(e, "bought") - OfKind(e, "settled")
    /\ e.kind = "settled" => e.amount <= potAllowed(FreeIn(bk))
MovedUnseen(bk, w, e) ==
    \/ e.kind = "taken" /\ Surplus(w) < 0
    \/ e.kind = "nothing" /\ (w.lockedBac # bk.lockedBac \/ w.buybackBac # bk.buybackBac)
    \/ e.kind = "settled" /\ e.amount > potAllowed(FreeIn(bk)) + 1

LEMMA BooksInt ==
    ASSUME NEW bk \in SlowBooks
    PROVE  /\ bk.lockedBac \in Int /\ bk.totalBurned \in Int /\ bk.buybackBac \in Int
           /\ FreeIn(bk) \in Int /\ Surplus(bk) \in Int
BY DEF SlowBooks, FreeIn, Surplus

\* A book x, y before, that is compared with what it was, z, and with what was to come, f before and g now.
Drift(x, y, z, f, g, d) == {x, y, z, f, d} \subseteq Int /\ g = f + d
Drifted(x, y, offX, offY, d) ==
    /\ offX \in Int /\ offY \in Int
    /\ x = y + d => offX = offY
    /\ d = 0 /\ offY = 0 /\ x # y => offX # 0

LEMMA Drifts ==
    ASSUME NEW x, NEW y, NEW z, NEW f, NEW g, NEW d, Drift(x, y, z, f, g, d)
    PROVE  Drifted(x, y, x - z - g, y - z - f, d)
<1>1. x \in Int /\ y \in Int /\ z \in Int /\ f \in Int /\ d \in Int /\ g = f + d
  BY DEF Drift
<1>2. x - z - g \in Int /\ y - z - f \in Int
  BY <1>1
<1>3. x = y + d => x - z - g = y - z - f
  BY <1>1
<1>4. d = 0 /\ y - z - f = 0 /\ x # y => x - z - g # 0
  BY <1>1
<1> QED BY <1>2, <1>3, <1>4 DEF Drifted

LEMMA StretchGrows ==
    ASSUME NEW bk \in SlowBooks, NEW w \in SlowBooks, NEW b \in SlowBooks, NEW s \in Seq(Happening), NEW e \in Happening,
           NEW known, StretchFits(bk, s, b, known),
           IF e.leak THEN ~LeakUpTo(s, Len(s)) /\ MovedUnseen(bk, w, e) ELSE MovedSeen(bk, w, e)
    PROVE  StretchFits(w, Append(s, e), b, known)
<1> DEFINE t == Append(s, e)
           L == Len(s)
           F(k) == FlowOf(s, L, k)
<1>0. L \in Nat /\ t \in Seq(Happening) /\ Len(t) = L + 1 /\ t[L + 1] = e /\ \A i \in 1..L : t[i] = s[i]
  OBVIOUS
<1>1. \A k : F(k) \in Nat
  BY FlowNat
<1>2. ASSUME NEW k PROVE /\ \A n \in 0..L : FlowOf(t, n, k) = FlowOf(s, n, k)
                         /\ FlowOf(t, L + 1, k) = F(k) + OfKind(e, k)
  BY FlowGrows DEF OfKind
<1>3. \A k : OfKind(e, k) \in Nat
  BY DEF OfKind, Happening
<1> HIDE DEF t, L, F
<1>4. LeakUpTo(t, Len(t)) <=> LeakUpTo(s, L) \/ e.leak
  BY <1>0 DEF LeakUpTo
<1>5. NotReplayed(t, Len(t)) <=> NotReplayed(s, L) \/ e.kind \in {"swept", "revoked"}
  BY <1>0 DEF NotReplayed
<1>6. ASSUME NEW j \in 1..L PROVE (LeakUpTo(t, j) <=> LeakUpTo(s, j)) /\ (NotReplayed(t, j) <=> NotReplayed(s, j))
  BY <1>0 DEF LeakUpTo, NotReplayed
<1>7. ASSUME NEW j \in 1..L + 1 PROVE FreeOf(b, t, j - 1) = FreeOf(b, s, j - 1)
  <2>1. j - 1 \in 0..L
    BY <1>0
  <2>2. FlowOf(t, j - 1, "bought") = FlowOf(s, j - 1, "bought") /\ FlowOf(t, j - 1, "settled") = FlowOf(s, j - 1, "settled")
    BY <1>2, <2>1
  <2> QED BY <2>2 DEF FreeOf
<1>8. FreeOf(b, t, L + 1) = FreeOf(b, s, L) + OfKind(e, "bought") - OfKind(e, "settled") /\ FreeOf(b, s, L) \in Int
  <2>1. b.buybackBac \in Nat /\ b.reservedTotal \in Nat
    BY DEF SlowBooks
  <2>2. /\ FlowOf(t, L + 1, "bought") = F("bought") + OfKind(e, "bought")
        /\ FlowOf(t, L + 1, "settled") = F("settled") + OfKind(e, "settled")
        /\ FlowOf(s, L, "bought") = F("bought") /\ FlowOf(s, L, "settled") = F("settled")
    BY <1>2 DEF F
  <2>3. FreeOf(b, t, L + 1)
          = (b.buybackBac + (F("bought") + OfKind(e, "bought"))) - (b.reservedTotal + (F("settled") + OfKind(e, "settled")))
    BY <2>2 DEF FreeOf
  <2>4. FreeOf(b, s, L) = (b.buybackBac + F("bought")) - (b.reservedTotal + F("settled"))
    BY <2>2 DEF FreeOf
  <2> HIDE DEF OfKind, F
  <2> QED BY <1>1, <1>3, <2>1, <2>3, <2>4
<1> DEFINE dB == OfKind(e, "bought") + OfKind(e, "swept") - OfKind(e, "collected")
<1>9. /\ Drifted(w.lockedBac, bk.lockedBac, OffLocked(w, t, b), OffLocked(bk, s, b), OfKind(e, "locked"))
      /\ Drifted(w.totalBurned, bk.totalBurned, OffBurned(w, t, b), OffBurned(bk, s, b), OfKind(e, "burned"))
      /\ Drifted(w.buybackBac, bk.buybackBac, OffBuyback(w, t, b), OffBuyback(bk, s, b), dB)
  <2> DEFINE T(k) == FlowOf(t, Len(t), k)
             S(k) == FlowOf(s, Len(s), k)
  <2>1. /\ bk.lockedBac \in Int /\ bk.totalBurned \in Int /\ bk.buybackBac \in Int
        /\ w.lockedBac \in Int /\ w.totalBurned \in Int /\ w.buybackBac \in Int
        /\ b.lockedBac \in Int /\ b.totalBurned \in Int /\ b.buybackBac \in Int
    BY BooksInt
  <2>2. ASSUME NEW k PROVE T(k) = S(k) + OfKind(e, k) /\ S(k) \in Int /\ OfKind(e, k) \in Int
    BY <1>0, <1>1, <1>2, <1>3 DEF F, L
  <2> DEFINE sB == S("bought") + S("swept") - S("collected")
             tB == T("bought") + T("swept") - T("collected")
  <2>3. sB \in Int /\ dB \in Int /\ tB = sB + dB
    <3> HIDE DEF T, S
    <3>1. ASSUME NEW i \in Int, NEW j \in Int, NEW k \in Int, NEW di \in Int, NEW dj \in Int, NEW dk \in Int
          PROVE  (i + di) + (j + dj) - (k + dk) = (i + j - k) + (di + dj - dk)
      OBVIOUS
    <3>2. /\ T("bought") = S("bought") + OfKind(e, "bought") /\ S("bought") \in Int /\ OfKind(e, "bought") \in Int
          /\ T("swept") = S("swept") + OfKind(e, "swept") /\ S("swept") \in Int /\ OfKind(e, "swept") \in Int
          /\ T("collected") = S("collected") + OfKind(e, "collected")
          /\ S("collected") \in Int /\ OfKind(e, "collected") \in Int
      BY <2>2
    <3> QED BY <3>1, <3>2
  <2> HIDE DEF sB, tB, dB, S, T
  <2>4. /\ Drift(w.lockedBac, bk.lockedBac, b.lockedBac, S("locked"), T("locked"), OfKind(e, "locked"))
        /\ Drift(w.totalBurned, bk.totalBurned, b.totalBurned, S("burned"), T("burned"), OfKind(e, "burned"))
        /\ Drift(w.buybackBac, bk.buybackBac, b.buybackBac, sB, tB, dB)
    BY <2>1, <2>2, <2>3 DEF Drift
  <2>5. /\ OffLocked(w, t, b) = w.lockedBac - b.lockedBac - T("locked")
        /\ OffLocked(bk, s, b) = bk.lockedBac - b.lockedBac - S("locked")
        /\ OffBurned(w, t, b) = w.totalBurned - b.totalBurned - T("burned")
        /\ OffBurned(bk, s, b) = bk.totalBurned - b.totalBurned - S("burned")
        /\ OffBuyback(w, t, b) = w.buybackBac - b.buybackBac - tB
        /\ OffBuyback(bk, s, b) = bk.buybackBac - b.buybackBac - sB
    BY Zenon DEF OffLocked, OffBurned, OffBuyback, S, T, sB, tB
  <2> QED BY ONLY <2>4, <2>5, Drifts
<1> HIDE DEF dB
<1>b. FreeIn(bk) \in Int /\ FreeIn(w) \in Int /\ Surplus(bk) \in Int /\ Surplus(w) \in Int
  BY BooksInt
<1>10. potAllowed(FreeOf(b, s, L)) \in Nat /\ potAllowed(FreeIn(bk)) \in Nat
       /\ (FreeOf(b, s, L) <= FreeIn(bk) => potAllowed(FreeOf(b, s, L)) <= potAllowed(FreeIn(bk)))
  BY <1>8, <1>b, AllowedGrows
<1>11. /\ ~LeakUpTo(s, L) /\ ~WithdrawnIn(s) /\ Surplus(b) >= 0 => Surplus(bk) >= 0
       /\ TakenIn(s) => LeakUpTo(s, L) /\ (Surplus(bk) < 0 \/ RefilledIn(s))
       /\ known => Compares(bk, s, b)
  BY DEF StretchFits, L
<1>c. /\ WithdrawnIn(t) <=> WithdrawnIn(s) \/ e.kind = "withdrawn"
      /\ TakenIn(t) <=> TakenIn(s) \/ e.kind = "taken"
      /\ RefilledIn(s) \/ (TakenIn(s) /\ e.kind = "given") => RefilledIn(t)
  <2>1. \A i \in 1..L : i \in 1..Len(t) /\ t[i] = s[i] /\ i < L + 1
    BY <1>0
  <2>2. L + 1 \in 1..Len(t) /\ \A i \in 1..Len(t) : i \in 1..L \/ i = L + 1
    BY <1>0
  <2> QED BY ONLY <1>0, <2>1, <2>2 DEF WithdrawnIn, TakenIn, RefilledIn, L
<1>a. e.amount \in Nat /\ e.leak \in BOOLEAN
  BY DEF Happening
<1>12. CASE e.leak
  <2>1. ~LeakUpTo(s, L) /\ MovedUnseen(bk, w, e)
    BY <1>12 DEF L
  <2>2. LeakUpTo(t, Len(t)) /\ (TakenIn(t) => Surplus(w) < 0)
    BY <1>4, <1>11, <1>12, <1>c, <2>1 DEF MovedUnseen, L
  <2>3. ASSUME known PROVE Compares(w, t, b)
    <3>1. Compares(bk, s, b)
      BY <1>11, <2>3
    <3>2. /\ OffLocked(bk, s, b) = 0 /\ OffBuyback(bk, s, b) = 0 /\ FreeOf(b, s, L) <= FreeIn(bk)
      BY <2>1, <3>1 DEF Compares, L
    <3>3. \/ TakenIn(t) \/ TooMuch(t, b) \/ OffLocked(w, t, b) # 0 \/ OffBuyback(w, t, b) # 0
      <4>1. CASE e.kind = "settled" /\ e.amount > potAllowed(FreeIn(bk)) + 1
        <5>1. L + 1 \in 1..Len(t) /\ t[L + 1] = e /\ (L + 1) - 1 = L
          BY <1>0
        <5>2. FreeOf(b, t, (L + 1) - 1) = FreeOf(b, s, L)
          <6>1. L + 1 \in 1..L + 1 /\ (L + 1) - 1 = L
            BY <1>0
          <6>2. FreeOf(b, t, (L + 1) - 1) = FreeOf(b, s, (L + 1) - 1)
            BY <1>7, <6>1
          <6> QED BY <6>1, <6>2
        <5>3. e.amount > potAllowed(FreeOf(b, t, (L + 1) - 1)) + 1
          BY <1>10, <1>a, <3>2, <4>1, <5>2
        <5>4. TooMuch(t, b)
          BY <4>1, <5>1, <5>3 DEF TooMuch
        <5> QED BY <5>4
      <4>2. CASE e.kind = "nothing"
        <5>1. /\ OfKind(e, "locked") = 0 /\ OfKind(e, "bought") = 0 /\ OfKind(e, "swept") = 0 /\ OfKind(e, "collected") = 0
          BY <4>2 DEF OfKind
        <5>3. w.lockedBac # bk.lockedBac \/ w.buybackBac # bk.buybackBac
          BY <2>1, <4>2 DEF MovedUnseen
        <5>7. w.lockedBac # bk.lockedBac => OffLocked(w, t, b) # 0
          BY <1>9, <3>2, <5>1 DEF Drifted
        <5>8. w.buybackBac # bk.buybackBac => OffBuyback(w, t, b) # 0
          BY <1>9, <3>2, <5>1 DEF dB, Drifted
        <5> QED BY <5>3, <5>7, <5>8
      <4>3. CASE e.kind = "taken"
        BY <1>c, <4>3
      <4> QED BY <2>1, <4>1, <4>2, <4>3 DEF MovedUnseen
    <3>4. ASSUME NEW j \in 1..Len(t), t[j].kind = "settled"
          PROVE  LeakUpTo(t, j) \/ NotReplayed(t, j) \/ t[j].amount <= potAllowed(FreeOf(b, t, j - 1))
      <4>1. CASE j = L + 1
        BY <1>0, <1>12, <4>1 DEF LeakUpTo
      <4>2. CASE j \in 1..L
        <5>1. FreeOf(b, t, j - 1) = FreeOf(b, s, j - 1) /\ t[j] = s[j]
          BY <1>0, <1>7, <4>2
        <5>2. LeakUpTo(s, j) \/ NotReplayed(s, j) \/ s[j].amount <= potAllowed(FreeOf(b, s, j - 1))
          BY <3>1, <3>4, <4>2, <5>1 DEF Compares, L
        <5> QED BY <1>6, <4>2, <5>1, <5>2
      <4> QED BY <1>0, <4>1, <4>2
    <3> QED BY <2>2, <3>3, <3>4 DEF Compares
  <2> QED BY <2>2, <2>3 DEF StretchFits, t
<1>13. CASE ~e.leak
  <2>1. MovedSeen(bk, w, e)
    BY <1>13
  <2>2. LeakUpTo(t, Len(t)) <=> LeakUpTo(s, L)
    BY <1>4, <1>13
  <2>3. ~LeakUpTo(t, Len(t)) /\ ~WithdrawnIn(t) /\ Surplus(b) >= 0 => Surplus(w) >= 0
    BY <1>11, <1>c, <2>1, <2>2 DEF MovedSeen
  <2>4. TakenIn(t) <=> TakenIn(s)
    BY <1>c, <2>1 DEF MovedSeen
  <2>5. TakenIn(t) => LeakUpTo(t, Len(t)) /\ (Surplus(w) < 0 \/ RefilledIn(t))
    BY <1>11, <1>c, <2>1, <2>2, <2>4 DEF MovedSeen
  <2>6. ASSUME known PROVE Compares(w, t, b)
    <3>1. Compares(bk, s, b)
      BY <1>11, <2>6
    <3>2. OffLocked(w, t, b) = OffLocked(bk, s, b) /\ OffBurned(w, t, b) = OffBurned(bk, s, b)
          /\ OffBuyback(w, t, b) = OffBuyback(bk, s, b)
      <4>1. /\ w.lockedBac = bk.lockedBac + OfKind(e, "locked") /\ w.totalBurned = bk.totalBurned + OfKind(e, "burned")
            /\ w.buybackBac = bk.buybackBac + dB
        BY <2>1 DEF MovedSeen, dB
      <4> QED BY <1>9, <4>1 DEF Drifted
    <3>3. ASSUME ~LeakUpTo(t, Len(t))
          PROVE  /\ OffLocked(w, t, b) = 0 /\ OffBurned(w, t, b) = 0 /\ OffBuyback(w, t, b) = 0
                 /\ FreeOf(b, t, Len(t)) <= FreeIn(w)
                 /\ NotReplayed(t, Len(t)) \/ FreeOf(b, t, Len(t)) = FreeIn(w)
      <4>1. /\ OffLocked(bk, s, b) = 0 /\ OffBurned(bk, s, b) = 0 /\ OffBuyback(bk, s, b) = 0
            /\ FreeOf(b, s, L) <= FreeIn(bk) /\ (NotReplayed(s, L) \/ FreeOf(b, s, L) = FreeIn(bk))
        BY <2>2, <3>1, <3>3 DEF Compares, L
      <4>2. FreeOf(b, t, Len(t)) = FreeOf(b, s, L) + OfKind(e, "bought") - OfKind(e, "settled")
        BY <1>0, <1>8
      <4>3. /\ FreeIn(bk) + OfKind(e, "bought") - OfKind(e, "settled") <= FreeIn(w)
            /\ e.kind \in {"swept", "revoked"} \/ FreeIn(w) = FreeIn(bk) + OfKind(e, "bought") - OfKind(e, "settled")
        BY <2>1 DEF MovedSeen
      <4>4. OfKind(e, "bought") \in Int /\ OfKind(e, "settled") \in Int
        BY <1>3
      <4>5. FreeOf(b, t, Len(t)) <= FreeIn(w)
        BY <1>8, <1>b, <4>1, <4>2, <4>3, <4>4
      <4>6. NotReplayed(t, Len(t)) \/ FreeOf(b, t, Len(t)) = FreeIn(w)
        BY <1>5, <4>1, <4>2, <4>3
      <4> QED BY <3>2, <4>1, <4>5, <4>6
    <3>4. ASSUME NEW j \in 1..Len(t), t[j].kind = "settled"
          PROVE  LeakUpTo(t, j) \/ NotReplayed(t, j) \/ t[j].amount <= potAllowed(FreeOf(b, t, j - 1))
      <4>1. CASE j = L + 1
        <5>1. e.kind = "settled" /\ t[j] = e /\ j - 1 = L /\ j = Len(t)
          BY <1>0, <3>4, <4>1
        <5>2. CASE ~LeakUpTo(s, L) /\ ~NotReplayed(s, L)
          <6>1. FreeOf(b, s, L) = FreeIn(bk)
            BY <3>1, <5>2 DEF Compares, L
          <6>2. e.amount <= potAllowed(FreeIn(bk))
            BY <2>1, <5>1 DEF MovedSeen
          <6>3. FreeOf(b, t, j - 1) = FreeOf(b, s, L)
            BY <1>0, <1>7, <4>1, <5>1
          <6> QED BY <5>1, <6>1, <6>2, <6>3
        <5>3. CASE LeakUpTo(s, L) \/ NotReplayed(s, L)
          BY <1>4, <1>5, <5>1, <5>3
        <5> QED BY <5>2, <5>3
      <4>2. CASE j \in 1..L
        <5>1. FreeOf(b, t, j - 1) = FreeOf(b, s, j - 1) /\ t[j] = s[j]
          BY <1>0, <1>7, <4>2
        <5>2. LeakUpTo(s, j) \/ NotReplayed(s, j) \/ s[j].amount <= potAllowed(FreeOf(b, s, j - 1))
          BY <3>1, <3>4, <4>2, <5>1 DEF Compares, L
        <5> QED BY <1>6, <4>2, <5>1, <5>2
      <4> QED BY <1>0, <4>1, <4>2
    <3>5. ASSUME LeakUpTo(t, Len(t))
          PROVE  \/ TakenIn(t) \/ TooMuch(t, b) \/ OffLocked(w, t, b) # 0 \/ OffBuyback(w, t, b) # 0
      <4>1. \/ TakenIn(s) \/ TooMuch(s, b) \/ OffLocked(bk, s, b) # 0 \/ OffBuyback(bk, s, b) # 0
        BY <2>2, <3>1, <3>5 DEF Compares, L
      <4>2. ASSUME TooMuch(s, b) PROVE TooMuch(t, b)
        <5>1. PICK j \in 1..L : s[j].kind = "settled" /\ s[j].amount > potAllowed(FreeOf(b, s, j - 1)) + 1
          BY <4>2 DEF TooMuch, L
        <5>2. t[j] = s[j] /\ j \in 1..Len(t) /\ FreeOf(b, t, j - 1) = FreeOf(b, s, j - 1)
          BY <1>0, <1>7
        <5> QED BY <5>1, <5>2 DEF TooMuch
      <4> QED BY <2>4, <3>2, <4>1, <4>2
    <3> QED BY <3>3, <3>4, <3>5 DEF Compares
  <2> QED BY <2>6, <2>3, <2>5 DEF StretchFits, t
<1> QED BY <1>12, <1>13, <1>a

-----------------------------------------------------------------------------
\* The steps of the bridge: each moves the books by one event.
\* What Happens says of the books and of the record it appends.
Took(e, after) ==
    /\ vault' = after /\ stretch' = Append(stretch, e)
    /\ wallEpoch' = wallEpoch /\ shadow' = shadow /\ alarm' = alarm /\ failures' = failures

LEMMA HappensTook ==
    ASSUME NEW kind, NEW amount, NEW leak, NEW after, Happens(kind, amount, leak, after)
    PROVE  Took([kind |-> kind, amount |-> amount, leak |-> leak, epoch |-> settledEpoch', bucket |-> vault.buybackBac],
                after)
BY DEF Happens, Took

BookNames == {"lockedBac", "totalBurned", "buybackBac", "owedTotal", "reservedTotal", "tokenBalance"}
IntBooks == [lockedBac : Int, totalBurned : Int, buybackBac : Int, owedTotal : Int, reservedTotal : Int, tokenBalance : Int]

LEMMA PlusBooks ==
    ASSUME NEW bk \in IntBooks, NEW f \in BookNames, NEW n \in Int
    PROVE  /\ Plus(bk, f, n) \in IntBooks
           /\ Plus(bk, f, n)[f] = bk[f] + n
           /\ \A g \in BookNames : g # f => Plus(bk, f, n)[g] = bk[g]
BY DEF Plus, IntBooks, BookNames

\* By how much each of the books changes.
Changed(bk, w, locked, burned, bucket, owed, reserved, netIn) ==
    /\ w.lockedBac = bk.lockedBac + locked /\ w.totalBurned = bk.totalBurned + burned
    /\ w.buybackBac = bk.buybackBac + bucket /\ w.owedTotal = bk.owedTotal + owed
    /\ w.reservedTotal = bk.reservedTotal + reserved /\ w.tokenBalance = bk.tokenBalance + netIn
    /\ w \in IntBooks

LEMMA ChangedBooks ==
    ASSUME NEW bk \in SlowBooks, Owing(bk),
           NEW locked \in Int, NEW burned \in Int, NEW bucket \in Int, NEW owed \in Int, NEW reserved \in Int,
           NEW netIn \in Int, NEW w, Changed(bk, w, locked, burned, bucket, owed, reserved, netIn),
           burned >= 0,
           bk.totalBurned + burned <= bk.lockedBac + locked,
           0 <= bk.reservedTotal + reserved, bk.reservedTotal + reserved <= bk.owedTotal + owed,
           bk.owedTotal + owed <= bk.buybackBac + bucket
    PROVE  /\ w \in SlowBooks /\ Owing(w)
           /\ Surplus(w) = Surplus(bk) + (netIn - (locked - burned + bucket))
           /\ FreeIn(w) = FreeIn(bk) + (bucket - reserved)
<1>1. /\ bk.lockedBac \in Nat /\ bk.totalBurned \in Nat /\ bk.buybackBac \in Nat /\ bk.owedTotal \in Nat
      /\ bk.reservedTotal \in Nat /\ bk.tokenBalance \in Int
  BY DEF SlowBooks
<1>2. PICK a \in Nat, b \in Nat, c \in Nat, d \in Nat, f \in Nat, g \in Int :
         /\ a = bk.lockedBac /\ b = bk.totalBurned /\ c = bk.buybackBac /\ d = bk.owedTotal
         /\ f = bk.reservedTotal /\ g = bk.tokenBalance
  BY <1>1
<1>3. /\ w.lockedBac = a + locked /\ w.totalBurned = b + burned /\ w.buybackBac = c + bucket
      /\ w.owedTotal = d + owed /\ w.reservedTotal = f + reserved /\ w.tokenBalance = g + netIn
  BY <1>2 DEF Changed
<1>4. /\ b + burned <= a + locked /\ 0 <= f + reserved /\ f + reserved <= d + owed /\ d + owed <= c + bucket
      /\ b + burned \in Nat
  BY <1>2
<1>5. /\ a + locked \in Nat /\ c + bucket \in Nat /\ d + owed \in Nat /\ f + reserved \in Nat /\ g + netIn \in Int
  BY <1>4
<1>6. w \in SlowBooks
  BY <1>3, <1>4, <1>5 DEF SlowBooks, IntBooks, Changed
<1>7. Owing(w)
  BY <1>3, <1>4 DEF Owing
<1>8. Surplus(w) = Surplus(bk) + (netIn - (locked - burned + bucket))
  <2>1. /\ Surplus(w) = (g + netIn) - ((a + locked) - (b + burned) + (c + bucket))
        /\ Surplus(bk) = g - (a - b + c)
    BY <1>2, <1>3 DEF Surplus
  <2> QED BY ONLY <2>1, a \in Nat, b \in Nat, c \in Nat, g \in Int, locked \in Int, burned \in Int, bucket \in Int, netIn \in Int
<1>9. FreeIn(w) = FreeIn(bk) + (bucket - reserved)
  <2>1. FreeIn(w) = (c + bucket) - (f + reserved) /\ FreeIn(bk) = c - f
    BY <1>2, <1>3 DEF FreeIn
  <2> QED BY ONLY <2>1, c \in Nat, f \in Nat, bucket \in Int, reserved \in Int
<1> QED BY <1>6, <1>7, <1>8, <1>9

\* A settlement released no more than its part of the bucket, unless it is a leak; and so did every row of the
\* log, as far as the base has seen: but for a leak, a bucket that had shrunk again, a row older than the base.
LogOf(s, rows, settled, wall) ==
    /\ \A j \in 1..Len(s) :
          s[j].kind = "settled" =>
             s[j].epoch <= settled /\ (s[j].leak \/ s[j].amount <= s[j].bucket \div RELEASE_PART)
    /\ \A e \in SettledEpochs :
          /\ rows.release_log[e].at <= wall /\ (rows.release_log[e].pot = 0 \/ e <= wall)
          /\ \/ rows.release_log[e].leak \/ rows.release_log[e].shrunk
             \/ rows.release_log[e].at <= rows.roll_base_at
             \/ rows.release_log[e].pot <= rows.roll_base \div RELEASE_PART

\* The books owe what they have, and the stretch and the shadow fit them.
SlowInv ==
    /\ vault \in SlowBooks /\ shadow \in ShadowRows /\ stretch \in Seq(Happening)
    /\ settledEpoch \in Nat /\ wallEpoch \in Nat /\ settledEpoch <= wallEpoch
    /\ Owing(vault)
    /\ StretchFits(vault, stretch, shadow.snapshot, usablePrev)
    /\ LogOf(stretch, shadow, settledEpoch, wallEpoch)

BridgeMoves(e) ==
    /\ e \in Happening /\ vault' \in SlowBooks /\ Owing(vault') /\ stretch' = Append(stretch, e)
    /\ IF e.leak THEN ~LeakUpTo(stretch, Len(stretch)) /\ MovedUnseen(vault, vault', e) ELSE MovedSeen(vault, vault', e)
    /\ settledEpoch' \in Nat /\ settledEpoch <= settledEpoch' /\ settledEpoch' <= wallEpoch
    /\ e.kind = "settled" => e.epoch <= settledEpoch' /\ (e.leak \/ e.amount <= e.bucket \div RELEASE_PART)
    /\ wallEpoch' = wallEpoch /\ shadow' = shadow /\ alarm' = alarm /\ failures' = failures

\* The flows of an event that is not a settlement, and the change of the books that goes with it.
EventShape(e, after, locked, burned, bought, swept, collected, owed, reserved, netIn) ==
    /\ {locked, burned, bought, swept, collected} \subseteq Nat /\ {owed, reserved} \subseteq Int
    /\ OfKind(e, "locked") = locked /\ OfKind(e, "burned") = burned /\ OfKind(e, "bought") = bought
    /\ OfKind(e, "swept") = swept /\ OfKind(e, "collected") = collected /\ OfKind(e, "settled") = 0
    /\ e.kind \notin {"settled", "taken"} /\ ~e.leak
    /\ Changed(vault, after, locked, burned, bought + swept - collected, owed, reserved, netIn)
    /\ vault.totalBurned + burned <= vault.lockedBac + locked
    /\ 0 <= vault.reservedTotal + reserved /\ vault.reservedTotal + reserved <= vault.owedTotal + owed
    /\ vault.owedTotal + owed <= vault.buybackBac + (bought + swept - collected)
    /\ \/ e.kind \in {"swept", "revoked"} /\ reserved <= swept - collected
       \/ reserved = swept - collected

\* Most of them leave what the bridge has beyond its books as it is.
EventFits(e, after, locked, burned, bought, swept, collected, owed, reserved) ==
    EventShape(e, after, locked, burned, bought, swept, collected, owed, reserved,
               locked - burned + (bought + swept - collected))

LEMMA EventMoves ==
    ASSUME SlowInv, NEW e \in Happening, NEW after, Took(e, after), settledEpoch' = settledEpoch,
           NEW locked, NEW burned, NEW bought, NEW swept, NEW collected, NEW owed, NEW reserved,
           NEW netIn \in Int, NEW extra \in Int, netIn = locked - burned + (bought + swept - collected) + extra,
           EventShape(e, after, locked, burned, bought, swept, collected, owed, reserved, netIn),
           e.kind # "withdrawn" /\ Surplus(vault) >= 0 => Surplus(vault) + extra >= 0,
           e.kind # "given" /\ Surplus(vault) < 0 => Surplus(vault) + extra < 0
    PROVE  BridgeMoves(e)
<1> DEFINE bucket == bought + swept - collected
<1>1. /\ vault' = after /\ stretch' = Append(stretch, e) /\ settledEpoch' = settledEpoch
      /\ wallEpoch' = wallEpoch /\ shadow' = shadow /\ alarm' = alarm /\ failures' = failures
  BY DEF Took
<1>2. vault \in SlowBooks /\ Owing(vault) /\ settledEpoch \in Nat /\ settledEpoch <= wallEpoch
  BY DEF SlowInv
<1>3. /\ locked \in Nat /\ burned \in Nat /\ bought \in Nat /\ swept \in Nat /\ collected \in Nat
      /\ owed \in Int /\ reserved \in Int
  BY DEF EventShape
<1>4. bucket \in Int /\ burned >= 0 /\ netIn - (locked - burned + bucket) = extra
  BY <1>3
<1>5. Changed(vault, after, locked, burned, bucket, owed, reserved, netIn)
  BY Zenon DEF EventShape
<1>6. /\ vault.totalBurned + burned <= vault.lockedBac + locked
      /\ 0 <= vault.reservedTotal + reserved /\ vault.reservedTotal + reserved <= vault.owedTotal + owed
      /\ vault.owedTotal + owed <= vault.buybackBac + bucket
  BY Zenon DEF EventShape
<1> HIDE DEF bucket
<1>7. /\ after \in SlowBooks /\ Owing(after)
      /\ Surplus(after) = Surplus(vault) + (netIn - (locked - burned + bucket))
      /\ FreeIn(after) = FreeIn(vault) + (bucket - reserved)
  BY ONLY <1>2, <1>3, <1>4, <1>5, <1>6, netIn \in Int, ChangedBooks
<1>8. Surplus(vault) \in Int /\ FreeIn(vault) \in Int
  BY <1>2, BooksInt
<1>9. Surplus(after) = Surplus(vault) + extra
  BY <1>4, <1>7, <1>8
<1>10. /\ OfKind(e, "locked") = locked /\ OfKind(e, "burned") = burned /\ OfKind(e, "bought") = bought
       /\ OfKind(e, "swept") = swept /\ OfKind(e, "collected") = collected /\ OfKind(e, "settled") = 0
       /\ e.kind \notin {"settled", "taken"} /\ ~e.leak
       /\ \/ e.kind \in {"swept", "revoked"} /\ reserved <= swept - collected
          \/ reserved = swept - collected
  BY DEF EventShape
<1>11. /\ reserved <= swept - collected => FreeIn(vault) + bought - 0 <= FreeIn(after)
       /\ reserved = swept - collected => FreeIn(after) = FreeIn(vault) + bought - 0
  <2>1. bucket = bought + swept - collected
    BY DEF bucket
  <2> QED BY ONLY <1>3, <1>7, <1>8, <2>1
<1>12. /\ after.lockedBac = vault.lockedBac + locked /\ after.totalBurned = vault.totalBurned + burned
       /\ after.buybackBac = vault.buybackBac + (bought + swept - collected)
  BY <1>5 DEF Changed, bucket
<1>13. /\ FreeIn(vault) + bought - 0 <= FreeIn(after)
       /\ e.kind \in {"swept", "revoked"} \/ FreeIn(after) = FreeIn(vault) + bought - 0
  <2>1. reserved = swept - collected => reserved <= swept - collected
    BY <1>3
  <2> QED BY <1>10, <1>11, <2>1
<1>14. MovedSeen(vault, after, e)
  <2>1. /\ e.kind # "withdrawn" /\ Surplus(vault) >= 0 => Surplus(after) >= 0
        /\ e.kind # "given" /\ Surplus(vault) < 0 => Surplus(after) < 0
    BY <1>9
  <2> QED BY ONLY <2>1, <1>10, <1>12, <1>13 DEF MovedSeen
<1> QED BY <1>1, <1>2, <1>7, <1>10, <1>14 DEF BridgeMoves

LEMMA ShownMoves ==
    ASSUME SlowInv, NEW e \in Happening, NEW after, Took(e, after), settledEpoch' = settledEpoch,
           NEW locked, NEW burned, NEW bought, NEW swept, NEW collected, NEW owed, NEW reserved,
           EventFits(e, after, locked, burned, bought, swept, collected, owed, reserved)
    PROVE  BridgeMoves(e)
<1>1. PICK n : n = locked - burned + (bought + swept - collected)
  OBVIOUS
<1>2. EventShape(e, after, locked, burned, bought, swept, collected, owed, reserved, n)
  BY <1>1, Zenon DEF EventFits
<1>3. /\ locked \in Nat /\ burned \in Nat /\ bought \in Nat /\ swept \in Nat /\ collected \in Nat
  BY <1>2 DEF EventShape
<1>4. n \in Int /\ n = locked - burned + (bought + swept - collected) + 0 /\ 0 \in Int
  BY <1>1, <1>3
<1>5. Surplus(vault) \in Int
  BY BooksInt DEF SlowInv
<1>6. Surplus(vault) + 0 = Surplus(vault)
  BY <1>5
<1>7. /\ e.kind # "withdrawn" /\ Surplus(vault) >= 0 => Surplus(vault) + 0 >= 0
      /\ e.kind # "given" /\ Surplus(vault) < 0 => Surplus(vault) + 0 < 0
  BY <1>6
<1> QED BY <1>2, <1>4, <1>7, EventMoves

LEMMA LotType == Lot \in Nat /\ Lot > 1
BY SlowSizes

\* What goes into a bucket, or out of one, changes it and the balance.
LEMMA InBooks ==
    ASSUME vault \in SlowBooks, NEW n \in Int
    PROVE  /\ Changed(vault, In("lockedBac", n), n, 0, 0, 0, 0, n)
           /\ Changed(vault, In("buybackBac", n), 0, 0, n, 0, 0, n)
<1>1. vault \in IntBooks
  BY DEF SlowBooks, IntBooks
<1>2. /\ vault.lockedBac \in Int /\ vault.totalBurned \in Int /\ vault.buybackBac \in Int
      /\ vault.owedTotal \in Int /\ vault.reservedTotal \in Int /\ vault.tokenBalance \in Int
  BY DEF SlowBooks
<1>3. ASSUME NEW f \in BookNames, f # "tokenBalance"
      PROVE  /\ In(f, n) \in IntBooks /\ In(f, n)[f] = vault[f] + n
             /\ In(f, n).tokenBalance = vault.tokenBalance + n
             /\ \A g \in BookNames : g # f /\ g # "tokenBalance" => In(f, n)[g] = vault[g]
  <2> DEFINE x == Plus(vault, f, n)
             y == Plus(x, "tokenBalance", n)
  <2>1. /\ x \in IntBooks /\ x[f] = vault[f] + n /\ \A g \in BookNames : g # f => x[g] = vault[g]
    BY <1>1, PlusBooks
  <2>2. "tokenBalance" \in BookNames
    BY DEF BookNames
  <2> HIDE DEF x
  <2>3. /\ y \in IntBooks /\ y["tokenBalance"] = x["tokenBalance"] + n
        /\ \A g \in BookNames : g # "tokenBalance" => y[g] = x[g]
    BY <2>1, <2>2, PlusBooks
  <2>4. In(f, n) = y
    BY Zenon DEF In, x
  <2> HIDE DEF y
  <2> QED BY <1>3, <2>1, <2>2, <2>3, <2>4
<1>4. Changed(vault, In("lockedBac", n), n, 0, 0, 0, 0, n)
  <2> DEFINE y == In("lockedBac", n)
  <2>1. /\ y \in IntBooks /\ y.lockedBac = vault.lockedBac + n /\ y.tokenBalance = vault.tokenBalance + n
        /\ y.totalBurned = vault.totalBurned /\ y.buybackBac = vault.buybackBac
        /\ y.owedTotal = vault.owedTotal /\ y.reservedTotal = vault.reservedTotal
    BY <1>3 DEF BookNames
  <2> HIDE DEF y
  <2>2. Changed(vault, y, n, 0, 0, 0, 0, n)
    BY <1>2, <2>1 DEF Changed
  <2> QED BY <2>2 DEF y
<1>5. Changed(vault, In("buybackBac", n), 0, 0, n, 0, 0, n)
  <2> DEFINE y == In("buybackBac", n)
  <2>1. /\ y \in IntBooks /\ y.buybackBac = vault.buybackBac + n /\ y.tokenBalance = vault.tokenBalance + n
        /\ y.totalBurned = vault.totalBurned /\ y.lockedBac = vault.lockedBac
        /\ y.owedTotal = vault.owedTotal /\ y.reservedTotal = vault.reservedTotal
    BY <1>3 DEF BookNames
  <2> HIDE DEF y
  <2>2. Changed(vault, y, 0, 0, n, 0, 0, n)
    BY <1>2, <2>1 DEF Changed
  <2> QED BY <2>2 DEF y
<1> QED BY <1>4, <1>5

LEMMA OneBook ==
    ASSUME NEW bk \in IntBooks, NEW n \in Int
    PROVE  /\ Changed(bk, Plus(bk, "owedTotal", n), 0, 0, 0, n, 0, 0)
           /\ Changed(bk, Plus(bk, "reservedTotal", n), 0, 0, 0, 0, n, 0)
           /\ Changed(bk, Plus(bk, "tokenBalance", n), 0, 0, 0, 0, 0, n)
           /\ Changed(bk, Plus(bk, "buybackBac", n), 0, 0, n, 0, 0, 0)
<1>1. /\ bk.lockedBac \in Int /\ bk.totalBurned \in Int /\ bk.buybackBac \in Int
      /\ bk.owedTotal \in Int /\ bk.reservedTotal \in Int /\ bk.tokenBalance \in Int
  BY DEF IntBooks
<1>2. \A i \in Int : i + 0 = i
  OBVIOUS
<1>3. Changed(bk, Plus(bk, "owedTotal", n), 0, 0, 0, n, 0, 0)
  <2>1. PICK w : w = Plus(bk, "owedTotal", n)
    OBVIOUS
  <2>2. w \in IntBooks /\ w["owedTotal"] = bk["owedTotal"] + n /\ \A g \in BookNames : g # "owedTotal" => w[g] = bk[g]
    BY <2>1, PlusBooks DEF BookNames
  <2>3. Changed(bk, w, 0, 0, 0, n, 0, 0)
    BY <1>1, <1>2, <2>2 DEF Changed, BookNames
  <2> QED BY <2>1, <2>3
<1>4. Changed(bk, Plus(bk, "reservedTotal", n), 0, 0, 0, 0, n, 0)
  <2>1. PICK w : w = Plus(bk, "reservedTotal", n)
    OBVIOUS
  <2>2. w \in IntBooks /\ w["reservedTotal"] = bk["reservedTotal"] + n /\ \A g \in BookNames : g # "reservedTotal" => w[g] = bk[g]
    BY <2>1, PlusBooks DEF BookNames
  <2>3. Changed(bk, w, 0, 0, 0, 0, n, 0)
    BY <1>1, <1>2, <2>2 DEF Changed, BookNames
  <2> QED BY <2>1, <2>3
<1>5. Changed(bk, Plus(bk, "tokenBalance", n), 0, 0, 0, 0, 0, n)
  <2>1. PICK w : w = Plus(bk, "tokenBalance", n)
    OBVIOUS
  <2>2. w \in IntBooks /\ w["tokenBalance"] = bk["tokenBalance"] + n /\ \A g \in BookNames : g # "tokenBalance" => w[g] = bk[g]
    BY <2>1, PlusBooks DEF BookNames
  <2>3. Changed(bk, w, 0, 0, 0, 0, 0, n)
    BY <1>1, <1>2, <2>2 DEF Changed, BookNames
  <2> QED BY <2>1, <2>3
<1>6. Changed(bk, Plus(bk, "buybackBac", n), 0, 0, n, 0, 0, 0)
  <2>1. PICK w : w = Plus(bk, "buybackBac", n)
    OBVIOUS
  <2>2. w \in IntBooks /\ w["buybackBac"] = bk["buybackBac"] + n /\ \A g \in BookNames : g # "buybackBac" => w[g] = bk[g]
    BY <2>1, PlusBooks DEF BookNames
  <2>3. Changed(bk, w, 0, 0, n, 0, 0, 0)
    BY <1>1, <1>2, <2>2 DEF Changed, BookNames
  <2> QED BY <2>1, <2>3
<1> QED BY <1>3, <1>4, <1>5, <1>6

LEMMA TwoBooks ==
    ASSUME NEW bk \in IntBooks, NEW n \in Int, NEW m \in Int
    PROVE  Changed(bk, Plus(Plus(bk, "totalBurned", n), "tokenBalance", m), 0, n, 0, 0, 0, m)
<1>1. /\ bk.lockedBac \in Int /\ bk.totalBurned \in Int /\ bk.buybackBac \in Int
      /\ bk.owedTotal \in Int /\ bk.reservedTotal \in Int /\ bk.tokenBalance \in Int
  BY DEF IntBooks
<1>2. (\A i \in Int : i + 0 = i) /\ {"totalBurned", "tokenBalance"} \subseteq BookNames
  BY DEF BookNames
<1>3. PICK x : x = Plus(bk, "totalBurned", n)
  OBVIOUS
<1>4. x \in IntBooks /\ x["totalBurned"] = bk["totalBurned"] + n /\ \A g \in BookNames : g # "totalBurned" => x[g] = bk[g]
  BY <1>2, <1>3, PlusBooks
<1>5. PICK w : w = Plus(x, "tokenBalance", m)
  OBVIOUS
<1>6. w \in IntBooks /\ w["tokenBalance"] = x["tokenBalance"] + m /\ \A g \in BookNames : g # "tokenBalance" => w[g] = x[g]
  BY <1>2, <1>4, <1>5, PlusBooks
<1>7. Changed(bk, w, 0, n, 0, 0, 0, m)
  <2>1. w.totalBurned = bk.totalBurned + n /\ w.tokenBalance = bk.tokenBalance + m
    BY <1>4, <1>6 DEF BookNames
  <2>2. /\ w.lockedBac = bk.lockedBac /\ w.buybackBac = bk.buybackBac
        /\ w.owedTotal = bk.owedTotal /\ w.reservedTotal = bk.reservedTotal
    BY <1>4, <1>6 DEF BookNames
  <2>3. /\ w.lockedBac = bk.lockedBac + 0 /\ w.buybackBac = bk.buybackBac + 0
        /\ w.owedTotal = bk.owedTotal + 0 /\ w.reservedTotal = bk.reservedTotal + 0
    BY <1>1, <1>2, <2>2
  <2> QED BY <1>6, <2>1, <2>3 DEF Changed
<1> QED BY <1>3, <1>5, <1>7

\* Each of the bridge's own steps.
LEMMA LocksMove == ASSUME SlowInv, LockBac PROVE \E e : BridgeMoves(e)
<1>1. vault \in SlowBooks /\ Owing(vault) /\ settledEpoch \in Nat
  BY DEF SlowInv
<1>2. PICK after, e :
         /\ after = In("lockedBac", Lot)
         /\ e = [kind |-> "locked", amount |-> Lot, leak |-> FALSE, epoch |-> settledEpoch', bucket |-> vault.buybackBac]
         /\ Took(e, after) /\ settledEpoch' = settledEpoch
  BY HappensTook, Zenon DEF LockBac, Shown
<1>3. Changed(vault, after, Lot, 0, 0, 0, 0, Lot)
  BY <1>1, <1>2, LotType, InBooks
<1>4. /\ vault.totalBurned + 0 <= vault.lockedBac + Lot /\ 0 <= vault.reservedTotal + 0
      /\ vault.reservedTotal + 0 <= vault.owedTotal + 0
      /\ vault.owedTotal + 0 <= vault.buybackBac + 0
  BY <1>1, LotType DEF Owing, SlowBooks
<1>5. e \in Happening /\ e.kind = "locked" /\ e.amount = Lot /\ e.leak = FALSE
  <2>1. settledEpoch' \in Nat /\ "locked" \in SlowKinds /\ Lot \in Nat /\ vault.buybackBac \in Nat
    BY <1>1, <1>2, LotType DEF SlowKinds, SlowBooks
  <2> QED BY <1>2, <2>1 DEF Happening
<1>6. 0 + 0 - 0 = 0 /\ Lot - 0 + (0 + 0 - 0) = Lot
  BY <1>1, LotType
<1>7. /\ OfKind(e, "locked") = Lot /\ OfKind(e, "burned") = 0 /\ OfKind(e, "bought") = 0
      /\ OfKind(e, "swept") = 0 /\ OfKind(e, "collected") = 0 /\ OfKind(e, "settled") = 0
  BY <1>5 DEF OfKind
<1>8. EventFits(e, after, Lot, 0, 0, 0, 0, 0, 0)
  BY <1>1, <1>3, <1>4, <1>5, <1>6, <1>7, LotType DEF EventFits, EventShape
<1> QED BY <1>2, <1>5, <1>8, ShownMoves

LEMMA BuysMove == ASSUME SlowInv, Buyback PROVE \E e : BridgeMoves(e)
<1>1. vault \in SlowBooks /\ Owing(vault) /\ settledEpoch \in Nat
  BY DEF SlowInv
<1>2. PICK after, e :
         /\ after = In("buybackBac", Lot)
         /\ e = [kind |-> "bought", amount |-> Lot, leak |-> FALSE, epoch |-> settledEpoch', bucket |-> vault.buybackBac]
         /\ Took(e, after) /\ settledEpoch' = settledEpoch
  BY HappensTook, Zenon DEF Buyback, Shown
<1>3. Changed(vault, after, 0, 0, Lot, 0, 0, Lot)
  BY <1>1, <1>2, LotType, InBooks
<1>4. /\ vault.totalBurned + 0 <= vault.lockedBac + 0 /\ 0 <= vault.reservedTotal + 0
      /\ vault.reservedTotal + 0 <= vault.owedTotal + 0
      /\ vault.owedTotal + 0 <= vault.buybackBac + Lot
  BY <1>1, LotType DEF Owing, SlowBooks
<1>5. e \in Happening /\ e.kind = "bought" /\ e.amount = Lot /\ e.leak = FALSE
  <2>1. settledEpoch' \in Nat /\ "bought" \in SlowKinds /\ Lot \in Nat /\ vault.buybackBac \in Nat
    BY <1>1, <1>2, LotType DEF SlowKinds, SlowBooks
  <2> QED BY <1>2, <2>1 DEF Happening
<1>6. Lot + 0 - 0 = Lot /\ 0 - 0 + (Lot + 0 - 0) = Lot
  BY <1>1, LotType
<1>7. /\ OfKind(e, "locked") = 0 /\ OfKind(e, "burned") = 0 /\ OfKind(e, "bought") = Lot
      /\ OfKind(e, "swept") = 0 /\ OfKind(e, "collected") = 0 /\ OfKind(e, "settled") = 0
  BY <1>5 DEF OfKind
<1>8. EventFits(e, after, 0, 0, Lot, 0, 0, 0, 0)
  BY <1>1, <1>3, <1>4, <1>5, <1>6, <1>7, LotType DEF EventFits, EventShape
<1> QED BY <1>2, <1>5, <1>8, ShownMoves

LEMMA SweepsMove == ASSUME SlowInv, SweepUntrackedBac PROVE \E e : BridgeMoves(e)
<1>1. vault \in SlowBooks /\ vault \in IntBooks /\ Owing(vault) /\ settledEpoch \in Nat
  BY DEF SlowInv, SlowBooks, IntBooks
<1>a. PICK n : n = vault.tokenBalance - bacAccounted /\ n = Surplus(vault) /\ n \in Nat /\ n > 0
  <2>1. Surplus(vault) \in Int /\ vault.tokenBalance - bacAccounted = Surplus(vault)
    BY <1>1, BooksInt DEF bacAccounted, Accounted, Surplus
  <2>2. vault.tokenBalance - bacAccounted > 0
    BY DEF SweepUntrackedBac
  <2> QED BY <2>1, <2>2
<1>2. PICK after, e :
         /\ after = Plus(vault, "buybackBac", n)
         /\ e = [kind |-> "swept", amount |-> n, leak |-> FALSE, epoch |-> settledEpoch', bucket |-> vault.buybackBac]
         /\ Took(e, after) /\ settledEpoch' = settledEpoch
  BY <1>a, HappensTook, Zenon DEF SweepUntrackedBac, Shown
<1>3. Changed(vault, after, 0, 0, n, 0, 0, 0)
  BY <1>1, <1>2, <1>a, OneBook
<1>4. /\ vault.totalBurned + 0 <= vault.lockedBac + 0 /\ 0 <= vault.reservedTotal + 0
      /\ vault.reservedTotal + 0 <= vault.owedTotal + 0
      /\ vault.owedTotal + 0 <= vault.buybackBac + n
  BY <1>1, <1>a DEF Owing, SlowBooks
<1>5. e \in Happening /\ e.kind = "swept" /\ e.amount = n /\ e.leak = FALSE
  <2>1. settledEpoch' \in Nat /\ "swept" \in SlowKinds /\ vault.buybackBac \in Nat
    BY <1>1, <1>2 DEF SlowKinds, SlowBooks
  <2> QED BY <1>2, <1>a, <2>1 DEF Happening
<1>6. 0 + n - 0 = n /\ -n \in Int /\ 0 = 0 - 0 + (0 + n - 0) + (-n) /\ n + (-n) >= 0
  BY <1>a
<1>7. /\ OfKind(e, "locked") = 0 /\ OfKind(e, "burned") = 0 /\ OfKind(e, "bought") = 0
      /\ OfKind(e, "swept") = n /\ OfKind(e, "collected") = 0 /\ OfKind(e, "settled") = 0
  BY <1>5 DEF OfKind
<1>8. Changed(vault, after, 0, 0, 0 + n - 0, 0, 0, 0) /\ vault.owedTotal + 0 <= vault.buybackBac + (0 + n - 0)
  BY <1>3, <1>4, <1>6
<1>9. {0, n} \subseteq Nat /\ {0} \subseteq Int /\ 0 <= n - 0
  BY <1>a
<1>10. EventShape(e, after, 0, 0, 0, n, 0, 0, 0, 0)
  BY ONLY <1>4, <1>5, <1>7, <1>8, <1>9, Zenon DEF EventShape
<1>11. PICK x : x = -n
  OBVIOUS
<1>12. /\ x \in Int /\ 0 = 0 - 0 + (0 + n - 0) + x
       /\ e.kind # "withdrawn" /\ Surplus(vault) >= 0 => Surplus(vault) + x >= 0
       /\ e.kind # "given" /\ Surplus(vault) < 0 => Surplus(vault) + x < 0
  BY <1>6, <1>11, <1>a
<1>13. 0 \in Int
  OBVIOUS
<1> QED BY <1>2, <1>5, <1>10, <1>12, <1>13, EventMoves

\* BAC that comes in, or is taken out by the owner, with no book of it.
LEMMA BalanceMoves ==
    ASSUME SlowInv, NEW kind \in {"given", "withdrawn"}, NEW n \in Int,
           kind = "given" => n >= 0, kind = "withdrawn" => n <= 0,
           Shown(kind, Lot, Plus(vault, "tokenBalance", n))
    PROVE  \E e : BridgeMoves(e)
<1>1. vault \in SlowBooks /\ vault \in IntBooks /\ Owing(vault) /\ settledEpoch \in Nat
  BY DEF SlowInv, SlowBooks, IntBooks
<1>2. PICK after, e :
         /\ after = Plus(vault, "tokenBalance", n)
         /\ e = [kind |-> kind, amount |-> Lot, leak |-> FALSE, epoch |-> settledEpoch', bucket |-> vault.buybackBac]
         /\ Took(e, after) /\ settledEpoch' = settledEpoch
  BY HappensTook, Zenon DEF Shown
<1>3. Changed(vault, after, 0, 0, 0, 0, 0, n)
  BY <1>1, <1>2, OneBook
<1>4. /\ vault.totalBurned + 0 <= vault.lockedBac + 0 /\ 0 <= vault.reservedTotal + 0
      /\ vault.reservedTotal + 0 <= vault.owedTotal + 0
      /\ vault.owedTotal + 0 <= vault.buybackBac + 0
  BY <1>1 DEF Owing, SlowBooks
<1>5. e \in Happening /\ e.kind = kind /\ e.amount = Lot /\ e.leak = FALSE
  <2>1. settledEpoch' \in Nat /\ kind \in SlowKinds /\ Lot \in Nat /\ vault.buybackBac \in Nat
    BY <1>1, <1>2, LotType DEF SlowKinds, SlowBooks
  <2> QED BY <1>2, <2>1 DEF Happening
<1>6. 0 + 0 - 0 = 0 /\ n = 0 - 0 + (0 + 0 - 0) + n
  OBVIOUS
<1>7. /\ OfKind(e, "locked") = 0 /\ OfKind(e, "burned") = 0 /\ OfKind(e, "bought") = 0
      /\ OfKind(e, "swept") = 0 /\ OfKind(e, "collected") = 0 /\ OfKind(e, "settled") = 0
  BY <1>5 DEF OfKind
<1>8. EventShape(e, after, 0, 0, 0, 0, 0, 0, 0, n)
  BY <1>1, <1>3, <1>4, <1>5, <1>6, <1>7 DEF EventShape
<1>9. Surplus(vault) \in Int
  BY <1>1, BooksInt
<1>10. /\ e.kind # "withdrawn" /\ Surplus(vault) >= 0 => Surplus(vault) + n >= 0
       /\ e.kind # "given" /\ Surplus(vault) < 0 => Surplus(vault) + n < 0
  BY <1>5, <1>9
<1> QED BY <1>2, <1>5, <1>6, <1>8, <1>10, EventMoves

LEMMA GiftsMove == ASSUME SlowInv, BacArrives PROVE \E e : BridgeMoves(e)
<1>1. PICK n : n = Lot /\ n \in Int /\ n >= 0
  BY LotType
<1>2. Shown("given", Lot, Plus(vault, "tokenBalance", n))
  BY <1>1 DEF BacArrives
<1> QED BY <1>1, <1>2, BalanceMoves

LEMMA WithdrawalsMove == ASSUME SlowInv, EmergencyWithdrawToken PROVE \E e : BridgeMoves(e)
<1>1. PICK n : n = -Lot /\ n \in Int /\ n <= 0
  BY LotType
<1>2. Shown("withdrawn", Lot, Plus(vault, "tokenBalance", n))
  BY <1>1 DEF EmergencyWithdrawToken
<1> QED BY <1>1, <1>2, BalanceMoves

LEMMA BurnsMove == ASSUME SlowInv, BurnLocked PROVE \E e : BridgeMoves(e)
<1>1. vault \in SlowBooks /\ Owing(vault) /\ settledEpoch \in Nat
  BY DEF SlowInv
<1>a. PICK n : n = vault.lockedBac - vault.totalBurned /\ n \in Nat
  BY <1>1 DEF Owing, SlowBooks
<1>2. PICK after, e :
         /\ after = Plus(Plus(vault, "totalBurned", n), "tokenBalance", -n)
         /\ e = [kind |-> "burned", amount |-> n, leak |-> FALSE, epoch |-> settledEpoch', bucket |-> vault.buybackBac]
         /\ Took(e, after) /\ settledEpoch' = settledEpoch
  BY <1>a, HappensTook, Zenon DEF BurnLocked, Shown
<1>3. Changed(vault, after, 0, n, 0, 0, 0, -n)
  <2>1. vault \in IntBooks /\ n \in Int /\ -n \in Int
    BY <1>1, <1>a DEF SlowBooks, IntBooks
  <2> QED BY <2>1, <1>2, TwoBooks
<1>4. /\ vault.totalBurned + n <= vault.lockedBac + 0 /\ 0 <= vault.reservedTotal + 0
      /\ vault.reservedTotal + 0 <= vault.owedTotal + 0
      /\ vault.owedTotal + 0 <= vault.buybackBac + 0
  BY <1>1, <1>a DEF Owing, SlowBooks
<1>5. e \in Happening /\ e.kind = "burned" /\ e.amount = n /\ e.leak = FALSE
  <2>1. settledEpoch' \in Nat /\ "burned" \in SlowKinds /\ n \in Nat /\ vault.buybackBac \in Nat
    BY <1>1, <1>2, <1>a DEF SlowKinds, SlowBooks
  <2> QED BY <1>2, <2>1 DEF Happening
<1>6. 0 + 0 - 0 = 0 /\ 0 - n + (0 + 0 - 0) = -n
  BY <1>1, <1>a
<1>7. /\ OfKind(e, "locked") = 0 /\ OfKind(e, "burned") = n /\ OfKind(e, "bought") = 0
      /\ OfKind(e, "swept") = 0 /\ OfKind(e, "collected") = 0 /\ OfKind(e, "settled") = 0
  BY <1>5 DEF OfKind
<1>8. EventFits(e, after, 0, n, 0, 0, 0, 0, 0)
  BY <1>1, <1>3, <1>4, <1>5, <1>6, <1>7, <1>a DEF EventFits, EventShape
<1> QED BY <1>2, <1>5, <1>8, ShownMoves

LEMMA ClaimsMove == ASSUME SlowInv, ClaimExit PROVE \E e : BridgeMoves(e)
<1>1. vault \in SlowBooks /\ Owing(vault) /\ settledEpoch \in Nat
  BY DEF SlowInv
<1>2. PICK after, e :
         /\ after = Plus(vault, "owedTotal", Lot)
         /\ e = [kind |-> "exit", amount |-> Lot, leak |-> FALSE, epoch |-> settledEpoch', bucket |-> vault.buybackBac]
         /\ Took(e, after) /\ settledEpoch' = settledEpoch
  BY HappensTook, Zenon DEF ClaimExit, Shown
<1>3. Changed(vault, after, 0, 0, 0, Lot, 0, 0)
  <2>1. vault \in IntBooks /\ Lot \in Int
    BY <1>1, LotType DEF SlowBooks, IntBooks
  <2> QED BY <2>1, <1>2, OneBook
<1>4. /\ vault.totalBurned + 0 <= vault.lockedBac + 0 /\ 0 <= vault.reservedTotal + 0
      /\ vault.reservedTotal + 0 <= vault.owedTotal + Lot
      /\ vault.owedTotal + Lot <= vault.buybackBac + 0
  <2>1. vault.owedTotal + Lot <= vault.buybackBac
    BY DEF ClaimExit
  <2> QED BY <1>1, <2>1, LotType DEF Owing, SlowBooks
<1>5. e \in Happening /\ e.kind = "exit" /\ e.amount = Lot /\ e.leak = FALSE
  <2>1. settledEpoch' \in Nat /\ "exit" \in SlowKinds /\ Lot \in Nat /\ vault.buybackBac \in Nat
    BY <1>1, <1>2, LotType DEF SlowKinds, SlowBooks
  <2> QED BY <1>2, <2>1 DEF Happening
<1>6. 0 + 0 - 0 = 0 /\ 0 - 0 + (0 + 0 - 0) = 0
  BY <1>1, LotType
<1>7. /\ OfKind(e, "locked") = 0 /\ OfKind(e, "burned") = 0 /\ OfKind(e, "bought") = 0
      /\ OfKind(e, "swept") = 0 /\ OfKind(e, "collected") = 0 /\ OfKind(e, "settled") = 0
  BY <1>5 DEF OfKind
<1>8. EventFits(e, after, 0, 0, 0, 0, 0, Lot, 0)
  BY <1>1, <1>3, <1>4, <1>5, <1>6, <1>7, LotType DEF EventFits, EventShape
<1> QED BY <1>2, <1>5, <1>8, ShownMoves

\* What a payment and a revocation do to the books.
LEMMA PaidBooks ==
    ASSUME NEW bk \in SlowBooks, NEW n \in Int, n = bk.reservedTotal, NEW r \in Int, r = -n
    PROVE  Changed(bk, [bk EXCEPT !.owedTotal = @ - n, !.reservedTotal = 0, !.buybackBac = @ - n, !.tokenBalance = @ - n],
                   0, 0, r, r, r, r)
<1>1. PICK w : w = [bk EXCEPT !.owedTotal = @ - n, !.reservedTotal = 0, !.buybackBac = @ - n, !.tokenBalance = @ - n]
  OBVIOUS
<1>2. /\ w \in IntBooks /\ w.lockedBac = bk.lockedBac /\ w.totalBurned = bk.totalBurned
      /\ w.buybackBac = bk.buybackBac - n /\ w.owedTotal = bk.owedTotal - n
      /\ w.reservedTotal = 0 /\ w.tokenBalance = bk.tokenBalance - n
  <2>1. bk \in IntBooks
    BY DEF SlowBooks, IntBooks
  <2>2. PICK x : x = [bk EXCEPT !.owedTotal = @ - n]
    OBVIOUS
  <2>3. PICK y : y = [x EXCEPT !.reservedTotal = 0]
    OBVIOUS
  <2>4. PICK z : z = [y EXCEPT !.buybackBac = @ - n]
    OBVIOUS
  <2>5. w = [z EXCEPT !.tokenBalance = @ - n]
    BY <1>1, <2>1, <2>2, <2>3, <2>4 DEF IntBooks
  <2>6. x \in IntBooks /\ x.owedTotal = bk.owedTotal - n /\ x.tokenBalance = bk.tokenBalance /\ x.buybackBac = bk.buybackBac
        /\ x.lockedBac = bk.lockedBac /\ x.totalBurned = bk.totalBurned
    BY <2>1, <2>2 DEF IntBooks
  <2>7. y \in IntBooks /\ y.owedTotal = x.owedTotal /\ y.tokenBalance = x.tokenBalance /\ y.buybackBac = x.buybackBac
        /\ y.lockedBac = x.lockedBac /\ y.totalBurned = x.totalBurned /\ y.reservedTotal = 0
    BY <2>3, <2>6 DEF IntBooks
  <2>8. z \in IntBooks /\ z.owedTotal = y.owedTotal /\ z.tokenBalance = y.tokenBalance /\ z.buybackBac = y.buybackBac - n
        /\ z.lockedBac = y.lockedBac /\ z.totalBurned = y.totalBurned /\ z.reservedTotal = y.reservedTotal
    BY <2>4, <2>7 DEF IntBooks
  <2>9. w \in IntBooks /\ w.owedTotal = z.owedTotal /\ w.tokenBalance = z.tokenBalance - n /\ w.buybackBac = z.buybackBac
        /\ w.lockedBac = z.lockedBac /\ w.totalBurned = z.totalBurned /\ w.reservedTotal = z.reservedTotal
    BY <2>5, <2>8 DEF IntBooks
  <2> QED BY ONLY <2>6, <2>7, <2>8, <2>9
<1>3. /\ bk.lockedBac \in Int /\ bk.totalBurned \in Int /\ bk.buybackBac \in Int
      /\ bk.owedTotal \in Int /\ bk.reservedTotal \in Int /\ bk.tokenBalance \in Int
  BY DEF SlowBooks
<1>4. Changed(bk, w, 0, 0, r, r, r, r)
  BY <1>2, <1>3 DEF Changed
<1> QED BY <1>1, <1>4

LEMMA RevokedBooks ==
    ASSUME NEW bk \in SlowBooks, NEW o \in Int, o = -bk.owedTotal, NEW r \in Int, r = -bk.reservedTotal
    PROVE  Changed(bk, [bk EXCEPT !.owedTotal = 0, !.reservedTotal = 0], 0, 0, 0, o, r, 0)
<1>1. PICK w : w = [bk EXCEPT !.owedTotal = 0, !.reservedTotal = 0]
  OBVIOUS
<1>2. /\ w \in IntBooks /\ w.lockedBac = bk.lockedBac /\ w.totalBurned = bk.totalBurned
      /\ w.buybackBac = bk.buybackBac /\ w.owedTotal = 0
      /\ w.reservedTotal = 0 /\ w.tokenBalance = bk.tokenBalance
  <2>1. bk \in IntBooks
    BY DEF SlowBooks, IntBooks
  <2>2. PICK x : x = [bk EXCEPT !.owedTotal = 0]
    OBVIOUS
  <2>3. w = [x EXCEPT !.reservedTotal = 0]
    BY <1>1, <2>1, <2>2 DEF IntBooks
  <2>4. x \in IntBooks
    BY <2>1, <2>2 DEF IntBooks
  <2>5. w \in IntBooks
    BY <2>3, <2>4 DEF IntBooks
  <2>6. w.lockedBac = bk.lockedBac /\ w.totalBurned = bk.totalBurned /\ w.buybackBac = bk.buybackBac
    BY <1>1, <2>1 DEF IntBooks
  <2>7. w.owedTotal = 0 /\ w.reservedTotal = 0 /\ w.tokenBalance = bk.tokenBalance
    BY <1>1, <2>1 DEF IntBooks
  <2> QED BY <2>5, <2>6, <2>7
<1>3. /\ bk.lockedBac \in Int /\ bk.totalBurned \in Int /\ bk.buybackBac \in Int
      /\ bk.owedTotal \in Int /\ bk.reservedTotal \in Int /\ bk.tokenBalance \in Int
  BY DEF SlowBooks
<1>4. Changed(bk, w, 0, 0, 0, o, r, 0)
  BY <1>2, <1>3 DEF Changed
<1> QED BY <1>1, <1>4

LEMMA CollectsMove == ASSUME SlowInv, Collect PROVE \E e : BridgeMoves(e)
<1>1. vault \in SlowBooks /\ Owing(vault) /\ settledEpoch \in Nat
  BY DEF SlowInv
<1>a. PICK n, r : n = vault.reservedTotal /\ n \in Nat /\ r = -n /\ r \in Int /\ r = 0 - n
  BY <1>1 DEF SlowBooks
<1>2. PICK after, e :
         /\ after = [vault EXCEPT !.owedTotal = @ - n, !.reservedTotal = 0, !.buybackBac = @ - n, !.tokenBalance = @ - n]
         /\ e = [kind |-> "collected", amount |-> n, leak |-> FALSE, epoch |-> settledEpoch', bucket |-> vault.buybackBac]
         /\ Took(e, after) /\ settledEpoch' = settledEpoch
  BY <1>a, HappensTook, Zenon DEF Collect, Shown
<1>3. Changed(vault, after, 0, 0, r, r, r, r)
  <2>1. vault \in SlowBooks /\ n \in Int /\ n = vault.reservedTotal /\ r \in Int /\ r = -n
    BY <1>1, <1>a
  <2> QED BY <1>2, <2>1, PaidBooks, Zenon
<1>4. /\ vault.totalBurned + 0 <= vault.lockedBac + 0 /\ 0 <= vault.reservedTotal + r
      /\ vault.reservedTotal + r <= vault.owedTotal + r
      /\ vault.owedTotal + r <= vault.buybackBac + r
  BY <1>1, <1>a DEF Owing, SlowBooks
<1>5. e \in Happening /\ e.kind = "collected" /\ e.amount = n /\ e.leak = FALSE
  <2>1. settledEpoch' \in Nat /\ "collected" \in SlowKinds /\ n \in Nat /\ vault.buybackBac \in Nat
    BY <1>1, <1>2, <1>a DEF SlowKinds, SlowBooks
  <2> QED BY <1>2, <2>1 DEF Happening
<1>6. 0 + 0 - n = r /\ 0 - 0 + (0 + 0 - n) = r
  BY <1>1, <1>a
<1>7. /\ OfKind(e, "locked") = 0 /\ OfKind(e, "burned") = 0 /\ OfKind(e, "bought") = 0
      /\ OfKind(e, "swept") = 0 /\ OfKind(e, "collected") = n /\ OfKind(e, "settled") = 0
  BY <1>5 DEF OfKind
<1>9. Changed(vault, after, 0, 0, 0 + 0 - n, r, r, 0 - 0 + (0 + 0 - n))
  BY <1>3, <1>6, Zenon
<1>10. {0, n} \subseteq Nat /\ {r} \subseteq Int /\ r = 0 - n
  BY <1>a
<1>11. vault.owedTotal + r <= vault.buybackBac + (0 + 0 - n)
  BY <1>4, <1>6
<1>8. EventFits(e, after, 0, 0, 0, 0, n, r, r)
  BY ONLY <1>4, <1>5, <1>7, <1>9, <1>10, <1>11, Zenon DEF EventFits, EventShape
<1> QED BY <1>2, <1>5, <1>8, ShownMoves

LEMMA RevokesMove == ASSUME SlowInv, RevokeEpochOwed PROVE \E e : BridgeMoves(e)
<1>1. vault \in SlowBooks /\ Owing(vault) /\ settledEpoch \in Nat
  BY DEF SlowInv
<1>a. PICK n, o, r :
         /\ n = vault.owedTotal /\ n \in Nat /\ o = -vault.owedTotal /\ o \in Int
         /\ r = -vault.reservedTotal /\ r \in Int /\ r <= 0
  BY <1>1 DEF SlowBooks
<1>2. PICK after, e :
         /\ after = [vault EXCEPT !.owedTotal = 0, !.reservedTotal = 0]
         /\ e = [kind |-> "revoked", amount |-> n, leak |-> FALSE, epoch |-> settledEpoch', bucket |-> vault.buybackBac]
         /\ Took(e, after) /\ settledEpoch' = settledEpoch
  BY <1>a, HappensTook, Zenon DEF RevokeEpochOwed, Shown
<1>3. Changed(vault, after, 0, 0, 0, o, r, 0)
  BY <1>1, <1>2, <1>a, RevokedBooks
<1>4. /\ vault.totalBurned + 0 <= vault.lockedBac + 0 /\ 0 <= vault.reservedTotal + r
      /\ vault.reservedTotal + r <= vault.owedTotal + o
      /\ vault.owedTotal + o <= vault.buybackBac + 0
  BY <1>1, <1>a DEF Owing, SlowBooks
<1>5. e \in Happening /\ e.kind = "revoked" /\ e.amount = n /\ e.leak = FALSE
  <2>1. settledEpoch' \in Nat /\ "revoked" \in SlowKinds /\ n \in Nat /\ vault.buybackBac \in Nat
    BY <1>1, <1>2, <1>a DEF SlowKinds, SlowBooks
  <2> QED BY <1>2, <2>1 DEF Happening
<1>6. 0 + 0 - 0 = 0 /\ 0 - 0 + (0 + 0 - 0) = 0
  BY <1>1, <1>a
<1>7. /\ OfKind(e, "locked") = 0 /\ OfKind(e, "burned") = 0 /\ OfKind(e, "bought") = 0
      /\ OfKind(e, "swept") = 0 /\ OfKind(e, "collected") = 0 /\ OfKind(e, "settled") = 0
  BY <1>5 DEF OfKind
<1>8. EventFits(e, after, 0, 0, 0, 0, 0, o, r)
  BY <1>1, <1>3, <1>4, <1>5, <1>6, <1>7, <1>a DEF EventFits, EventShape
<1> QED BY <1>2, <1>5, <1>8, ShownMoves

\* A settlement, an honest one or one with more than is allowed.
Pot(e, after, leak, extra) ==
    /\ e = [kind |-> "settled", amount |-> e.amount, leak |-> leak, epoch |-> settledEpoch', bucket |-> vault.buybackBac]
    /\ Took(e, after) /\ settledEpoch' = settledEpoch + 1 /\ settledEpoch + 1 <= wallEpoch
    /\ e.amount \in Nat /\ e.amount <= potAllowed(FreeIn(vault)) + extra
    /\ Changed(vault, after, 0, 0, 0, 0, e.amount, 0)
    /\ vault.reservedTotal + e.amount <= vault.owedTotal

LEMMA FreeAllows ==
    ASSUME SlowInv
    PROVE  /\ FreeIn(vault) \in Int /\ potAllowed(FreeIn(vault)) \in Nat
           /\ potAllowed(FreeIn(vault)) <= vault.buybackBac \div RELEASE_PART
<1>1. vault \in SlowBooks
  BY DEF SlowInv
<1>2. vault.buybackBac \in Nat /\ FreeIn(vault) \in Int /\ FreeIn(vault) <= vault.buybackBac
  BY <1>1 DEF SlowBooks, FreeIn
<1>3. PICK x \in Int, y \in Int : x = FreeIn(vault) /\ y = vault.buybackBac /\ x <= y /\ y \in Nat
  BY <1>2
<1>4. potAllowed(x) \in Nat /\ potAllowed(x) <= potAllowed(y) /\ (y \in Nat => potAllowed(y) = y \div RELEASE_PART)
  BY ONLY <1>3, AllowedGrows
<1> QED BY <1>2, <1>3, <1>4

LEMMA SettlesPot ==
    ASSUME SlowInv, NEW leak, NEW extra \in Nat, Settles(leak, extra)
    PROVE  \E e, after :
              /\ Pot(e, after, leak, extra)
              /\ vault.owedTotal - vault.reservedTotal >= potAllowed(FreeIn(vault)) + extra
                    => e.amount = potAllowed(FreeIn(vault)) + extra
<1>1. vault \in SlowBooks /\ Owing(vault) /\ settledEpoch \in Nat /\ wallEpoch \in Nat
  BY DEF SlowInv
<1>2. PICK a, b, pot :
         /\ a = potAllowed(vault.buybackBac - vault.reservedTotal) + extra /\ b = vault.owedTotal - vault.reservedTotal
         /\ pot = Min({a, b})
  OBVIOUS
<1>3. a = potAllowed(FreeIn(vault)) + extra /\ a \in Nat /\ b \in Nat
  <2>1. FreeIn(vault) = vault.buybackBac - vault.reservedTotal
    BY DEF FreeIn
  <2>2. a = potAllowed(FreeIn(vault)) + extra
    BY <1>2, <2>1
  <2>3. b \in Nat
    BY <1>1, <1>2 DEF SlowBooks, Owing
  <2> QED BY <2>2, <2>3, FreeAllows
<1>4. pot = IF a <= b THEN a ELSE b
  BY <1>2, <1>3, MinOfTwo
<1>5. pot \in Nat /\ pot <= a /\ pot <= b
  BY <1>3, <1>4
<1>6. PICK after : after = IF vault.owedTotal = 0 THEN [vault EXCEPT !.reservedTotal = 0] ELSE Plus(vault, "reservedTotal", pot)
  OBVIOUS
<1>7. settledEpoch < wallEpoch /\ settledEpoch' = settledEpoch + 1 /\ Happens("settled", pot, leak, after)
  BY <1>2, <1>6, Zenon DEF Settles
<1>8. PICK e : e = [kind |-> "settled", amount |-> pot, leak |-> leak, epoch |-> settledEpoch', bucket |-> vault.buybackBac]
  OBVIOUS
<1>9. Took(e, after)
  BY <1>7, <1>8, HappensTook, Zenon
<1>10. e.amount = pot
  BY <1>8
<1>11. Changed(vault, after, 0, 0, 0, 0, pot, 0)
  <2>1. CASE vault.owedTotal = 0
    <3>1. vault.reservedTotal = 0 /\ b = 0
      BY <1>1, <1>2, <2>1 DEF Owing, SlowBooks
    <3>2. pot = 0
      BY <1>3, <1>4, <3>1
    <3>3. after = [vault EXCEPT !.reservedTotal = 0]
      BY <1>6, <2>1
    <3>4. Changed(vault, after, 0, 0, 0, 0, 0, 0)
      BY <1>1, <3>1, <3>3 DEF Changed, SlowBooks, IntBooks
    <3> QED BY <3>2, <3>4
  <2>2. CASE vault.owedTotal # 0
    <3>1. vault \in IntBooks /\ pot \in Int
      BY <1>1, <1>5 DEF SlowBooks, IntBooks
    <3>2. after = Plus(vault, "reservedTotal", pot)
      BY <1>6, <2>2
    <3> QED BY <3>1, <3>2, OneBook
  <2> QED BY <2>1, <2>2
<1>12. vault.reservedTotal + pot <= vault.owedTotal
  BY <1>1, <1>2, <1>5 DEF SlowBooks
<1>13. settledEpoch + 1 <= wallEpoch
  BY <1>1, <1>7
<1>14. Pot(e, after, leak, extra)
  BY <1>3, <1>5, <1>7, <1>8, <1>9, <1>10, <1>11, <1>12, <1>13 DEF Pot
<1>15. b >= a => e.amount = a
  BY <1>3, <1>4, <1>10
<1> QED BY <1>2, <1>3, <1>14, <1>15

\* The books after a settlement.
LEMMA PotBooks ==
    ASSUME SlowInv, NEW e, NEW after, NEW leak, NEW extra \in Nat, Pot(e, after, leak, extra)
    PROVE  /\ after \in SlowBooks /\ Owing(after) /\ Surplus(after) = Surplus(vault)
           /\ FreeIn(after) = FreeIn(vault) - e.amount
           /\ after.lockedBac = vault.lockedBac /\ after.totalBurned = vault.totalBurned /\ after.buybackBac = vault.buybackBac
<1>1. vault \in SlowBooks /\ Owing(vault)
  BY DEF SlowInv
<1>2. PICK n \in Int : n = e.amount /\ n >= 0
  BY DEF Pot
<1>3. Changed(vault, after, 0, 0, 0, 0, n, 0) /\ vault.reservedTotal + n <= vault.owedTotal
  BY <1>2 DEF Pot
<1>4. /\ vault.totalBurned + 0 <= vault.lockedBac + 0 /\ 0 <= vault.reservedTotal + n
      /\ vault.reservedTotal + n <= vault.owedTotal + 0 /\ vault.owedTotal + 0 <= vault.buybackBac + 0
  BY <1>1, <1>2, <1>3 DEF Owing, SlowBooks
<1>5. 0 \in Int /\ 0 >= 0
  OBVIOUS
<1>6. /\ after \in SlowBooks /\ Owing(after) /\ Surplus(after) = Surplus(vault) + (0 - (0 - 0 + 0))
      /\ FreeIn(after) = FreeIn(vault) + (0 - n)
  BY ONLY <1>1, <1>2, <1>3, <1>4, <1>5, ChangedBooks
<1>7. Surplus(vault) \in Int /\ FreeIn(vault) \in Int
  BY <1>1, BooksInt
<1>8. /\ after.lockedBac = vault.lockedBac /\ after.totalBurned = vault.totalBurned /\ after.buybackBac = vault.buybackBac
  BY <1>1, <1>3 DEF Changed, SlowBooks
<1>9. Surplus(after) = Surplus(vault) /\ FreeIn(after) = FreeIn(vault) - n
  BY <1>2, <1>6, <1>7
<1> QED BY <1>2, <1>6, <1>8, <1>9

LEMMA PotHappening ==
    ASSUME SlowInv, NEW e, NEW after, NEW leak \in BOOLEAN, NEW extra, Pot(e, after, leak, extra)
    PROVE  e \in Happening /\ e.kind = "settled" /\ e.leak = leak /\ e.epoch = settledEpoch' /\ e.bucket = vault.buybackBac
<1>1. PICK n, s, b : n = e.amount /\ s = settledEpoch' /\ b = vault.buybackBac
  OBVIOUS
<1>2. n \in Nat /\ s \in Nat /\ b \in Nat
  BY <1>1 DEF Pot, SlowInv, SlowBooks
<1>3. e = [kind |-> "settled", amount |-> n, leak |-> leak, epoch |-> s, bucket |-> b]
  BY <1>1, Zenon DEF Pot
<1> HIDE DEF SlowInv
<1>4. e \in Happening
  BY <1>2, <1>3 DEF Happening, SlowKinds
<1> QED BY <1>1, <1>3, <1>4

LEMMA SettlesRight == ASSUME SlowInv, SettleEpoch PROVE \E e : BridgeMoves(e)
<1>1. PICK e, after : Pot(e, after, FALSE, 0)
  BY SettlesPot, Zenon DEF SettleEpoch
<1>2. /\ after \in SlowBooks /\ Owing(after) /\ Surplus(after) = Surplus(vault)
      /\ FreeIn(after) = FreeIn(vault) - e.amount
      /\ after.lockedBac = vault.lockedBac /\ after.totalBurned = vault.totalBurned /\ after.buybackBac = vault.buybackBac
  BY <1>1, PotBooks
<1>3. /\ e \in Happening /\ e.kind = "settled" /\ e.leak = FALSE /\ e.epoch = settledEpoch' /\ e.bucket = vault.buybackBac
  BY <1>1, PotHappening
<1>4. /\ vault' = after /\ stretch' = Append(stretch, e) /\ wallEpoch' = wallEpoch /\ shadow' = shadow /\ alarm' = alarm /\ failures' = failures
      /\ settledEpoch' = settledEpoch + 1 /\ settledEpoch + 1 <= wallEpoch
      /\ e.amount \in Nat /\ e.amount <= potAllowed(FreeIn(vault)) + 0
  BY <1>1 DEF Pot, Took
<1>5. /\ FreeIn(vault) \in Int /\ potAllowed(FreeIn(vault)) \in Nat
      /\ potAllowed(FreeIn(vault)) <= vault.buybackBac \div RELEASE_PART
  BY FreeAllows
<1>6. settledEpoch \in Nat
  BY DEF SlowInv
<1>7. /\ vault.lockedBac \in Int /\ vault.totalBurned \in Int /\ vault.buybackBac \in Nat
  BY DEF SlowInv, SlowBooks
<1>8. /\ OfKind(e, "locked") = 0 /\ OfKind(e, "burned") = 0 /\ OfKind(e, "bought") = 0
      /\ OfKind(e, "swept") = 0 /\ OfKind(e, "collected") = 0 /\ OfKind(e, "settled") = e.amount
  BY <1>3 DEF OfKind
<1>9. e.amount <= potAllowed(FreeIn(vault)) /\ e.amount \in Int
  BY <1>4, <1>5
<1>10. MovedSeen(vault, after, e)
  BY ONLY <1>2, <1>3, <1>5, <1>7, <1>8, <1>9 DEF MovedSeen
<1>11. vault.buybackBac \div RELEASE_PART \in Int
  <2>1. PICK x \in Nat, y \in Nat \ {0} : x = vault.buybackBac /\ y = RELEASE_PART
    BY <1>7, SlowSizes
  <2>2. x \div y \in Int
    BY <2>1
  <2> QED BY <2>1, <2>2
<1>12. e.amount <= e.bucket \div RELEASE_PART
  BY <1>3, <1>5, <1>9, <1>11
<1>13. settledEpoch' \in Nat /\ settledEpoch <= settledEpoch' /\ settledEpoch' <= wallEpoch /\ e.epoch <= settledEpoch'
  BY <1>3, <1>4, <1>6
<1> QED BY <1>2, <1>3, <1>4, <1>10, <1>12, <1>13 DEF BridgeMoves

\* A leak moves what the events do not show, or is a settlement of too much.
LEMMA UnseenMoves ==
    ASSUME SlowInv, ~Leaked, NEW kind \in {"nothing", "taken"}, NEW e,
           e = [kind |-> kind, amount |-> 0, leak |-> TRUE, epoch |-> settledEpoch', bucket |-> vault.buybackBac],
           NEW after, Took(e, after), settledEpoch' = settledEpoch,
           NEW locked \in Int, NEW bucket \in Int, NEW netIn \in Int,
           Changed(vault, after, locked, 0, bucket, 0, 0, netIn),
           vault.totalBurned <= vault.lockedBac + locked, vault.owedTotal <= vault.buybackBac + bucket,
           kind = "nothing" => locked # 0 \/ bucket # 0,
           kind = "taken" => Surplus(vault) + (netIn - (locked + bucket)) < 0
    PROVE  BridgeMoves(e)
<1>1. /\ vault' = after /\ stretch' = Append(stretch, e) /\ wallEpoch' = wallEpoch /\ shadow' = shadow /\ alarm' = alarm /\ failures' = failures
  BY DEF Took
<1>2. vault \in SlowBooks /\ Owing(vault) /\ settledEpoch \in Nat /\ settledEpoch <= wallEpoch
  BY DEF SlowInv
<1>3. /\ vault.totalBurned + 0 <= vault.lockedBac + locked /\ 0 <= vault.reservedTotal + 0
      /\ vault.reservedTotal + 0 <= vault.owedTotal + 0 /\ vault.owedTotal + 0 <= vault.buybackBac + bucket
  BY <1>2 DEF Owing, SlowBooks
<1>4. 0 \in Int /\ 0 >= 0
  OBVIOUS
<1>5. /\ after \in SlowBooks /\ Owing(after) /\ Surplus(after) = Surplus(vault) + (netIn - (locked - 0 + bucket))
  BY ONLY <1>2, <1>3, <1>4, locked \in Int, bucket \in Int, netIn \in Int,
          Changed(vault, after, locked, 0, bucket, 0, 0, netIn), ChangedBooks
<1>6. Surplus(vault) \in Int /\ vault.lockedBac \in Int /\ vault.buybackBac \in Int
  BY <1>2, BooksInt
<1>7. kind = "taken" => Surplus(after) < 0
  BY <1>5, <1>6
<1>8. after.lockedBac = vault.lockedBac + locked /\ after.buybackBac = vault.buybackBac + bucket
  BY DEF Changed
<1>9. e \in Happening /\ e.kind = kind /\ e.leak = TRUE
  <2>1. settledEpoch' \in Nat /\ kind \in SlowKinds /\ vault.buybackBac \in Nat /\ 0 \in Nat
    BY <1>2 DEF SlowKinds, SlowBooks
  <2> QED BY <2>1 DEF Happening
<1>10. MovedUnseen(vault, after, e)
  BY <1>6, <1>7, <1>8, <1>9 DEF MovedUnseen
<1>11. ~LeakUpTo(stretch, Len(stretch))
  <2>1. DOMAIN stretch = 1..Len(stretch)
    BY DEF SlowInv
  <2> QED BY <2>1 DEF Leaked, LeakUpTo
<1>12. settledEpoch' \in Nat /\ settledEpoch <= settledEpoch' /\ settledEpoch' <= wallEpoch
  BY <1>2
<1> QED BY <1>1, <1>5, <1>9, <1>10, <1>11, <1>12 DEF BridgeMoves

LEMMA MovedBooks ==
    ASSUME NEW bk \in IntBooks, NEW n \in Int, NEW m \in Int
    PROVE  Changed(bk, Plus(Plus(bk, "lockedBac", n), "buybackBac", m), n, 0, m, 0, 0, 0)
<1>1. /\ bk.lockedBac \in Int /\ bk.totalBurned \in Int /\ bk.buybackBac \in Int
      /\ bk.owedTotal \in Int /\ bk.reservedTotal \in Int /\ bk.tokenBalance \in Int
  BY DEF IntBooks
<1>2. (\A i \in Int : i + 0 = i) /\ {"lockedBac", "buybackBac"} \subseteq BookNames
  BY DEF BookNames
<1>3. PICK x : x = Plus(bk, "lockedBac", n)
  OBVIOUS
<1>4. x \in IntBooks /\ x["lockedBac"] = bk["lockedBac"] + n /\ \A g \in BookNames : g # "lockedBac" => x[g] = bk[g]
  BY <1>2, <1>3, PlusBooks
<1>5. PICK w : w = Plus(x, "buybackBac", m)
  OBVIOUS
<1>6. w \in IntBooks /\ w["buybackBac"] = x["buybackBac"] + m /\ \A g \in BookNames : g # "buybackBac" => w[g] = x[g]
  BY <1>2, <1>4, <1>5, PlusBooks
<1>7. Changed(bk, w, n, 0, m, 0, 0, 0)
  <2>1. w.lockedBac = bk.lockedBac + n /\ w.buybackBac = bk.buybackBac + m
    BY <1>4, <1>6 DEF BookNames
  <2>2. /\ w.totalBurned = bk.totalBurned /\ w.owedTotal = bk.owedTotal
        /\ w.reservedTotal = bk.reservedTotal /\ w.tokenBalance = bk.tokenBalance
    BY <1>4, <1>6 DEF BookNames
  <2>3. /\ w.totalBurned = bk.totalBurned + 0 /\ w.owedTotal = bk.owedTotal + 0
        /\ w.reservedTotal = bk.reservedTotal + 0 /\ w.tokenBalance = bk.tokenBalance + 0
    BY <1>1, <1>2, <2>2
  <2> QED BY <1>6, <2>1, <2>3 DEF Changed
<1> QED BY <1>3, <1>5, <1>7

LEMMA LeaksMove == ASSUME SlowInv, Leak PROVE \E e : BridgeMoves(e)
<1>0. ~Leaked
  BY DEF Leak
<1>1. vault \in SlowBooks /\ vault \in IntBooks /\ Owing(vault) /\ settledEpoch \in Nat
  BY DEF SlowInv, SlowBooks, IntBooks
<1>2. PICK n : n = -Lot /\ n \in Int /\ n < 0 /\ Lot \in Int /\ Lot + n = 0
  BY LotType
<1>3. /\ vault.lockedBac \in Int /\ vault.totalBurned \in Int /\ vault.buybackBac \in Int
      /\ vault.owedTotal \in Int
  BY <1>1 DEF SlowBooks
<1>4. ASSUME NEW kind, NEW b, Leaks(kind, b)
      PROVE  \E e : /\ e = [kind |-> kind, amount |-> 0, leak |-> TRUE, epoch |-> settledEpoch', bucket |-> vault.buybackBac]
                    /\ Took(e, b) /\ settledEpoch' = settledEpoch
  BY <1>4, HappensTook, Zenon DEF Leaks
<1>5. CASE vault.lockedBac - vault.totalBurned >= Lot /\ Leaks("nothing", In("lockedBac", -Lot))
  <2>1. PICK after, e :
           /\ after = In("lockedBac", n) /\ Took(e, after) /\ settledEpoch' = settledEpoch
           /\ e = [kind |-> "nothing", amount |-> 0, leak |-> TRUE, epoch |-> settledEpoch', bucket |-> vault.buybackBac]
    BY <1>2, <1>4, <1>5
  <2>2. Changed(vault, after, n, 0, 0, 0, 0, n)
    BY <1>1, <1>2, <2>1, InBooks
  <2>3. /\ vault.totalBurned <= vault.lockedBac + n /\ vault.owedTotal <= vault.buybackBac + 0 /\ n # 0
        /\ 0 \in Int /\ n \in Int
    BY <1>1, <1>2, <1>3, <1>5 DEF Owing
  <2>4. BridgeMoves(e)
    BY ONLY SlowInv, <1>0, <2>1, <2>2, <2>3, "nothing" # "taken", UnseenMoves
  <2> QED BY <2>4
<1>6. CASE vault.buybackBac - vault.owedTotal >= Lot /\ Leaks("nothing", In("buybackBac", -Lot))
  <2>1. PICK after, e :
           /\ after = In("buybackBac", n) /\ Took(e, after) /\ settledEpoch' = settledEpoch
           /\ e = [kind |-> "nothing", amount |-> 0, leak |-> TRUE, epoch |-> settledEpoch', bucket |-> vault.buybackBac]
    BY <1>2, <1>4, <1>6
  <2>2. Changed(vault, after, 0, 0, n, 0, 0, n)
    BY <1>1, <1>2, <2>1, InBooks
  <2>3. /\ vault.totalBurned <= vault.lockedBac + 0 /\ vault.owedTotal <= vault.buybackBac + n /\ n # 0
        /\ 0 \in Int /\ n \in Int
    BY <1>1, <1>2, <1>3, <1>6 DEF Owing
  <2>4. BridgeMoves(e)
    BY ONLY SlowInv, <1>0, <2>1, <2>2, <2>3, "nothing" # "taken", UnseenMoves
  <2> QED BY <2>4
<1>7. CASE /\ vault.lockedBac - vault.totalBurned >= Lot
           /\ Leaks("nothing", Plus(Plus(vault, "lockedBac", -Lot), "buybackBac", Lot))
  <2>1. PICK after, e :
           /\ after = Plus(Plus(vault, "lockedBac", n), "buybackBac", Lot) /\ Took(e, after) /\ settledEpoch' = settledEpoch
           /\ e = [kind |-> "nothing", amount |-> 0, leak |-> TRUE, epoch |-> settledEpoch', bucket |-> vault.buybackBac]
    BY <1>2, <1>4, <1>7
  <2>2. Changed(vault, after, n, 0, Lot, 0, 0, 0)
    BY <1>1, <1>2, <2>1, MovedBooks
  <2>3. /\ vault.totalBurned <= vault.lockedBac + n /\ vault.owedTotal <= vault.buybackBac + Lot /\ n # 0
        /\ 0 \in Int /\ n \in Int /\ Lot \in Int
    BY <1>1, <1>2, <1>3, <1>7 DEF Owing
  <2>4. BridgeMoves(e)
    BY ONLY SlowInv, <1>0, <2>1, <2>2, <2>3, "nothing" # "taken", UnseenMoves
  <2> QED BY <2>4
<1>8. CASE /\ bacAccounted > vault.tokenBalance - Lot
           /\ Leaks("taken", Plus(vault, "tokenBalance", -Lot))
  <2>1. PICK after, e :
           /\ after = Plus(vault, "tokenBalance", n) /\ Took(e, after) /\ settledEpoch' = settledEpoch
           /\ e = [kind |-> "taken", amount |-> 0, leak |-> TRUE, epoch |-> settledEpoch', bucket |-> vault.buybackBac]
    BY <1>2, <1>4, <1>8
  <2>2. Changed(vault, after, 0, 0, 0, 0, 0, n)
    BY <1>1, <1>2, <2>1, OneBook
  <2>3. /\ vault.totalBurned <= vault.lockedBac + 0 /\ vault.owedTotal <= vault.buybackBac + 0 /\ Surplus(vault) + (n - (0 + 0)) < 0
        /\ 0 \in Int /\ n \in Int
    <3>1. PICK x \in Int, y \in Int : x = vault.tokenBalance /\ y = bacAccounted
      BY <1>1, <1>3 DEF bacAccounted, Accounted, IntBooks
    <3>2. y > x - Lot /\ Surplus(vault) = x - y
      BY <1>8, <3>1 DEF bacAccounted, Accounted, Surplus
    <3> QED BY <1>1, <1>2, <1>3, <3>1, <3>2 DEF Owing
  <2>4. BridgeMoves(e)
    BY ONLY SlowInv, <1>0, <2>1, <2>2, <2>3, "nothing" # "taken", UnseenMoves
  <2> QED BY <2>4
<1>9. CASE /\ vault.owedTotal - vault.reservedTotal >= potAllowed(vault.buybackBac - vault.reservedTotal) + Lot
           /\ Settles(TRUE, Lot)
  <2>0. Lot \in Nat /\ vault.owedTotal - vault.reservedTotal >= potAllowed(FreeIn(vault)) + Lot
    BY <1>9, LotType DEF FreeIn
  <2>1. PICK e, after : Pot(e, after, TRUE, Lot) /\ e.amount = potAllowed(FreeIn(vault)) + Lot
    BY <1>9, <2>0, SettlesPot
  <2>2. /\ after \in SlowBooks /\ Owing(after) /\ Surplus(after) = Surplus(vault)
    BY <2>0, <2>1, PotBooks
  <2>3. /\ e \in Happening /\ e.kind = "settled" /\ e.leak = TRUE /\ e.epoch = settledEpoch'
    BY <2>1, PotHappening
  <2>4. /\ vault' = after /\ stretch' = Append(stretch, e) /\ wallEpoch' = wallEpoch /\ shadow' = shadow /\ alarm' = alarm /\ failures' = failures
        /\ settledEpoch' = settledEpoch + 1 /\ settledEpoch + 1 <= wallEpoch
    BY <2>1 DEF Pot, Took
  <2>5. potAllowed(FreeIn(vault)) \in Nat
    BY FreeAllows
  <2>6. e.amount > potAllowed(FreeIn(vault)) + 1
    BY <2>1, <2>5, LotType
  <2>7. Surplus(vault) \in Int
    BY <1>1, BooksInt
  <2>8. MovedUnseen(vault, after, e)
    BY ONLY <2>2, <2>3, <2>6, <2>7 DEF MovedUnseen
  <2>9. ~LeakUpTo(stretch, Len(stretch))
    <3>1. DOMAIN stretch = 1..Len(stretch)
      BY DEF SlowInv
    <3> QED BY <1>0, <3>1 DEF Leaked, LeakUpTo
  <2>10. settledEpoch' \in Nat /\ settledEpoch <= settledEpoch' /\ settledEpoch' <= wallEpoch /\ e.epoch <= settledEpoch'
    BY <1>1, <2>3, <2>4
  <2>11. BridgeMoves(e)
    BY <2>2, <2>3, <2>4, <2>8, <2>9, <2>10 DEF BridgeMoves
  <2> QED BY <2>11
<1> QED BY <1>5, <1>6, <1>7, <1>8, <1>9, Zenon DEF Leak

BridgeSteps ==
    \/ LockBac \/ Buyback \/ BacArrives \/ SweepUntrackedBac \/ BurnLocked \/ EmergencyWithdrawToken
    \/ ClaimExit \/ Collect \/ RevokeEpochOwed \/ SettleEpoch \/ Leak

LEMMA BridgeStepsMove == ASSUME SlowInv, BridgeSteps PROVE \E e : BridgeMoves(e)
BY LocksMove, BuysMove, GiftsMove, SweepsMove, BurnsMove, WithdrawalsMove, ClaimsMove, CollectsMove, RevokesMove,
   SettlesRight, LeaksMove, Zenon DEF BridgeSteps

-----------------------------------------------------------------------------
\* The log a tick leaves.
FreshRow(e, j) ==
    /\ j \in 1..Len(stretch) /\ stretch[j].kind = "settled" /\ stretch[j].epoch = e
    /\ release_log[e] = Row(stretch[j].amount, wallEpoch, stretch[j].leak, stretch[j].bucket > vault.buybackBac)

LEMMA LogRows ==
    ASSUME SlowInv, NEW e \in SettledEpochs
    PROVE  release_log[e] = shadow.release_log[e] \/ \E j : FreshRow(e, j)
<1>1. CASE \E j \in Settlements : stretch[j].epoch = e
  <2>1. PICK j : j = CHOOSE i \in Settlements : stretch[i].epoch = e
    OBVIOUS
  <2>2. j \in Settlements /\ stretch[j].epoch = e
    BY <1>1, <2>1, Zenon
  <2>3. release_log[e] = Row(stretch[j].amount, wallEpoch, stretch[j].leak, stretch[j].bucket > vault.buybackBac)
    BY <1>1, <2>1, Zenon DEF release_log
  <2>4. DOMAIN stretch = 1..Len(stretch)
    BY DEF SlowInv
  <2>5. j \in 1..Len(stretch) /\ stretch[j].kind = "settled"
    BY <2>2, <2>4 DEF Settlements
  <2> QED BY <2>2, <2>3, <2>5 DEF FreshRow
<1>2. CASE ~\E j \in Settlements : stretch[j].epoch = e
  BY <1>2, Zenon DEF release_log
<1> QED BY <1>1, <1>2

LEMMA FreshRowFields ==
    ASSUME SlowInv, NEW e \in SettledEpochs, NEW j, FreshRow(e, j)
    PROVE  /\ release_log[e] \in LogRow
           /\ release_log[e].pot = stretch[j].amount /\ release_log[e].at = wallEpoch
           /\ release_log[e].leak <=> stretch[j].leak
           /\ release_log[e].shrunk <=> stretch[j].bucket > vault.buybackBac
           /\ e <= settledEpoch
           /\ stretch[j].leak \/ stretch[j].amount <= stretch[j].bucket \div RELEASE_PART
           /\ stretch[j].bucket \in Nat
<1>1. j \in 1..Len(stretch) /\ stretch[j].kind = "settled" /\ stretch[j].epoch = e
  BY DEF FreshRow
<1>2. stretch[j] \in Happening /\ wallEpoch \in Nat
  BY <1>1 DEF SlowInv
<1>3. PICK n, l, b : n = stretch[j].amount /\ l = stretch[j].leak /\ b = stretch[j].bucket
  OBVIOUS
<1>4. n \in Nat /\ l \in BOOLEAN /\ b \in Nat
  BY <1>2, <1>3 DEF Happening
<1>5. e <= settledEpoch /\ (l \/ n <= b \div RELEASE_PART)
  BY <1>1, <1>3 DEF SlowInv, LogOf
<1>6. PICK c \in BOOLEAN : c <=> b > vault.buybackBac
  OBVIOUS
<1>7. PICK r : r = release_log[e]
  OBVIOUS
<1>8. r = [pot |-> n, at |-> wallEpoch, leak |-> l, shrunk |-> c]
  <2>1. r = [pot |-> n, at |-> wallEpoch, leak |-> l, shrunk |-> (b > vault.buybackBac)]
    BY <1>3, <1>7, Zenon DEF FreshRow, Row
  <2>2. (b > vault.buybackBac) = c
    BY <1>6
  <2> QED BY <2>1, <2>2, Zenon
<1>9. r \in LogRow
  BY <1>2, <1>4, <1>8 DEF LogRow
<1>10. r.pot = n /\ r.at = wallEpoch /\ r.leak = l /\ r.shrunk = c
  BY <1>8
<1> QED BY <1>3, <1>4, <1>5, <1>6, <1>7, <1>9, <1>10

LEMMA BaseGrows ==
    ASSUME SlowInv
    PROVE  /\ rollBase \in Nat /\ shadow.roll_base \in Nat /\ vault.buybackBac \in Nat
           /\ shadow.roll_base \div RELEASE_PART <= rollBase \div RELEASE_PART
           /\ vault.buybackBac \div RELEASE_PART <= rollBase \div RELEASE_PART
           /\ rollBase \div RELEASE_PART \in Nat
           /\ shadow.roll_base \div RELEASE_PART \in Nat
<1>1. PICK a \in Nat, b \in Nat : a = shadow.roll_base /\ b = vault.buybackBac
  BY DEF SlowInv, ShadowRows, SlowBooks
<1>2. PICK m : m = Max({a, b})
  OBVIOUS
<1>3. m \in Nat /\ a <= m /\ b <= m
  BY <1>2, MaxOfTwo
<1>4. rollBase = m
  BY <1>1, <1>2, Zenon DEF rollBase
<1>5. RELEASE_PART \in Nat \ {0}
  BY SlowSizes
<1>6. a \div RELEASE_PART <= m \div RELEASE_PART /\ b \div RELEASE_PART <= m \div RELEASE_PART
  BY ONLY a \in Nat, b \in Nat, <1>3, <1>5, DivMonotone
<1>7. m \div RELEASE_PART \in Nat /\ a \div RELEASE_PART \in Nat
  BY <1>3, <1>5, DivBounds
<1> QED BY <1>1, <1>3, <1>4, <1>6, <1>7

\* A row is about a pot that was allowed, unless it says why not; an old row may be older than the base.
RowFits(row, e, base, baseAt, wall) ==
    /\ row.at <= wall /\ (row.pot = 0 \/ e <= wall)
    /\ row.leak \/ row.shrunk \/ row.at <= baseAt \/ row.pot <= base \div RELEASE_PART

LEMMA FreshLog ==
    ASSUME SlowInv
    PROVE  /\ release_log \in [SettledEpochs -> LogRow]
           /\ \A e \in SettledEpochs : RowFits(release_log[e], e, rollBase, shadow.roll_base_at, wallEpoch)
<1>0. settledEpoch \in Nat /\ wallEpoch \in Nat /\ settledEpoch <= wallEpoch
  BY DEF SlowInv
<1>1. ASSUME NEW e \in SettledEpochs
      PROVE  release_log[e] \in LogRow /\ RowFits(release_log[e], e, rollBase, shadow.roll_base_at, wallEpoch)
  <2>0. e \in Nat
    BY DEF SettledEpochs
  <2>1. CASE release_log[e] = shadow.release_log[e]
    <3>1. shadow.release_log \in [SettledEpochs -> LogRow]
      BY DEF SlowInv, ShadowRows
    <3>2. PICK r : r = shadow.release_log[e]
      OBVIOUS
    <3>3. r \in LogRow
      BY <3>1, <3>2
    <3>4. /\ r.at <= wallEpoch /\ (r.pot = 0 \/ e <= wallEpoch)
          /\ r.leak \/ r.shrunk \/ r.at <= shadow.roll_base_at \/ r.pot <= shadow.roll_base \div RELEASE_PART
      BY <3>2 DEF SlowInv, LogOf
    <3>5. r.pot \in Nat
      BY <3>3 DEF LogRow
    <3>6. r.pot <= shadow.roll_base \div RELEASE_PART => r.pot <= rollBase \div RELEASE_PART
      BY <3>5, BaseGrows
    <3>7. RowFits(r, e, rollBase, shadow.roll_base_at, wallEpoch)
      BY <3>4, <3>6 DEF RowFits
    <3> QED BY <2>1, <3>2, <3>3, <3>7
  <2>2. CASE \E j : FreshRow(e, j)
    <3>1. PICK j : FreshRow(e, j)
      BY <2>2
    <3>2. PICK r, n, b : r = release_log[e] /\ n = stretch[j].amount /\ b = stretch[j].bucket
      OBVIOUS
    <3>3. /\ r \in LogRow /\ r.pot = n /\ r.at = wallEpoch /\ e <= settledEpoch /\ b \in Nat
          /\ r.leak \/ n <= b \div RELEASE_PART
          /\ r.shrunk <=> b > vault.buybackBac
      BY <3>1, <3>2, FreshRowFields
    <3>4. n \in Nat
      BY <3>3 DEF LogRow
    <3>5. ASSUME ~(b > vault.buybackBac), n <= b \div RELEASE_PART PROVE n <= rollBase \div RELEASE_PART
      <4>1. PICK bk : bk = vault.buybackBac
        OBVIOUS
      <4>2. bk \in Nat /\ b <= bk /\ RELEASE_PART \in Nat \ {0}
        BY <3>3, <3>5, <4>1, BaseGrows, SlowSizes
      <4>3. b \div RELEASE_PART <= bk \div RELEASE_PART
        <5>1. b \in Nat
        BY <3>3
      <5> QED BY ONLY <4>2, <5>1, DivMonotone
      <4>4. b \div RELEASE_PART \in Nat /\ bk \div RELEASE_PART \in Nat
        BY <3>3, <4>2, DivBounds
      <4>5. bk \div RELEASE_PART <= rollBase \div RELEASE_PART /\ rollBase \div RELEASE_PART \in Nat
        BY <4>1, BaseGrows
      <4> QED BY ONLY <3>4, <3>5, <4>3, <4>4, <4>5
    <3>6. e <= wallEpoch /\ r.at <= wallEpoch
      BY <1>0, <2>0, <3>3
    <3>7. RowFits(r, e, rollBase, shadow.roll_base_at, wallEpoch)
      BY <3>3, <3>5, <3>6 DEF RowFits
    <3> QED BY <3>2, <3>3, <3>7
  <2> QED BY <2>1, <2>2, LogRows
<1>2. PICK log : log = release_log
  OBVIOUS
<1>3. log = [e \in SettledEpochs |-> log[e]]
  BY <1>2, Zenon DEF release_log
<1>4. \A e \in SettledEpochs : log[e] \in LogRow
  BY <1>1, <1>2
<1>5. log \in [SettledEpochs -> LogRow]
  BY ONLY <1>3, <1>4
<1> QED BY <1>1, <1>2, <1>5

LEMMA RowsRecorded ==
    ASSUME SlowInv
    PROVE  /\ ReleasesRecorded \in ShadowRows
           /\ ReleasesRecorded.snapshot = shadow.snapshot /\ ReleasesRecorded.atCursor = shadow.atCursor
           /\ LogOf(stretch, ReleasesRecorded, settledEpoch, wallEpoch)
<1> DEFINE base == IF BaseExpired THEN vault.buybackBac ELSE rollBase
           baseAt == IF BaseExpired THEN wallEpoch ELSE shadow.roll_base_at
<1>1. shadow \in ShadowRows /\ wallEpoch \in Nat
  BY DEF SlowInv
<1>2. release_log \in [SettledEpochs -> LogRow]
  BY FreshLog
<1>3. base \in Nat /\ baseAt \in Nat
  BY <1>1, BaseGrows DEF ShadowRows
<1>4. PICK x : x = [shadow EXCEPT !.release_log = release_log]
  OBVIOUS
<1>5. PICK y : y = [x EXCEPT !.roll_base = base]
  OBVIOUS
<1>6. PICK z : z = [y EXCEPT !.roll_base_at = baseAt]
  OBVIOUS
<1>7. ReleasesRecorded = z
  BY <1>1, <1>4, <1>5, <1>6 DEF ReleasesRecorded, ShadowRows
<1>8. /\ x \in ShadowRows /\ x.release_log = release_log /\ x.snapshot = shadow.snapshot /\ x.atCursor = shadow.atCursor
  BY <1>1, <1>2, <1>4 DEF ShadowRows
<1>9. /\ y \in ShadowRows /\ y.release_log = release_log /\ y.snapshot = shadow.snapshot /\ y.atCursor = shadow.atCursor
      /\ y.roll_base = base
  BY <1>3, <1>5, <1>8 DEF ShadowRows
<1>10. /\ z \in ShadowRows /\ z.release_log = release_log /\ z.snapshot = shadow.snapshot /\ z.atCursor = shadow.atCursor
       /\ z.roll_base = base /\ z.roll_base_at = baseAt
  BY <1>3, <1>6, <1>9 DEF ShadowRows
<1>11. ASSUME NEW e \in SettledEpochs PROVE RowFits(release_log[e], e, base, baseAt, wallEpoch)
  <2>1. RowFits(release_log[e], e, rollBase, shadow.roll_base_at, wallEpoch)
    BY FreshLog
  <2>2. CASE BaseExpired
    BY <2>1, <2>2 DEF RowFits
  <2>3. CASE ~BaseExpired
    BY <2>1, <2>3
  <2> QED BY <2>2, <2>3
<1>12. \A j \in 1..Len(stretch) :
          stretch[j].kind = "settled" =>
             stretch[j].epoch <= settledEpoch /\ (stretch[j].leak \/ stretch[j].amount <= stretch[j].bucket \div RELEASE_PART)
  BY DEF SlowInv, LogOf
<1>13. LogOf(stretch, z, settledEpoch, wallEpoch)
  <2> HIDE DEF base, baseAt
  <2> QED BY ONLY <1>10, <1>11, <1>12 DEF LogOf, RowFits
<1> QED BY <1>7, <1>10, <1>13

\* A snapshot of the books as they are.
LEMMA Saved ==
    ASSUME NEW rows \in ShadowRows, NEW when \in BOOLEAN, vault \in SlowBooks
    PROVE  /\ SnapshotSaved(rows, when) \in ShadowRows
           /\ SnapshotSaved(rows, when).snapshot = vault /\ SnapshotSaved(rows, when).atCursor = when
           /\ SnapshotSaved(rows, when).release_log = rows.release_log
           /\ SnapshotSaved(rows, when).roll_base = rows.roll_base
           /\ SnapshotSaved(rows, when).roll_base_at = rows.roll_base_at
<1>1. PICK x : x = [rows EXCEPT !.snapshot = vault]
  OBVIOUS
<1>2. PICK y : y = [x EXCEPT !.atCursor = when]
  OBVIOUS
<1>3. SnapshotSaved(rows, when) = y
  BY <1>1, <1>2 DEF SnapshotSaved, ShadowRows
<1>4. /\ x \in ShadowRows /\ x.snapshot = vault /\ x.release_log = rows.release_log /\ x.roll_base = rows.roll_base
      /\ x.roll_base_at = rows.roll_base_at
  BY <1>1 DEF ShadowRows
<1>5. /\ y \in ShadowRows /\ y.snapshot = vault /\ y.atCursor = when /\ y.release_log = rows.release_log
      /\ y.roll_base = rows.roll_base /\ y.roll_base_at = rows.roll_base_at
  BY <1>2, <1>4 DEF ShadowRows
<1> QED BY <1>3, <1>5

\* The invariant, of the books bk, the shadow w and the stretch s.
InvOf(bk, w, s, settled, wall) ==
    /\ bk \in SlowBooks /\ w \in ShadowRows /\ s \in Seq(Happening)
    /\ settled \in Nat /\ wall \in Nat /\ settled <= wall
    /\ Owing(bk)
    /\ StretchFits(bk, s, w.snapshot, w.atCursor)
    /\ LogOf(s, w, settled, wall)

LEMMA InvIs == SlowInv <=> InvOf(vault, shadow, stretch, settledEpoch, wallEpoch)
BY DEF SlowInv, InvOf, usablePrev

LEMMA InvIsNext == SlowInv' <=> InvOf(vault', shadow', stretch', settledEpoch', wallEpoch')
BY DEF SlowInv, InvOf, usablePrev

\* The empty stretch.
LEMMA StretchStarts ==
    ASSUME NEW bk \in SlowBooks
    PROVE  StretchFits(bk, <<>>, bk, TRUE)
<1>1. PICK s : s = <<>>
  OBVIOUS
<1>2. Len(s) = 0
  BY <1>1
<1>3. \A k : FlowOf(s, 0, k) = 0
  BY FlowNothing
<1>4. 1..0 = {}
  OBVIOUS
<1>5. ~LeakUpTo(s, Len(s)) /\ ~NotReplayed(s, Len(s)) /\ ~TakenIn(s)
  BY <1>2, <1>4 DEF LeakUpTo, NotReplayed, TakenIn
<1>6. /\ bk.lockedBac \in Int /\ bk.totalBurned \in Int /\ bk.buybackBac \in Int /\ bk.reservedTotal \in Int
  BY DEF SlowBooks
<1>7. OffLocked(bk, s, bk) = 0 /\ OffBurned(bk, s, bk) = 0 /\ OffBuyback(bk, s, bk) = 0
  BY <1>2, <1>3, <1>6 DEF OffLocked, OffBurned, OffBuyback
<1>8. FreeOf(bk, s, Len(s)) = FreeIn(bk) /\ FreeIn(bk) \in Int
  BY <1>2, <1>3, <1>6 DEF FreeOf, FreeIn
<1>9. \A j \in 1..Len(s) : FALSE
  BY <1>2, <1>4
<1>10. Compares(bk, s, bk)
  BY <1>5, <1>7, <1>8, <1>9 DEF Compares
<1>11. StretchFits(bk, s, bk, TRUE)
  BY <1>5, <1>10 DEF StretchFits
<1> QED BY <1>1, <1>11

LEMMA SlowInvStarts == SlowInit => SlowInv
<1> SUFFICES ASSUME SlowInit PROVE SlowInv
  OBVIOUS
<1>1. PICK s, pot : s = settledEpoch /\ pot = (settledEpoch * 2 * Lot) \div RELEASE_PART
  OBVIOUS
<1>2. s \in {0, 1} /\ wallEpoch = 1 /\ stretch = <<>>
  BY <1>1 DEF SlowInit
<1>3. PICK row : row = [e \in SettledEpochs |-> Row(IF e = 1 THEN pot ELSE 0, settledEpoch, FALSE, FALSE)]
  OBVIOUS
<1>4. /\ vault = [lockedBac |-> Lot, totalBurned |-> 0, buybackBac |-> 2 * Lot, owedTotal |-> 2 * Lot,
                  reservedTotal |-> pot, tokenBalance |-> 3 * Lot]
      /\ shadow = [snapshot |-> vault, atCursor |-> TRUE, roll_base |-> 2 * Lot, roll_base_at |-> 0, release_log |-> row]
  BY <1>1, <1>3, Zenon DEF SlowInit
<1>5. PICK l : l = Lot /\ l \in Nat /\ l > 1
  BY LotType
<1>6. RELEASE_PART \in Nat \ {0}
  BY SlowSizes
<1>7. pot \in Nat /\ pot <= 2 * l /\ pot <= (2 * l) \div RELEASE_PART /\ (2 * l) \div RELEASE_PART \in Nat
  <2>1. PICK m \in Nat : m = 2 * l
    BY <1>5
  <2>2. m \div RELEASE_PART \in Nat /\ (m \div RELEASE_PART) * RELEASE_PART <= m
    BY <1>6, DivBounds
  <2>3. m \div RELEASE_PART <= m
    <3>1. m <= m * RELEASE_PART
      <4>1. 1 <= RELEASE_PART /\ RELEASE_PART \in Int /\ 1 \in Int
        BY <1>6
      <4>2. m * 1 <= m * RELEASE_PART
        BY ONLY <4>1, m \in Nat, TimesMonotone
      <4> QED BY <4>2
    <3> QED BY ONLY <1>6, <3>1, m \in Nat, DivAtMost
  <2>4. CASE s = 0
    <3>1. settledEpoch * 2 * Lot = 0
      BY <1>1, <1>5, <2>4
    <3>2. 0 \div RELEASE_PART = 0
      BY <1>6
    <3> QED BY <1>1, <2>1, <2>2, <3>1, <3>2
  <2>5. CASE s = 1
    <3>1. settledEpoch * 2 * Lot = m
      BY <1>1, <1>5, <2>1, <2>5
    <3> QED BY <1>1, <2>1, <2>2, <2>3, <3>1
  <2> QED BY <1>2, <2>4, <2>5
<1>8. vault \in SlowBooks
  BY <1>4, <1>5, <1>7 DEF SlowBooks
<1>9. Surplus(vault) = 0 /\ Owing(vault)
  BY <1>4, <1>5, <1>7 DEF Surplus, Owing
<1>10. row \in [SettledEpochs -> LogRow] /\ \A e \in SettledEpochs : row[e].pot = (IF e = 1 THEN pot ELSE 0) /\ row[e].at = s
  <2>1. s \in Nat
    BY <1>2
  <2> QED BY <1>1, <1>3, <1>7, <2>1 DEF Row, LogRow
<1>11. shadow \in ShadowRows /\ shadow.snapshot = vault /\ shadow.release_log = row /\ shadow.roll_base = 2 * l
       /\ shadow.atCursor = TRUE
  <2>1. 2 * l \in Nat
    BY <1>5
  <2>2. PICK bk, b : bk = vault /\ b = 2 * l
    OBVIOUS
  <2>3. bk \in SlowBooks /\ b \in Nat
    BY <1>8, <2>1, <2>2
  <2>4. shadow = [snapshot |-> bk, atCursor |-> TRUE, roll_base |-> b, roll_base_at |-> 0, release_log |-> row]
    BY <1>4, <1>5, <2>2
  <2>5. shadow \in ShadowRows
    BY ONLY <1>10, <2>3, <2>4 DEF ShadowRows
  <2> QED BY <2>2, <2>4, <2>5
<1>12. StretchFits(vault, stretch, shadow.snapshot, shadow.atCursor)
  <2>1. StretchFits(vault, <<>>, vault, TRUE)
    BY <1>8, StretchStarts
  <2> QED BY <1>2, <1>11, <2>1
<1>13. LogOf(stretch, shadow, settledEpoch, wallEpoch)
  <2>1. \A j \in 1..Len(stretch) : FALSE
    BY <1>2
  <2>2. ASSUME NEW e \in SettledEpochs
        PROVE /\ row[e].at <= wallEpoch /\ (row[e].pot = 0 \/ e <= wallEpoch)
              /\ row[e].pot <= shadow.roll_base \div RELEASE_PART
    BY <1>2, <1>7, <1>10, <1>11
  <2> QED BY <1>11, <2>1, <2>2 DEF LogOf
<1>14. settledEpoch \in Nat /\ wallEpoch \in Nat /\ settledEpoch <= wallEpoch /\ stretch \in Seq(Happening)
  BY <1>1, <1>2
<1> QED BY <1>8, <1>9, <1>11, <1>12, <1>13, <1>14, InvIs DEF InvOf

LEMMA BridgeKeeps == ASSUME SlowInv, NEW e, BridgeMoves(e) PROVE SlowInv'
<1>0. InvOf(vault, shadow, stretch, settledEpoch, wallEpoch)
  BY InvIs
<1>1. PICK bk, w, s, n : bk = vault' /\ w = shadow /\ s = stretch /\ n = settledEpoch'
  OBVIOUS
<1>2. /\ vault \in SlowBooks /\ w \in ShadowRows /\ s \in Seq(Happening) /\ settledEpoch \in Nat /\ wallEpoch \in Nat
      /\ StretchFits(vault, s, w.snapshot, w.atCursor) /\ LogOf(s, w, settledEpoch, wallEpoch)
  BY <1>0, <1>1 DEF InvOf
<1>3. /\ e \in Happening /\ bk \in SlowBooks /\ Owing(bk) /\ stretch' = Append(s, e)
      /\ IF e.leak THEN ~LeakUpTo(s, Len(s)) /\ MovedUnseen(vault, bk, e) ELSE MovedSeen(vault, bk, e)
      /\ n \in Nat /\ settledEpoch <= n /\ n <= wallEpoch
      /\ e.kind = "settled" => e.epoch <= n /\ (e.leak \/ e.amount <= e.bucket \div RELEASE_PART)
      /\ wallEpoch' = wallEpoch /\ shadow' = w
  BY <1>1 DEF BridgeMoves
<1>4. w.snapshot \in SlowBooks
  BY <1>2 DEF ShadowRows
<1>5. StretchFits(bk, Append(s, e), w.snapshot, w.atCursor)
  BY ONLY <1>2, <1>3, <1>4, StretchGrows
<1>6. LogOf(Append(s, e), w, n, wallEpoch)
  <2>1. PICK t : t = Append(s, e)
    OBVIOUS
  <2>2. Len(s) \in Nat /\ Len(t) = Len(s) + 1 /\ t[Len(s) + 1] = e /\ \A i \in 1..Len(s) : t[i] = s[i]
    BY <1>2, <1>3, <2>1
  <2>3. ASSUME NEW j \in 1..Len(t), t[j].kind = "settled"
        PROVE  t[j].epoch <= n /\ (t[j].leak \/ t[j].amount <= t[j].bucket \div RELEASE_PART)
    <3>1. CASE j = Len(s) + 1
      BY <1>3, <2>2, <2>3, <3>1
    <3>2. CASE j \in 1..Len(s)
      <4>1. t[j] = s[j] /\ s[j] \in Happening
        BY <1>2, <2>2, <3>2
      <4>2. s[j].epoch <= settledEpoch /\ (s[j].leak \/ s[j].amount <= s[j].bucket \div RELEASE_PART)
        BY <1>2, <2>3, <3>2, <4>1 DEF LogOf
      <4>3. s[j].epoch \in Nat
        BY <4>1 DEF Happening
      <4> QED BY <1>2, <1>3, <4>1, <4>2, <4>3
    <3> QED BY <2>2, <3>1, <3>2
  <2>4. LogOf(t, w, n, wallEpoch)
    BY <1>2, <2>3 DEF LogOf
  <2> QED BY <2>1, <2>4
<1>7. Append(s, e) \in Seq(Happening)
  BY <1>2, <1>3
<1>8. InvOf(bk, w, Append(s, e), n, wallEpoch)
  BY <1>2, <1>3, <1>5, <1>6, <1>7 DEF InvOf
<1> QED BY <1>1, <1>3, <1>8, InvIsNext

LEMMA EpochKeeps == ASSUME SlowInv, EpochPasses PROVE SlowInv'
<1>0. InvOf(vault, shadow, stretch, settledEpoch, wallEpoch)
  BY InvIs
<1>1. /\ wallEpoch' = wallEpoch + 1 /\ vault' = vault /\ settledEpoch' = settledEpoch /\ stretch' = stretch
      /\ shadow' = shadow
  BY DEF EpochPasses
<1>2. PICK n : n = wallEpoch + 1
  OBVIOUS
<1>3. n \in Nat /\ settledEpoch <= n
  BY <1>0, <1>2 DEF InvOf
<1>4. LogOf(stretch, shadow, settledEpoch, n)
  <2>1. shadow.release_log \in [SettledEpochs -> LogRow] /\ wallEpoch \in Nat
    BY <1>0 DEF InvOf, ShadowRows
  <2>2. ASSUME NEW e \in SettledEpochs, shadow.release_log[e].at <= wallEpoch /\ (shadow.release_log[e].pot = 0 \/ e <= wallEpoch)
        PROVE  shadow.release_log[e].at <= n /\ (shadow.release_log[e].pot = 0 \/ e <= n)
    <3>1. PICK x, p : x = shadow.release_log[e].at /\ p = shadow.release_log[e].pot
      OBVIOUS
    <3>2. x \in Nat /\ e \in Nat
      <4>1. PICK r : r = shadow.release_log[e]
        OBVIOUS
      <4>2. r \in LogRow
        BY <2>1, <4>1
      <4>3. r.at \in Nat
        BY <4>2 DEF LogRow
      <4>4. e \in Nat
        BY DEF SettledEpochs
      <4> QED BY <3>1, <4>1, <4>3, <4>4
    <3>3. x <= wallEpoch /\ (p = 0 \/ e <= wallEpoch)
      BY <2>2, <3>1
    <3>4. x <= n /\ (p = 0 \/ e <= n)
      BY <1>2, <2>1, <3>2, <3>3
    <3> QED BY <3>1, <3>4
  <2>3. LogOf(stretch, shadow, settledEpoch, wallEpoch)
    BY <1>0 DEF InvOf
  <2> QED BY <2>2, <2>3 DEF LogOf
<1>5. InvOf(vault, shadow, stretch, settledEpoch, n)
  BY <1>0, <1>3, <1>4 DEF InvOf
<1> QED BY <1>1, <1>2, <1>5, InvIsNext

-----------------------------------------------------------------------------
\* The rules of a tick in these terms.
LEMMA StretchDomain == ASSUME SlowInv PROVE DOMAIN stretch = 1..Len(stretch) /\ Len(stretch) \in Nat
BY DEF SlowInv

LEMMA LeakedIs == ASSUME SlowInv PROVE Leaked <=> LeakUpTo(stretch, Len(stretch))
BY StretchDomain, Zenon DEF Leaked, LeakUpTo

LEMMA BucketsIs ==
    ASSUME SlowInv
    PROVE  /\ Inequalities <=> Surplus(vault) >= 0
           /\ Deltas <=> /\ OffLocked(vault, stretch, shadow.snapshot) = 0
                         /\ OffBurned(vault, stretch, shadow.snapshot) = 0
                         /\ OffBuyback(vault, stretch, shadow.snapshot) = 0
<1>1. vault \in SlowBooks /\ Owing(vault) /\ shadow.snapshot \in SlowBooks
  BY DEF SlowInv, ShadowRows
<1>2. Inequalities <=> Surplus(vault) >= 0
  <2>1. PICK a \in Nat, b \in Nat, c \in Nat, t \in Int :
          a = vault.lockedBac /\ b = vault.totalBurned /\ c = vault.buybackBac /\ t = vault.tokenBalance
    BY <1>1 DEF SlowBooks
  <2>2. Inequalities <=> t >= a - b + c
    BY <1>1, <2>1 DEF Inequalities, bacAccounted, Accounted, Owing
  <2>3. Surplus(vault) = t - (a - b + c)
    BY <2>1 DEF Surplus
  <2> QED BY <2>2, <2>3
<1>3. \A k : Flow(k) = FlowOf(stretch, Len(stretch), k) /\ Flow(k) \in Nat
  <2>1. ASSUME NEW k PROVE FlowOf(stretch, Len(stretch), k) \in Nat
    <3>1. stretch \in Seq(Happening) /\ Len(stretch) \in 0..Len(stretch)
      BY StretchDomain DEF SlowInv
    <3> QED BY <3>1, FlowNat
  <2> QED BY <2>1, Zenon DEF Flow
<1>4. PICK b, s : b = shadow.snapshot /\ s = stretch
  OBVIOUS
<1>5. ASSUME NEW x \in Int, NEW y \in Int, NEW f \in Int PROVE x - y = f <=> x - y - f = 0
  OBVIOUS
<1>6. /\ vault.lockedBac \in Int /\ vault.totalBurned \in Int /\ vault.buybackBac \in Int
      /\ b.lockedBac \in Int /\ b.totalBurned \in Int /\ b.buybackBac \in Int
  BY <1>1, <1>4, BooksInt
<1>7. /\ Explained("lockedBac", Flow("locked")) <=> vault.lockedBac - b.lockedBac = Flow("locked")
      /\ Explained("totalBurned", Flow("burned")) <=> vault.totalBurned - b.totalBurned = Flow("burned")
      /\ Explained("buybackBac", Flow("bought") + Flow("swept") - Flow("collected"))
            <=> vault.buybackBac - b.buybackBac = Flow("bought") + Flow("swept") - Flow("collected")
  BY <1>4 DEF Explained
<1>8. /\ OffLocked(vault, s, b) = vault.lockedBac - b.lockedBac - Flow("locked")
      /\ OffBurned(vault, s, b) = vault.totalBurned - b.totalBurned - Flow("burned")
      /\ OffBuyback(vault, s, b)
            = vault.buybackBac - b.buybackBac - (Flow("bought") + Flow("swept") - Flow("collected"))
  BY <1>3, <1>4 DEF OffLocked, OffBurned, OffBuyback
<1>9. PICK l \in Int, uu \in Int, g \in Int :
        l = Flow("locked") /\ uu = Flow("burned") /\ g = Flow("bought") + Flow("swept") - Flow("collected")
  BY <1>3
<1>10. /\ Explained("lockedBac", Flow("locked")) <=> OffLocked(vault, s, b) = 0
       /\ Explained("totalBurned", Flow("burned")) <=> OffBurned(vault, s, b) = 0
       /\ Explained("buybackBac", Flow("bought") + Flow("swept") - Flow("collected")) <=> OffBuyback(vault, s, b) = 0
  BY <1>5, <1>6, <1>7, <1>8, <1>9
<1> QED BY <1>2, <1>4, <1>10 DEF Deltas, DeltasOfLocksOnly

LEMMA FreeBeforeIs ==
    ASSUME NEW j PROVE freeBefore(j) = FreeOf(shadow.snapshot, stretch, j - 1)
BY Zenon DEF freeBefore, FreeOf

LEMMA EpochsIs ==
    ASSUME SlowInv
    PROVE  CheckEpochReleases <=> (usablePrev => ~TooMuch(stretch, shadow.snapshot))
<1>1. DOMAIN stretch = 1..Len(stretch) /\ shadow.snapshot \in SlowBooks /\ stretch \in Seq(Happening)
  BY StretchDomain DEF SlowInv, ShadowRows
<1>2. ASSUME NEW j \in 1..Len(stretch)
      PROVE  stretch[j].amount <= potAllowed(freeBefore(j)) + 1
               <=> ~(stretch[j].amount > potAllowed(FreeOf(shadow.snapshot, stretch, j - 1)) + 1)
  <2>1. PICK n, p, b, s : n = stretch[j].amount /\ p = potAllowed(FreeOf(shadow.snapshot, stretch, j - 1))
                          /\ b = shadow.snapshot /\ s = stretch
    OBVIOUS
  <2>2. s[j] \in Happening /\ b \in SlowBooks /\ s \in Seq(Happening) /\ j - 1 \in 0..Len(s)
    BY <1>1, <2>1
  <2>3. n \in Nat
    BY <2>1, <2>2 DEF Happening
  <2>4. \A k : FlowOf(s, j - 1, k) \in Nat
    BY <2>2, FlowNat
  <2>5. FreeOf(b, s, j - 1) \in Int
    BY <2>2, <2>4 DEF FreeOf, SlowBooks
  <2>6. p \in Nat
    BY <2>1, <2>5, AllowedGrows
  <2>7. p = potAllowed(freeBefore(j))
    BY <2>1, FreeBeforeIs
  <2> QED BY <2>1, <2>3, <2>6, <2>7
<1>3. (\A j \in Settlements : stretch[j].amount <= potAllowed(freeBefore(j)) + 1) <=> ~TooMuch(stretch, shadow.snapshot)
  BY <1>1, <1>2, Zenon DEF Settlements, TooMuch
<1> QED BY <1>3, Zenon DEF CheckEpochReleases

LEMMA RulesBrokenAre ==
    /\ RulesBroken \subseteq {"buckets", "epoch", "rolling"}
    /\ "buckets" \in RulesBroken <=> ~CheckBuckets
    /\ "epoch" \in RulesBroken <=> ~CheckEpochReleases
    /\ "rolling" \in RulesBroken <=> ~CheckRollingRelease
BY DEF RulesBroken

\* Without a leak the buckets pass, and the epochs unless the replay did not take something in; a leak that
\* has something to be compared with does not pass both.
LEMMA WithdrawnIs == ASSUME SlowInv PROVE (Withdrawn <=> WithdrawnIn(stretch)) /\ (Refilled <=> RefilledIn(stretch))
BY StretchDomain, Zenon DEF Withdrawn, WithdrawnIn, Refilled, RefilledIn

LEMMA ShortIs == ASSUME SlowInv PROVE ShortBefore <=> Surplus(shadow.snapshot) < 0
<1>1. PICK b : b = shadow.snapshot /\ b \in SlowBooks
  BY DEF SlowInv, ShadowRows
<1>2. PICK x \in Int, y \in Int : x = b.tokenBalance /\ y = b.lockedBac - b.totalBurned + b.buybackBac
  BY <1>1 DEF SlowBooks
<1>3. (ShortBefore <=> x < y) /\ Surplus(b) = x - y
  BY <1>1, <1>2 DEF ShortBefore, Accounted, Surplus
<1> QED BY <1>1, <1>2, <1>3

LEMMA BucketsReason == ASSUME SlowInv, ~Leaked, ~Withdrawn, ~ShortBefore PROVE CheckBuckets
<1>1. ~LeakUpTo(stretch, Len(stretch)) /\ StretchFits(vault, stretch, shadow.snapshot, usablePrev)
  BY LeakedIs DEF SlowInv
<1>2. Surplus(vault) >= 0
  <2>1. Surplus(shadow.snapshot) \in Int
    BY BooksInt DEF SlowInv, ShadowRows
  <2>2. Surplus(shadow.snapshot) >= 0
    BY <2>1, ShortIs
  <2> QED BY <1>1, <2>2, WithdrawnIs DEF StretchFits
<1>3. usablePrev => /\ OffLocked(vault, stretch, shadow.snapshot) = 0 /\ OffBurned(vault, stretch, shadow.snapshot) = 0
                    /\ OffBuyback(vault, stretch, shadow.snapshot) = 0
  BY <1>1 DEF StretchFits, Compares
<1> QED BY <1>2, <1>3, BucketsIs DEF CheckBuckets

LEMMA EpochReason == ASSUME SlowInv, ~Leaked, ~SettledAfter({"swept", "revoked"}) PROVE CheckEpochReleases
<1>1. ~LeakUpTo(stretch, Len(stretch)) /\ StretchFits(vault, stretch, shadow.snapshot, usablePrev)
  BY LeakedIs DEF SlowInv
<1>2. SUFFICES ASSUME usablePrev, NEW j \in 1..Len(stretch), stretch[j].kind = "settled",
                      stretch[j].amount > potAllowed(FreeOf(shadow.snapshot, stretch, j - 1)) + 1
               PROVE  FALSE
  BY EpochsIs DEF TooMuch
<1>3. LeakUpTo(stretch, j) \/ NotReplayed(stretch, j)
      \/ stretch[j].amount <= potAllowed(FreeOf(shadow.snapshot, stretch, j - 1))
  BY <1>1, <1>2 DEF StretchFits, Compares
<1>4. ~LeakUpTo(stretch, j)
  BY <1>1 DEF LeakUpTo
<1>5. ~NotReplayed(stretch, j)
  <2>1. j \in Settlements
    BY <1>2, StretchDomain DEF Settlements
  <2> QED BY <2>1 DEF SettledAfter, NotReplayed
<1>6. PICK n, p, b, s : n = stretch[j].amount /\ p = potAllowed(FreeOf(shadow.snapshot, stretch, j - 1))
                        /\ b = shadow.snapshot /\ s = stretch
  OBVIOUS
<1>7. s[j] \in Happening /\ b \in SlowBooks /\ s \in Seq(Happening) /\ j - 1 \in 0..Len(s)
  BY <1>6 DEF SlowInv, ShadowRows
<1>8. n \in Nat
  BY <1>6, <1>7 DEF Happening
<1>9. \A k : FlowOf(s, j - 1, k) \in Nat
  BY <1>7, FlowNat
<1>10. FreeOf(b, s, j - 1) \in Int
  BY <1>7, <1>9 DEF FreeOf, SlowBooks
<1>11. p \in Nat
  BY <1>6, <1>10, AllowedGrows
<1>12. n > p + 1 /\ n <= p
  BY <1>2, <1>3, <1>4, <1>5, <1>6
<1> QED BY <1>8, <1>11, <1>12

LEMMA LeakShows == ASSUME SlowInv, Leaked, usablePrev, ~Refilled PROVE ~CheckBuckets \/ ~CheckEpochReleases
<1>1. LeakUpTo(stretch, Len(stretch)) /\ StretchFits(vault, stretch, shadow.snapshot, usablePrev)
  BY LeakedIs DEF SlowInv
<1>2. \/ Surplus(vault) < 0 \/ TooMuch(stretch, shadow.snapshot)
      \/ OffLocked(vault, stretch, shadow.snapshot) # 0 \/ OffBuyback(vault, stretch, shadow.snapshot) # 0
  BY <1>1, WithdrawnIs DEF StretchFits, Compares
<1>3. Surplus(vault) \in Int
  BY BooksInt DEF SlowInv
<1> QED BY <1>2, <1>3, BucketsIs, EpochsIs DEF CheckBuckets

\* What a day of old epochs may release is within the rule's limit, with a base that saw all of them.
LEMMA DayFits ==
    ASSUME NEW W, IsFiniteSet(W), W \subseteq Nat, NEW f, NEW D \in Nat, NEW n \in Nat \ {0}, NEW wall \in Nat,
           \A e \in W : f[e] \in Nat /\ f[e] <= D /\ e > wall - n /\ (f[e] = 0 \/ e <= wall)
    PROVE  SumFunctionOnSet(f, W) \in Nat /\ SumFunctionOnSet(f, W) <= D * n
<1> DEFINE U == {e \in W : e <= wall}
           c == [e \in W |-> IF e \in U THEN 1 ELSE 0]
           g == [e \in W |-> D * c[e]]
<1>1. SumFunctionOnSet(c, W) = Cardinality(U) /\ Cardinality(U) \in Nat
  <2>1. U \in SUBSET W /\ \A y \in W : c[y] = IF y \in U THEN 1 ELSE 0
    OBVIOUS
  <2> HIDE DEF U, c
  <2> QED BY <2>1, SumCounts
<1>2. Cardinality(U) <= n
  <2>1. PICK a \in Int : a = wall - n + 1
    OBVIOUS
  <2>2. U \subseteq a..wall
    <3> SUFFICES ASSUME NEW e \in W, e <= wall PROVE e \in a..wall
      OBVIOUS
    <3>1. e \in Int /\ e > wall - n
      OBVIOUS
    <3>2. a <= e
      BY <2>1, <3>1
    <3> QED BY <2>1, <3>1, <3>2
  <2>3. IsFiniteSet(a..wall) /\ Cardinality(a..wall) = IF a > wall THEN 0 ELSE wall - a + 1
    BY <2>1, FS_Interval
  <2>4. Cardinality(U) <= Cardinality(a..wall)
    BY <2>2, <2>3, FS_Subset
  <2>5. Cardinality(a..wall) = n
    BY <2>1, <2>3
  <2> QED BY <2>4, <2>5
<1>3. \A e \in W : c[e] \in {0, 1} /\ g[e] = D * c[e]
  OBVIOUS
<1>4. \A e \in W : f[e] \in Int /\ g[e] \in Int /\ f[e] <= g[e]
  <2> SUFFICES ASSUME NEW e \in W PROVE f[e] \in Int /\ g[e] \in Int /\ f[e] <= g[e]
    OBVIOUS
  <2>1. CASE e <= wall
    <3>1. g[e] = D * 1
      BY <2>1
    <3> HIDE DEF g
    <3> QED BY <3>1
  <2>2. CASE ~(e <= wall)
    <3>1. g[e] = D * 0 /\ f[e] = 0
      BY <2>2
    <3> HIDE DEF g
    <3> QED BY <3>1
  <2> QED BY <2>1, <2>2
<1>5. SumFunctionOnSet(f, W) \in Nat
  BY SumNat
<1>6. SumFunctionOnSet(g, W) = D * SumFunctionOnSet(c, W)
  <2>1. \A e \in W : c[e] \in Int /\ g[e] = D * c[e]
    BY <1>3
  <2>2. D \in Int
    OBVIOUS
  <2> HIDE DEF c, g
  <2> QED BY ONLY IsFiniteSet(W), <2>1, <2>2, SumTimes
<1>7. SumFunctionOnSet(f, W) <= SumFunctionOnSet(g, W)
  <2> HIDE DEF g
  <2> QED BY ONLY IsFiniteSet(W), <1>4, SumMonotone
<1> HIDE DEF U, c, g
<1>8. D * Cardinality(U) <= D * n
  <2>1. PICK k \in Nat : k = Cardinality(U) /\ k <= n
    BY <1>1, <1>2
  <2>2. D * k <= D * n
    BY <2>1, TimesMonotone
  <2> QED BY <2>1, <2>2
<1>9. PICK x, y, z : x = SumFunctionOnSet(f, W) /\ y = D * Cardinality(U) /\ z = D * n
  OBVIOUS
<1>10. x \in Nat /\ y \in Nat /\ z \in Nat /\ x <= y /\ y <= z
  <2>1. D * Cardinality(U) \in Nat /\ D * n \in Nat
    BY <1>1, ProductType
  <2> QED BY <1>1, <1>5, <1>6, <1>7, <1>8, <1>9, <2>1
<1> QED BY <1>9, <1>10

LEMMA RollingReason == ASSUME SlowInv, ~RecordedLate, ~Rebased, ~OutOfSight PROVE CheckRollingRelease
<1> DEFINE D == rollBase \div RELEASE_PART
           f == [e \in SettledEpochs |-> release_log[e].pot]
<1>0. wallEpoch \in Nat /\ shadow.roll_base_at \in Nat /\ EPOCHS_PER_DAY \in Nat \ {0} /\ RELEASE_PART \in Nat \ {0}
  BY SlowSizes DEF SlowInv, ShadowRows
<1>1. D \in Nat /\ rollBase \in Nat
  BY BaseGrows
<1>2. shadow.roll_base_at <= wallEpoch - EPOCHS_PER_DAY
  BY <1>0 DEF Rebased
<1>3. ASSUME NEW e \in InWindow
      PROVE  /\ e \in Nat /\ f[e] \in Nat /\ f[e] <= D /\ e > wallEpoch - EPOCHS_PER_DAY
             /\ f[e] = 0 \/ e <= wallEpoch
  <2>1. e \in SettledEpochs /\ e \in Nat /\ release_log[e].at > wallEpoch - EPOCHS_PER_DAY
    BY DEF InWindow, SettledEpochs
  <2>2. ~(release_log[e].at > e) /\ ~release_log[e].leak /\ ~release_log[e].shrunk
    BY DEF RecordedLate, OutOfSight
  <2>3. PICK r : r = release_log[e]
    OBVIOUS
  <2>4. r \in LogRow /\ RowFits(r, e, rollBase, shadow.roll_base_at, wallEpoch)
    BY <2>1, <2>3, FreshLog
  <2>5. r.at \in Nat /\ r.pot \in Nat
    BY <2>4 DEF LogRow
  <2>6. ~(r.at <= shadow.roll_base_at) /\ e > wallEpoch - EPOCHS_PER_DAY
    BY <1>0, <1>2, <2>1, <2>2, <2>3, <2>5
  <2>7. r.pot <= rollBase \div RELEASE_PART /\ (r.pot = 0 \/ e <= wallEpoch)
    BY <2>2, <2>3, <2>4, <2>6 DEF RowFits
  <2>8. f[e] = r.pot
    BY <2>1, <2>3
  <2> QED BY <2>1, <2>5, <2>6, <2>7, <2>8
<1>4. IsFiniteSet(InWindow) /\ InWindow \subseteq Nat
  <2>1. IsFiniteSet(SettledEpochs)
    BY SlowSizes, FS_Interval DEF SettledEpochs
  <2>2. InWindow \subseteq SettledEpochs
    BY DEF InWindow
  <2> QED BY <1>3, <2>1, <2>2, FS_Subset
<1>5. released = SumFunctionOnSet(f, InWindow)
  BY Zenon DEF released
<1>6. SumFunctionOnSet(f, InWindow) \in Nat /\ SumFunctionOnSet(f, InWindow) <= D * EPOCHS_PER_DAY
  <2> HIDE DEF D, f
  <2>1. PICK w : w = InWindow
    OBVIOUS
  <2>2. IsFiniteSet(w) /\ w \subseteq Nat
    BY <1>4, <2>1
  <2>3. \A e \in w : f[e] \in Nat /\ f[e] <= D /\ e > wallEpoch - EPOCHS_PER_DAY /\ (f[e] = 0 \/ e <= wallEpoch)
    BY <1>3, <2>1
  <2>4. D \in Nat /\ EPOCHS_PER_DAY \in Nat \ {0} /\ wallEpoch \in Nat
    BY <1>0, <1>1
  <2>5. SumFunctionOnSet(f, w) \in Nat /\ SumFunctionOnSet(f, w) <= D * EPOCHS_PER_DAY
    BY ONLY <2>2, <2>3, <2>4, DayFits
  <2> QED BY <2>1, <2>5
<1>7. D * EPOCHS_PER_DAY <= (rollBase * EPOCHS_PER_DAY) \div RELEASE_PART
  <2>1. PICK d \in Nat, b \in Nat, n \in Nat \ {0}, p \in Nat \ {0} :
          d = D /\ b = rollBase /\ n = EPOCHS_PER_DAY /\ p = RELEASE_PART
    BY <1>0, <1>1
  <2>2. d * p <= b
    <3>1. (b \div p) * p <= b
      BY DivBounds
    <3> QED BY <2>1, <3>1
  <2>3. d * p \in Int /\ d * n \in Nat /\ b * n \in Nat
    BY ProductType
  <2>4. (d * p) * n <= b * n
    BY <2>2, <2>3, TimesMonotone
  <2>5. (d * p) * n = (d * n) * p
    OBVIOUS
  <2>6. d * n <= (b * n) \div p
    BY <2>3, <2>4, <2>5, DivAtLeast
  <2> QED BY <2>1, <2>6
<1>8. Cardinality(Settlements) \in Nat
  <2>1. Settlements \subseteq 1..Len(stretch) /\ IsFiniteSet(1..Len(stretch))
    BY StretchDomain, FS_Interval DEF Settlements
  <2>2. IsFiniteSet(Settlements)
    BY <2>1, FS_Subset
  <2> QED BY <2>2, FS_CardinalityType
<1>9. (rollBase * EPOCHS_PER_DAY) \div RELEASE_PART \in Nat
  <2>1. rollBase * EPOCHS_PER_DAY \in Nat
    BY <1>0, <1>1, ProductType
  <2> QED BY <1>0, <2>1, DivBounds
<1>10. PICK x, y, z, c : x = SumFunctionOnSet(f, InWindow) /\ y = D * EPOCHS_PER_DAY
                         /\ z = (rollBase * EPOCHS_PER_DAY) \div RELEASE_PART /\ c = Cardinality(Settlements)
  OBVIOUS
<1>11. x \in Nat /\ y \in Nat /\ z \in Nat /\ c \in Nat /\ x <= y /\ y <= z
  <2>1. D * EPOCHS_PER_DAY \in Nat
    BY <1>0, <1>1, ProductType
  <2> HIDE DEF D, f
  <2> QED BY <1>6, <1>7, <1>8, <1>9, <1>10, <2>1
<1>12. x <= z + c
  BY <1>11
<1> QED BY <1>5, <1>10, <1>12 DEF CheckRollingRelease

-----------------------------------------------------------------------------
\* The reasons of an alarm, of what a tick looks at.
LogAt(st, wall, sh, bucket) ==
    [e \in SettledEpochs |->
        IF \E j \in {i \in DOMAIN st : st[i].kind = "settled"} : st[j].epoch = e
        THEN LET s == st[CHOOSE j \in {i \in DOMAIN st : st[i].kind = "settled"} : st[j].epoch = e]
             IN  Row(s.amount, wall, s.leak, s.bucket > bucket)
        ELSE sh.release_log[e]]
WindowOf(log, wall) == {e \in SettledEpochs : log[e].at > wall - EPOCHS_PER_DAY}
RollingReasonOf(log, wall, when) ==
    \/ \E e \in WindowOf(log, wall) : log[e].at > e
    \/ wall - when < EPOCHS_PER_DAY
    \/ \E e \in WindowOf(log, wall) : log[e].leak \/ log[e].shrunk
EpochReasonOf(st) ==
    \/ \E i \in DOMAIN st : st[i].leak
    \/ \E j \in {i \in DOMAIN st : st[i].kind = "settled"} : \E i \in 1..j : st[i].kind \in {"swept", "revoked"}
BucketsReasonOf(st, sh) ==
    \/ \E i \in DOMAIN st : st[i].leak
    \/ \E i \in DOMAIN st : st[i].kind = "withdrawn"
    \/ sh.snapshot.tokenBalance < Accounted(sh.snapshot)
ReasonFor(al, st, wall, sh, bucket) ==
    /\ al = "buckets" => BucketsReasonOf(st, sh)
    /\ al = "epoch" => EpochReasonOf(st)
    /\ al = "rolling" => RollingReasonOf(LogAt(st, wall, sh, bucket), wall, sh.roll_base_at)

LEMMA ReasonIs == AlarmsHaveAReason <=> ReasonFor(alarm, stretch, wallEpoch, shadow, vault.buybackBac)
<1>1. release_log = LogAt(stretch, wallEpoch, shadow, vault.buybackBac)
  BY Zenon DEF release_log, LogAt, Settlements
<1>2. InWindow = WindowOf(release_log, wallEpoch)
  BY Zenon DEF InWindow, WindowOf
<1>3. RollingReasonOf(release_log, wallEpoch, shadow.roll_base_at) <=> RecordedLate \/ Rebased \/ OutOfSight
  BY <1>2, Zenon DEF RollingReasonOf, RecordedLate, Rebased, OutOfSight
<1>4. EpochReasonOf(stretch) <=> Leaked \/ SettledAfter({"swept", "revoked"})
  BY Zenon DEF EpochReasonOf, Leaked, SettledAfter, Settlements
<1>5. BucketsReasonOf(stretch, shadow) <=> Leaked \/ Withdrawn \/ ShortBefore
  BY Zenon DEF BucketsReasonOf, Leaked, Withdrawn, ShortBefore
<1> QED BY <1>1, <1>3, <1>4, <1>5, Zenon DEF AlarmsHaveAReason, ReasonFor

LEMMA ReasonIsNext ==
    AlarmsHaveAReason' <=> ReasonFor(alarm', stretch', wallEpoch', shadow', vault'.buybackBac)
<1>1. release_log' = LogAt(stretch', wallEpoch', shadow', vault'.buybackBac)
  BY Zenon DEF release_log, LogAt, Settlements
<1>2. InWindow' = WindowOf(release_log', wallEpoch')
  BY Zenon DEF InWindow, WindowOf
<1>3. RollingReasonOf(release_log', wallEpoch', shadow'.roll_base_at) <=> (RecordedLate \/ Rebased \/ OutOfSight)'
  BY <1>2, Zenon DEF RollingReasonOf, RecordedLate, Rebased, OutOfSight
<1>4. EpochReasonOf(stretch') <=> (Leaked \/ SettledAfter({"swept", "revoked"}))'
  BY Zenon DEF EpochReasonOf, Leaked, SettledAfter, Settlements
<1>5. BucketsReasonOf(stretch', shadow') <=> (Leaked \/ Withdrawn \/ ShortBefore)'
  BY Zenon DEF BucketsReasonOf, Leaked, Withdrawn, ShortBefore, Accounted
<1> QED BY <1>1, <1>3, <1>4, <1>5, Zenon DEF AlarmsHaveAReason, ReasonFor

LEMMA TripsForAReason == ASSUME SlowInv, TickTrips PROVE AlarmsHaveAReason'
<1>1. /\ alarm' \in RulesBroken /\ vault' = vault /\ wallEpoch' = wallEpoch /\ stretch' = stretch /\ shadow' = shadow
  BY DEF TickTrips
<1>2. PICK x : x = alarm' /\ x \in RulesBroken
  BY <1>1
<1>3. x = "buckets" => BucketsReasonOf(stretch, shadow)
  <2>1. x = "buckets" => Leaked \/ Withdrawn \/ ShortBefore
    BY <1>2, RulesBrokenAre, BucketsReason
  <2> QED BY <2>1, Zenon DEF BucketsReasonOf, Leaked, Withdrawn, ShortBefore
<1>4. x = "epoch" => EpochReasonOf(stretch)
  <2>1. x = "epoch" => Leaked \/ SettledAfter({"swept", "revoked"})
    BY <1>2, RulesBrokenAre, EpochReason
  <2> QED BY <2>1, Zenon DEF EpochReasonOf, Leaked, SettledAfter, Settlements
<1>5. x = "rolling" => RollingReasonOf(LogAt(stretch, wallEpoch, shadow, vault.buybackBac), wallEpoch, shadow.roll_base_at)
  <2>1. x = "rolling" => RecordedLate \/ Rebased \/ OutOfSight
    BY <1>2, RulesBrokenAre, RollingReason
  <2>2. release_log = LogAt(stretch, wallEpoch, shadow, vault.buybackBac)
    BY Zenon DEF release_log, LogAt, Settlements
  <2>3. InWindow = WindowOf(release_log, wallEpoch)
    BY Zenon DEF InWindow, WindowOf
  <2>4. RollingReasonOf(release_log, wallEpoch, shadow.roll_base_at) <=> RecordedLate \/ Rebased \/ OutOfSight
    BY <2>3, Zenon DEF RollingReasonOf, RecordedLate, Rebased, OutOfSight
  <2> QED BY <2>1, <2>2, <2>4, Zenon
<1>6. ReasonFor(x, stretch, wallEpoch, shadow, vault.buybackBac)
  BY <1>3, <1>4, <1>5, Zenon DEF ReasonFor
<1>7. ReasonFor(alarm', stretch', wallEpoch', shadow', vault'.buybackBac)
  BY <1>1, <1>2, <1>6, Zenon
<1> QED BY <1>7, ReasonIsNext

LEMMA NoAlarmNeedsNoReason == ASSUME alarm' = "none" PROVE AlarmsHaveAReason'
BY DEF AlarmsHaveAReason

LEMMA TickEndsKeeps ==
    ASSUME SlowInv, failures \in Nat, TickEnds
    PROVE  SlowInv' /\ (~Leaked \/ ~usablePrev \/ Refilled \/ failures' # failures)
<1>0. InvOf(vault, shadow, stretch, settledEpoch, wallEpoch)
  BY InvIs
<1>1. /\ PassedOver(RulesBroken) /\ shadow' = SnapshotSaved(ReleasesRecorded, TRUE) /\ stretch' = <<>>
      /\ vault' = vault /\ settledEpoch' = settledEpoch /\ wallEpoch' = wallEpoch
  BY DEF TickEnds
<1>2. RulesBroken = {} => CheckBuckets /\ CheckEpochReleases
  BY RulesBrokenAre
<1>3. ~Leaked \/ ~usablePrev \/ Refilled \/ failures' # failures
  <2>1. RulesBroken # {} => failures < MaxFailures /\ failures' = failures + 1
    BY <1>1 DEF PassedOver
  <2>2. failures < MaxFailures /\ failures' = failures + 1 => failures' # failures
    OBVIOUS
  <2> QED BY <1>2, <2>1, <2>2, LeakShows
<1>5. /\ ReleasesRecorded \in ShadowRows /\ LogOf(stretch, ReleasesRecorded, settledEpoch, wallEpoch)
  BY RowsRecorded
<1>6. PICK w, s, r : w = SnapshotSaved(ReleasesRecorded, TRUE) /\ s = <<>> /\ r = ReleasesRecorded
  OBVIOUS
<1>7. /\ w \in ShadowRows /\ w.snapshot = vault /\ w.atCursor = TRUE /\ w.release_log = r.release_log
      /\ w.roll_base = r.roll_base /\ w.roll_base_at = r.roll_base_at
  <2>1. TRUE \in BOOLEAN /\ vault \in SlowBooks
    BY <1>0 DEF InvOf
  <2> QED BY <1>5, <1>6, <2>1, Saved
<1>8. LogOf(s, w, settledEpoch, wallEpoch)
  <2>1. \A j \in 1..Len(s) : FALSE
    BY <1>6
  <2>2. LogOf(stretch, r, settledEpoch, wallEpoch)
    BY <1>5, <1>6
  <2> QED BY <1>7, <2>1, <2>2 DEF LogOf
<1>9. StretchFits(vault, s, w.snapshot, w.atCursor)
  BY <1>0, <1>6, <1>7, StretchStarts DEF InvOf
<1>10. s \in Seq(Happening)
  BY <1>6
<1>11. InvOf(vault, w, s, settledEpoch, wallEpoch)
  BY <1>0, <1>7, <1>8, <1>9, <1>10 DEF InvOf
<1> QED BY <1>1, <1>3, <1>6, <1>11, InvIsNext

LEMMA TickDiesKeeps == ASSUME SlowInv, TickDies PROVE SlowInv'
<1>0. InvOf(vault, shadow, stretch, settledEpoch, wallEpoch)
  BY InvIs
<1>1. /\ stretch' = stretch /\ vault' = vault /\ settledEpoch' = settledEpoch /\ wallEpoch' = wallEpoch
      /\ shadow' = ReleasesRecorded \/ shadow' = SnapshotSaved(ReleasesRecorded, FALSE)
  BY DEF TickDies
<1>2. PICK r : r = ReleasesRecorded
  OBVIOUS
<1>3. /\ r \in ShadowRows /\ r.snapshot = shadow.snapshot /\ r.atCursor = shadow.atCursor
      /\ LogOf(stretch, r, settledEpoch, wallEpoch)
  BY <1>2, RowsRecorded
<1>4. CASE shadow' = ReleasesRecorded
  <2>1. InvOf(vault, r, stretch, settledEpoch, wallEpoch)
    BY <1>0, <1>3 DEF InvOf
  <2> QED BY <1>1, <1>2, <1>4, <2>1, InvIsNext
<1>5. CASE shadow' = SnapshotSaved(ReleasesRecorded, FALSE)
  <2>1. PICK w : w = SnapshotSaved(r, FALSE)
    OBVIOUS
  <2>2. /\ w \in ShadowRows /\ w.snapshot = vault /\ w.atCursor = FALSE /\ w.release_log = r.release_log
        /\ w.roll_base = r.roll_base /\ w.roll_base_at = r.roll_base_at
    <3>1. FALSE \in BOOLEAN /\ vault \in SlowBooks
      BY <1>0 DEF InvOf
    <3> QED BY <1>3, <2>1, <3>1, Saved
  <2>3. LogOf(stretch, w, settledEpoch, wallEpoch)
    BY <1>3, <2>2 DEF LogOf
  <2>4. StretchFits(vault, stretch, w.snapshot, w.atCursor)
    BY <1>0, <2>2 DEF InvOf, StretchFits
  <2>5. InvOf(vault, w, stretch, settledEpoch, wallEpoch)
    BY <1>0, <2>2, <2>3, <2>4 DEF InvOf
  <2> QED BY <1>1, <1>2, <1>5, <2>1, <2>5, InvIsNext
<1> QED BY <1>1, <1>4, <1>5

\* The invariant with the property, and what a step must keep.
SlowIInv == SlowInv /\ AlarmsHaveAReason /\ failures \in Nat

LEMMA SlowStarts == SlowInit => SlowIInv
<1> SUFFICES ASSUME SlowInit PROVE SlowIInv
  OBVIOUS
<1>1. AlarmsHaveAReason /\ failures \in Nat
  BY DEF SlowInit, AlarmsHaveAReason
<1> QED BY <1>1, SlowInvStarts DEF SlowIInv

LEMMA SlowStep ==
    ASSUME SlowIInv, SlowNext
    PROVE  SlowIInv' /\ (stretch # <<>> /\ stretch' = <<>> => ~Leaked \/ ~usablePrev \/ Refilled \/ failures' # failures)
<1>0. SlowInv /\ failures \in Nat
  BY DEF SlowIInv
<1>1. CASE BridgeSteps
  <2>1. PICK e : BridgeMoves(e)
    BY <1>0, <1>1, BridgeStepsMove
  <2>2. SlowInv'
    BY <1>0, <2>1, BridgeKeeps
  <2>3. alarm' = "none"
    <3>1. alarm = "none"
      BY <1>1, Zenon DEF BridgeSteps, LockBac, Buyback, BacArrives, SweepUntrackedBac, BurnLocked,
                         EmergencyWithdrawToken, ClaimExit, Collect, RevokeEpochOwed,
                         SettleEpoch, Settles, Leak, Leaks, Shown, Happens
    <3>2. alarm' = alarm
      BY <2>1 DEF BridgeMoves
    <3> QED BY <3>1, <3>2
  <2>4. stretch' # <<>>
    <3>1. stretch' = Append(stretch, e) /\ stretch \in Seq(Happening) /\ e \in Happening
      BY <1>0, <2>1 DEF BridgeMoves, SlowInv
    <3> QED BY <3>1
  <2>5. failures' = failures
    BY <2>1 DEF BridgeMoves
  <2> QED BY <1>0, <2>2, <2>3, <2>4, <2>5, NoAlarmNeedsNoReason DEF SlowIInv
<1>2. CASE EpochPasses
  <2>1. SlowInv'
    BY <1>0, <1>2, EpochKeeps
  <2>2. alarm' = "none" /\ stretch' = stretch /\ failures' = failures
    BY <1>2 DEF EpochPasses
  <2> QED BY <1>0, <2>1, <2>2, NoAlarmNeedsNoReason DEF SlowIInv
<1>3. CASE TickTrips
  <2>1. AlarmsHaveAReason'
    BY <1>0, <1>3, TripsForAReason
  <2>2. vault' = vault /\ settledEpoch' = settledEpoch /\ wallEpoch' = wallEpoch /\ stretch' = stretch /\ shadow' = shadow
    BY <1>3 DEF TickTrips
  <2>3. SlowInv'
    BY <1>0, <2>2, InvIs, InvIsNext
  <2>4. failures' \in Nat
    BY <1>0, <1>3 DEF TickTrips, PassedOver
  <2> QED BY <2>1, <2>2, <2>3, <2>4 DEF SlowIInv
<1>4. CASE TickEnds
  <2>1. SlowInv' /\ (~Leaked \/ ~usablePrev \/ Refilled \/ failures' # failures)
    BY <1>0, <1>4, TickEndsKeeps
  <2>2. alarm' = "none" /\ failures' \in Nat
    BY <1>0, <1>4 DEF TickEnds, PassedOver
  <2> QED BY <2>1, <2>2, NoAlarmNeedsNoReason DEF SlowIInv
<1>5. CASE TickDies
  <2>1. SlowInv'
    BY <1>0, <1>5, TickDiesKeeps
  <2>2. alarm' = "none" /\ stretch' = stretch /\ failures' \in Nat
    BY <1>0, <1>5 DEF TickDies
  <2> QED BY <2>1, <2>2, NoAlarmNeedsNoReason DEF SlowIInv
<1> QED BY <1>1, <1>2, <1>3, <1>4, <1>5, Zenon DEF SlowNext, BridgeSteps

LEMMA SlowStutters ==
    ASSUME SlowIInv, UNCHANGED slowVars
    PROVE  SlowIInv' /\ (stretch # <<>> /\ stretch' = <<>> => ~Leaked \/ ~usablePrev \/ Refilled \/ failures' # failures)
<1>1. /\ vault' = vault /\ settledEpoch' = settledEpoch /\ wallEpoch' = wallEpoch /\ stretch' = stretch
      /\ shadow' = shadow /\ alarm' = alarm /\ failures' = failures
  BY Zenon DEF slowVars
<1>2. SlowInv'
  BY <1>1, InvIs, InvIsNext DEF SlowIInv
<1>3. AlarmsHaveAReason'
  <2>1. ReasonFor(alarm, stretch, wallEpoch, shadow, vault.buybackBac)
    BY ReasonIs DEF SlowIInv
  <2>2. ReasonFor(alarm', stretch', wallEpoch', shadow', vault'.buybackBac)
    BY <1>1, <2>1, Zenon
  <2> QED BY <2>2, ReasonIsNext
<1> QED BY <1>1, <1>2, <1>3 DEF SlowIInv

\* The slow loop moves alone, or not at all.
LEMMA SlowMoves == [EdgesNext]_edgeVars => [SlowNext]_slowVars
BY Zenon DEF EdgesNext, edgeVars, mathVars

\* The slow loop raises an alarm for a reason, and is silent for one: whatever amounts move, whatever part
\* a pot may be, over days of any length, with any number of moves, epochs and failures between two ticks.
THEOREM SlowLoopTrusted == EdgesSpec => SlowLoopCanBeTrusted
<1>1. EdgesInit => SlowIInv
  BY SlowStarts DEF EdgesInit
<1>2. SlowIInv /\ [EdgesNext]_edgeVars => SlowIInv'
  BY SlowMoves, SlowStep, SlowStutters
<1>3. SlowIInv => AlarmsHaveAReason
  BY DEF SlowIInv
<1>4. SlowIInv /\ [EdgesNext]_edgeVars => [stretch # <<>> /\ stretch' = <<>> => ~Leaked \/ ~usablePrev \/ Refilled \/ failures' # failures]_slowVars
  BY SlowMoves, SlowStep
<1> QED BY <1>1, <1>2, <1>3, <1>4, PTL DEF EdgesSpec, SlowLoopCanBeTrusted, LeaksAreSeen
=============================================================================
