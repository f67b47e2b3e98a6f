---------------------------- MODULE EdgesProofs ----------------------------
(***************************************************************************)
(* What the parts on the edges guarantee for every set of wallets, nodes,  *)
(* accounts, payments and messages.  Each part is proved about on its own; *)
(* EdgesSpec lets one part move and leaves the others alone, so what the   *)
(* parts keep, it keeps.                                                   *)
(***************************************************************************)
EXTENDS MCEdges, Numbers

-----------------------------------------------------------------------------
(* BacTaxRouter: the running call *)

\* A push of the running call, and what it falls back on.
Pushes == [to : Targets, amount : Nat, retry : BOOLEAN]
Snapshots == [paid : Nat, accounted : Nat, unsplit : Nat]

\* What the pushes of a call still bring to a target: a retry brings what is in its bucket, nothing more.
Brings(push, t) == IF push.to = t /\ ~push.retry THEN push.amount ELSE 0
Flight(p, t) == SumFunction([i \in DOMAIN p |-> Brings(p[i], t)])

LEMMA FlightOfNone == \A t : Flight(<< >>, t) = 0
<1>1. ASSUME NEW t PROVE Flight(<< >>, t) = 0
  <2> DEFINE f == [i \in DOMAIN << >> |-> Brings(<< >>[i], t)]
  <2>1. DOMAIN f = {}
    OBVIOUS
  <2> HIDE DEF f
  <2>2. SumFunction(f) = 0
    BY <2>1, SumEmpty DEF SumFunction
  <2> QED BY <2>2 DEF f, Flight
<1> QED BY <1>1

LEMMA FlightOfFirst ==
    ASSUME NEW p \in Seq(Pushes), p # << >>, NEW t \in Targets
    PROVE  /\ Flight(p, t) = Brings(Head(p), t) + Flight(Tail(p), t)
           /\ Flight(p, t) \in Nat /\ Flight(Tail(p), t) \in Nat /\ Brings(Head(p), t) \in Nat
<1> DEFINE n == Len(p) - 1
           rest == Tail(p)
           f == [i \in DOMAIN p |-> Brings(p[i], t)]
           g == [i \in DOMAIN rest |-> Brings(rest[i], t)]
<1>1. /\ n \in Nat /\ DOMAIN p = 1..n + 1 /\ DOMAIN rest = 1..n
      /\ \A i \in 1..n : rest[i] = p[i + 1]
      /\ Head(p) = p[1]
      /\ \A i \in 1..n + 1 : p[i] \in Pushes
  OBVIOUS
<1>2. \A push \in Pushes : Brings(push, t) \in Nat
  BY DEF Brings, Pushes
<1> HIDE DEF n, rest
<1>3. \A i \in 1..n + 1 : f[i] \in Nat
  BY <1>1, <1>2
<1>4. \A i \in 1..n : g[i] = f[i + 1]
  BY <1>1
<1>5. DOMAIN f = 1..n + 1 /\ DOMAIN g = 1..n /\ f[1] = Brings(Head(p), t)
  BY <1>1
<1> HIDE DEF f, g
<1>6. SumFunctionOnSet(f, 1..n + 1) = f[1] + SumFunctionOnSet(g, 1..n)
  <2>1. n \in Nat /\ \A i \in 1..n + 1 : f[i] \in Int
    BY <1>1, <1>3
  <2> QED BY ONLY <2>1, <1>4, SumFirst
<1>7. SumFunctionOnSet(f, 1..n + 1) \in Nat /\ f[1] \in Nat
  <2>1. IsFiniteSet(1..n + 1)
    BY <1>1, FS_Interval
  <2> QED BY <1>1, <1>3, <2>1, SumNat
<1>8. SumFunctionOnSet(g, 1..n) \in Nat
  <2>1. IsFiniteSet(1..n)
    BY <1>1, FS_Interval
  <2>2. \A i \in 1..n : g[i] \in Nat
    BY <1>1, <1>3, <1>4
  <2> QED BY <2>1, <2>2, SumNat
<1>9. Flight(p, t) = SumFunctionOnSet(f, 1..n + 1) /\ Flight(rest, t) = SumFunctionOnSet(g, 1..n)
  BY <1>5 DEF Flight, SumFunction, f, g
<1> QED BY <1>5, <1>6, <1>7, <1>8, <1>9 DEF rest

-----------------------------------------------------------------------------
(* BacTaxRouter: the inductive invariant *)

RouterTypes ==
    /\ balance \in Nat /\ accounted \in Nat /\ unsplit \in Nat /\ paid \in Nat
    /\ splits \in Nat
    /\ stuck \in [Targets -> Nat] /\ lifetimeTo \in [Targets -> Nat]
    /\ pushes \in Seq(Pushes)
    /\ bridgeAccepts \in BOOLEAN
    /\ fundBalance \in Nat /\ lifetimeReceived \in Nat /\ lifetimeWithdrawn \in Nat
    /\ given \in Nat /\ forcedBnb \in Nat

\* What the call still owes a target: the open push, a retry or not, and the pushes to come.
Owes(p, open, t) ==
    IF open = << >> THEN Flight(p, t)
    ELSE (IF Head(p).to = t THEN Head(p).amount ELSE 0) + Flight(Tail(p), t)

InCall(t) == Owes(pushes, opened, t)
Held == unsplit + stuck["bridge"] + stuck["nodeFund"]
Sent == lifetimeTo["bridge"] + lifetimeTo["nodeFund"]
Away == IF opened = << >> THEN 0 ELSE Head(pushes).amount

\* An open push has a state to fall back on whose books hold with the same buckets, and what was
\* paid in since is on top of it.
FallbackHolds ==
    opened # << >> =>
        /\ pushes # << >> /\ opened[1] \in Snapshots
        /\ opened[1].paid <= paid
        /\ opened[1].accounted + (paid - opened[1].paid) <= balance
        /\ opened[1].accounted + Away
             = opened[1].unsplit + stuck["bridge"] + stuck["nodeFund"] + InCall("bridge") + InCall("nodeFund")

RouterBooks ==
    /\ accounted <= balance
    /\ accounted + Away = Held + InCall("bridge") + InCall("nodeFund")
    /\ paid = Sent + balance + Away

HalvesAreEven ==
    LET half(t) == lifetimeTo[t] + stuck[t] + InCall(t)
    IN  half("bridge") - half("nodeFund") \in 0..splits

RouterInv == RouterTypes /\ FallbackHolds /\ RouterBooks /\ HalvesAreEven /\ FundBooksBalance

\* The sums of the specification are what the call owes.
LEMMA InFlightIsOwed ==
    ASSUME RouterInv, NEW t \in Targets
    PROVE  InFlightTo(t) = InCall(t) /\ InCall(t) \in Nat
<1> DEFINE f == [i \in DOMAIN pushes |-> IF pushes[i].to = t THEN Due(i) ELSE 0]
<1>1. pushes \in Seq(Pushes) /\ (opened # << >> => pushes # << >>)
  BY DEF RouterInv, RouterTypes, FallbackHolds
<1>2. \A i \in DOMAIN pushes : pushes[i] \in Pushes
  BY <1>1
<1>3. CASE opened = << >>
  <2>1. f = [i \in DOMAIN pushes |-> Brings(pushes[i], t)]
    BY <1>2, <1>3 DEF Due, Brings, Pushes
  <2>2. InFlightTo(t) = Flight(pushes, t)
    BY <2>1 DEF InFlightTo, Flight
  <2>3. Flight(pushes, t) \in Nat
    <3>1. CASE pushes = << >>
      BY <3>1, FlightOfNone
    <3>2. CASE pushes # << >>
      BY <1>1, <3>2, FlightOfFirst
    <3> QED BY <3>1, <3>2
  <2> QED BY <1>3, <2>2, <2>3 DEF InCall, Owes
<1>4. CASE opened # << >>
  <2> DEFINE n == Len(pushes) - 1
             rest == Tail(pushes)
             g == [i \in DOMAIN rest |-> Brings(rest[i], t)]
             first == IF Head(pushes).to = t THEN Head(pushes).amount ELSE 0
  <2>1. /\ n \in Nat /\ DOMAIN pushes = 1..n + 1 /\ DOMAIN rest = 1..n
        /\ \A i \in 1..n : rest[i] = pushes[i + 1]
        /\ Head(pushes) = pushes[1]
    BY <1>1, <1>4
  <2>2. \A push \in Pushes : Brings(push, t) \in Nat /\ push.amount \in Nat /\ push.retry \in BOOLEAN
    BY DEF Brings, Pushes
  <2>3. f[1] = first /\ first \in Nat
    <3>1. 1 \in DOMAIN pushes /\ Due(1) = pushes[1].amount
      BY <1>4, <2>1 DEF Due
    <3> QED BY <1>2, <2>1, <2>2, <3>1
  <2> HIDE DEF n, rest, first
  <2>4. \A i \in 1..n : g[i] = f[i + 1] /\ g[i] \in Nat
    <3> SUFFICES ASSUME NEW i \in 1..n PROVE g[i] = f[i + 1] /\ g[i] \in Nat
      OBVIOUS
    <3>1. i + 1 \in DOMAIN pushes /\ i + 1 # 1 /\ pushes[i + 1] \in Pushes
      BY <1>2, <2>1
    <3>2. Due(i + 1) = IF pushes[i + 1].retry THEN 0 ELSE pushes[i + 1].amount
      BY <3>1 DEF Due
    <3>3. f[i + 1] = Brings(pushes[i + 1], t)
      BY <3>1, <3>2, <2>2 DEF Brings
    <3>4. g[i] = Brings(pushes[i + 1], t)
      BY <2>1
    <3> QED BY <2>2, <3>1, <3>3, <3>4
  <2>5. DOMAIN f = 1..n + 1 /\ DOMAIN g = 1..n
    BY <2>1
  <2> HIDE DEF f, g
  <2>6. SumFunctionOnSet(f, 1..n + 1) = f[1] + SumFunctionOnSet(g, 1..n)
    <3>1. \A i \in 1..n + 1 : f[i] \in Int
      <4>1. ASSUME NEW i \in 1..n + 1 PROVE f[i] \in Int
        <5>1. CASE i = 1
          BY <2>3, <5>1
        <5>2. CASE i # 1
          <6>1. i - 1 \in 1..n /\ (i - 1) + 1 = i
            BY <2>1, <5>2
          <6> QED BY <2>4, <6>1
        <5> QED BY <5>1, <5>2
      <4> QED BY <4>1
    <3>2. n \in Nat /\ \A i \in 1..n : g[i] = f[i + 1]
      BY <2>1, <2>4
    <3> QED BY ONLY <3>1, <3>2, SumFirst
  <2>7. SumFunctionOnSet(g, 1..n) \in Nat
    <3>1. IsFiniteSet(1..n)
      BY <2>1, FS_Interval
    <3> QED BY <2>4, <3>1, SumNat
  <2>8. InFlightTo(t) = SumFunctionOnSet(f, 1..n + 1) /\ Flight(rest, t) = SumFunctionOnSet(g, 1..n)
    BY <2>5 DEF InFlightTo, Flight, SumFunction, f, g
  <2>9. InCall(t) = first + Flight(rest, t)
    BY <1>4 DEF InCall, Owes, first, rest
  <2> QED BY <2>3, <2>6, <2>7, <2>8, <2>9
<1> QED BY <1>3, <1>4

LEMMA RouterInvSuffices == RouterInv => TaxBooksBalance
<1> SUFFICES ASSUME RouterInv PROVE TaxBooksBalance
  OBVIOUS
<1>1. /\ InFlightTo("bridge") = InCall("bridge")
      /\ InFlightTo("nodeFund") = InCall("nodeFund")
  BY InFlightIsOwed DEF Targets
<1>2. Outside = Away /\ Buckets = Held
  BY DEF Outside, Away, Buckets, Held
<1>3. RouterIsSolvent
  BY <1>1, <1>2 DEF RouterInv, RouterBooks, RouterIsSolvent, Sent, RouterTypes, Held
<1>4. HalvesStayEven
  BY <1>1 DEF RouterInv, HalvesAreEven, HalvesStayEven
<1> QED BY <1>3, <1>4 DEF TaxBooksBalance, RouterInv

\* The pushes of a call: both halves and two retries, which bring nothing of their own.
LEMMA FlightOfRetries == Retries \in Seq(Pushes) /\ \A t \in Targets : Flight(Retries, t) = 0
<1>1. /\ Retries \in Seq(Pushes) /\ Retries # << >> /\ Tail(Retries) \in Seq(Pushes)
      /\ Tail(Retries) # << >> /\ Tail(Tail(Retries)) = << >>
      /\ Head(Retries).retry /\ Head(Tail(Retries)).retry
  BY DEF Retries, Retry, Pushes, Targets
<1>2. ASSUME NEW t \in Targets PROVE Flight(Retries, t) = 0
  <2>1. Flight(Tail(Retries), t) = 0 + 0
    BY <1>1, FlightOfFirst, FlightOfNone DEF Brings
  <2>2. Flight(Retries, t) = 0 + Flight(Tail(Retries), t)
    BY <1>1, FlightOfFirst DEF Brings
  <2> QED BY <2>1, <2>2
<1> QED BY <1>1, <1>2

BothHalves(a, b) == <<Push("bridge", a), Push("nodeFund", b)>> \o Retries

LEMMA FlightOfCall ==
    ASSUME NEW a \in Nat, NEW b \in Nat
    PROVE  /\ BothHalves(a, b) \in Seq(Pushes)
           /\ Flight(BothHalves(a, b), "bridge") = a /\ Flight(BothHalves(a, b), "nodeFund") = b
<1> DEFINE p == BothHalves(a, b)
           q == <<Push("nodeFund", b)>> \o Retries
<1>1. Push("bridge", a) \in Pushes /\ Push("nodeFund", b) \in Pushes
  BY DEF Push, Pushes, Targets
<1>2. Retries \in Seq(Pushes)
  BY FlightOfRetries
<1>3. p \in Seq(Pushes) /\ p # << >> /\ Head(p) = Push("bridge", a) /\ Tail(p) = q
  BY <1>1, <1>2 DEF BothHalves
<1>4. q \in Seq(Pushes) /\ q # << >> /\ Head(q) = Push("nodeFund", b) /\ Tail(q) = Retries
  BY <1>1, <1>2
<1> HIDE DEF p, q
<1>5. ASSUME NEW t \in Targets
      PROVE  Flight(p, t) = Brings(Push("bridge", a), t) + (Brings(Push("nodeFund", b), t) + 0)
  <2>1. Flight(q, t) = Brings(Push("nodeFund", b), t) + Flight(Retries, t)
    BY <1>4, FlightOfFirst
  <2>2. Flight(p, t) = Brings(Push("bridge", a), t) + Flight(q, t)
    BY <1>3, FlightOfFirst
  <2> QED BY <2>1, <2>2, FlightOfRetries
<1>6. /\ Brings(Push("bridge", a), "bridge") = a /\ Brings(Push("nodeFund", b), "bridge") = 0
      /\ Brings(Push("bridge", a), "nodeFund") = 0 /\ Brings(Push("nodeFund", b), "nodeFund") = b
  BY DEF Brings, Push
<1>7. "bridge" \in Targets /\ "nodeFund" \in Targets
  BY DEF Targets
<1>8. Flight(p, "bridge") = a + (0 + 0)
  BY <1>5, <1>6, <1>7
<1>9. Flight(p, "nodeFund") = 0 + (b + 0)
  BY <1>5, <1>6, <1>7
<1> QED BY <1>3, <1>8, <1>9 DEF p

\* Half of a total, rounded down, leaves a rest that is the same or one more.
LEMMA HalfOf ==
    ASSUME ROUTER_BPS = 2 * BRIDGE_BPS, NEW total \in Nat
    PROVE  /\ ToNodeFund(total) \in Nat
           /\ total - 2 * ToNodeFund(total) \in {0, 1}
<1>1. BRIDGE_BPS \in Nat \ {0} /\ ROUTER_BPS - BRIDGE_BPS = BRIDGE_BPS /\ ROUTER_BPS \in Nat \ {0}
  BY RouterSizes
<1> DEFINE half == ToNodeFund(total)
<1>2. total * BRIDGE_BPS \in Nat
  BY <1>1
<1>3. half = (total * BRIDGE_BPS) \div ROUTER_BPS
  BY <1>1 DEF ToNodeFund
<1>4. /\ half \in Nat /\ half * ROUTER_BPS <= total * BRIDGE_BPS
      /\ total * BRIDGE_BPS < half * ROUTER_BPS + ROUTER_BPS
  BY <1>1, <1>2, <1>3, DivBounds
<1> HIDE DEF half
<1>5. (2 * half) * BRIDGE_BPS = half * ROUTER_BPS /\ (2 * half + 2) * BRIDGE_BPS = half * ROUTER_BPS + ROUTER_BPS
  BY <1>1, <1>4
<1>6. 2 * half <= total
  <2>1. SUFFICES ASSUME total + 1 <= 2 * half PROVE FALSE
    BY <1>4
  <2> DEFINE z == 2 * half
  <2>2. z \in Nat /\ total + 1 <= z
    BY <1>4, <2>1
  <2> HIDE DEF z
  <2>3. (total + 1) * BRIDGE_BPS <= z * BRIDGE_BPS
    BY <1>1, <2>2
  <2>4. (total + 1) * BRIDGE_BPS = total * BRIDGE_BPS + BRIDGE_BPS
    BY <1>1
  <2> QED BY <1>1, <1>2, <1>4, <1>5, <2>3, <2>4 DEF z
<1>7. total < 2 * half + 2
  <2>1. SUFFICES ASSUME 2 * half + 2 <= total PROVE FALSE
    BY <1>4
  <2> DEFINE z == 2 * half + 2
  <2>2. z \in Nat /\ z <= total
    BY <1>4, <2>1
  <2> HIDE DEF z
  <2>3. z * BRIDGE_BPS <= total * BRIDGE_BPS
    BY <1>1, <2>2
  <2> QED BY <1>1, <1>2, <1>4, <1>5, <2>3 DEF z
<1>8. total - 2 * half = 0 \/ total - 2 * half = 1
  BY <1>4, <1>6, <1>7
<1> QED BY <1>4, <1>8 DEF half

-----------------------------------------------------------------------------
(* BacTaxRouter: the invariant, action by action *)

LEMMA RouterNumbers ==
    ASSUME RouterInv
    PROVE  /\ balance \in Nat /\ accounted \in Nat /\ unsplit \in Nat /\ paid \in Nat
           /\ splits \in Nat /\ Held \in Nat /\ Sent \in Nat /\ Away \in Nat
           /\ stuck["bridge"] \in Nat /\ stuck["nodeFund"] \in Nat
           /\ lifetimeTo["bridge"] \in Nat /\ lifetimeTo["nodeFund"] \in Nat
           /\ InCall("bridge") \in Nat /\ InCall("nodeFund") \in Nat
           /\ fundBalance \in Nat /\ lifetimeReceived \in Nat /\ lifetimeWithdrawn \in Nat
           /\ pushes \in Seq(Pushes)
<1>1. RouterTypes /\ (opened # << >> => pushes # << >>)
  BY DEF RouterInv, FallbackHolds
<1>2. "bridge" \in Targets /\ "nodeFund" \in Targets
  BY DEF Targets
<1>3. /\ stuck["bridge"] \in Nat /\ stuck["nodeFund"] \in Nat
      /\ lifetimeTo["bridge"] \in Nat /\ lifetimeTo["nodeFund"] \in Nat
      /\ balance \in Nat /\ accounted \in Nat /\ unsplit \in Nat /\ paid \in Nat
      /\ splits \in Nat
  BY <1>1, <1>2 DEF RouterTypes
<1>4. pushes # << >> => Head(pushes) \in Pushes
  BY <1>1 DEF RouterTypes
<1>5. Away \in Nat
  BY <1>1, <1>4 DEF Away, Pushes
<1>6. InCall("bridge") \in Nat /\ InCall("nodeFund") \in Nat
  BY <1>2, InFlightIsOwed
<1>7. Held \in Nat /\ Sent \in Nat
  BY <1>3 DEF Held, Sent
<1> QED BY <1>1, <1>3, <1>5, <1>6, <1>7 DEF RouterTypes

LEMMA RouterStart == RouterInit => RouterInv
<1> SUFFICES ASSUME RouterInit PROVE RouterInv
  OBVIOUS
<1>1. RouterTypes
  BY DEF RouterInit, FundInit, RouterTypes
<1>2. pushes = << >> /\ opened = << >>
  BY DEF RouterInit
<1>3. InCall("bridge") = 0 /\ InCall("nodeFund") = 0
  BY <1>2, FlightOfNone DEF InCall, Owes
<1>4. stuck["bridge"] = 0 /\ stuck["nodeFund"] = 0 /\ lifetimeTo["bridge"] = 0 /\ lifetimeTo["nodeFund"] = 0
  BY DEF RouterInit, Targets
<1>5. Away = 0 /\ Held = 0 /\ Sent = 0 /\ balance = 0 /\ accounted = 0 /\ paid = 0 /\ splits = 0
  BY <1>2, <1>4 DEF RouterInit, Away, Held, Sent
<1>6. FallbackHolds
  BY <1>2 DEF FallbackHolds
<1>7. RouterBooks
  BY <1>3, <1>5 DEF RouterBooks
<1>8. HalvesAreEven
  BY <1>3, <1>4, <1>5 DEF HalvesAreEven
<1>9. FundBooksBalance
  BY <1>4 DEF RouterInit, FundInit, FundBooksBalance
<1> QED BY <1>1, <1>6, <1>7, <1>8, <1>9 DEF RouterInv

\* A step that leaves the call and the buckets alone: BNB arrives, the books are synced.
LEMMA BooksStep ==
    ASSUME RouterInv, NEW amount \in Nat, NEW grown \in Nat,
           balance' = balance + amount, paid' = paid + amount,
           accounted' = accounted + grown, unsplit' = unsplit + grown,
           accounted + grown <= balance + amount,
           UNCHANGED <<stuck, lifetimeTo, pushes, opened, splits, fundVars>>,
           bridgeAccepts' \in BOOLEAN
    PROVE  RouterInv'
<1>1. /\ balance \in Nat /\ accounted \in Nat /\ unsplit \in Nat /\ paid \in Nat
      /\ splits \in Nat /\ Held \in Nat /\ Sent \in Nat /\ Away \in Nat
      /\ InCall("bridge") \in Nat /\ InCall("nodeFund") \in Nat
      /\ stuck["bridge"] \in Nat /\ stuck["nodeFund"] \in Nat
  BY RouterNumbers
<1>2. RouterTypes'
  BY <1>1 DEF RouterInv, RouterTypes, fundVars, giftVars
<1>3. /\ InCall("bridge")' = InCall("bridge") /\ InCall("nodeFund")' = InCall("nodeFund")
      /\ Away' = Away /\ Sent' = Sent /\ Held' = Held + grown
  BY <1>1 DEF InCall, Owes, Away, Sent, Held
<1>4. FallbackHolds'
  <2>1. SUFFICES ASSUME opened # << >>
                 PROVE  /\ pushes # << >> /\ opened[1] \in Snapshots
                        /\ opened[1].paid <= paid'
                        /\ opened[1].accounted + (paid' - opened[1].paid) <= balance'
                        /\ opened[1].accounted + Away
                             = opened[1].unsplit + stuck["bridge"] + stuck["nodeFund"]
                                 + InCall("bridge") + InCall("nodeFund")
    BY <1>3 DEF FallbackHolds
  <2>2. /\ pushes # << >> /\ opened[1] \in Snapshots
        /\ opened[1].paid <= paid
        /\ opened[1].accounted + (paid - opened[1].paid) <= balance
        /\ opened[1].accounted + Away
             = opened[1].unsplit + stuck["bridge"] + stuck["nodeFund"] + InCall("bridge") + InCall("nodeFund")
    BY <2>1 DEF RouterInv, FallbackHolds
  <2> DEFINE z == opened[1].paid
             x == opened[1].accounted
  <2>3. z \in Nat /\ x \in Nat
    BY <2>2 DEF Snapshots
  <2>4. z <= paid /\ x + (paid - z) <= balance
    BY <2>2
  <2>5. z <= paid' /\ x + (paid' - z) <= balance'
    <3> HIDE DEF x, z
    <3>1. paid \in Nat /\ balance \in Nat /\ paid' = paid + amount /\ balance' = balance + amount
      BY <1>1
    <3> QED BY ONLY <2>3, <2>4, <3>1, amount \in Nat
  <2> QED BY <2>2, <2>5
<1>5. RouterBooks'
  <2>1. /\ accounted <= balance
        /\ accounted + Away = Held + InCall("bridge") + InCall("nodeFund")
        /\ paid = Sent + balance + Away
    BY DEF RouterInv, RouterBooks
  <2>2. /\ accounted + grown + Away = Held + grown + InCall("bridge") + InCall("nodeFund")
        /\ paid + amount = Sent + (balance + amount) + Away
    BY <1>1, <2>1
  <2> QED BY <1>3, <2>2 DEF RouterBooks
<1>6. HalvesAreEven'
  BY <1>3 DEF RouterInv, HalvesAreEven
<1>7. FundBooksBalance'
  BY DEF RouterInv, FundBooksBalance, fundVars, giftVars
<1> QED BY <1>2, <1>4, <1>5, <1>6, <1>7 DEF RouterInv

LEMMA GrowthFits ==
    ASSUME NEW bal \in Nat, accounted \in Nat
    PROVE  /\ Grown(bal) \in Nat
           /\ accounted <= bal => accounted + Grown(bal) <= bal
BY DEF Grown

\* A call begins: what is in the books and not yet split becomes pushes, or nothing does.
LEMMA CallBegins ==
    ASSUME RouterInv, pushes = << >>, NEW grown \in Nat, accounted + grown <= balance,
           NEW a \in Nat, NEW b \in Nat, NEW more \in {0, 1},
           accounted' = accounted + grown, unsplit' = unsplit + grown - (a + b), unsplit' \in Nat,
           pushes' \in Seq(Pushes), Flight(pushes', "bridge") = a, Flight(pushes', "nodeFund") = b,
           a - b \in 0..more, splits' = splits + more,
           UNCHANGED <<balance, stuck, lifetimeTo, opened, bridgeAccepts, paid, fundVars>>
    PROVE  RouterInv'
<1>1. /\ balance \in Nat /\ accounted \in Nat /\ unsplit \in Nat /\ paid \in Nat
      /\ splits \in Nat /\ Held \in Nat /\ Sent \in Nat /\ Away \in Nat
      /\ stuck["bridge"] \in Nat /\ stuck["nodeFund"] \in Nat
      /\ lifetimeTo["bridge"] \in Nat /\ lifetimeTo["nodeFund"] \in Nat
  BY RouterNumbers
<1>2. opened = << >>
  BY DEF RouterInv, FallbackHolds
<1>3. InCall("bridge") = 0 /\ InCall("nodeFund") = 0
  BY <1>2, FlightOfNone DEF InCall, Owes
<1>4. InCall("bridge")' = a /\ InCall("nodeFund")' = b /\ Away = 0 /\ Away' = 0 /\ Sent' = Sent
  BY <1>2 DEF InCall, Owes, Away, Sent
<1>5. RouterTypes'
  BY <1>1 DEF RouterInv, RouterTypes, fundVars, giftVars
<1>6. FallbackHolds'
  BY <1>2 DEF FallbackHolds
<1>7. Held' = Held + grown - (a + b)
  BY <1>1 DEF Held
<1>8. RouterBooks'
  <2>1. accounted + 0 = Held + 0 + 0 /\ paid = Sent + balance + 0
    BY <1>3, <1>4 DEF RouterInv, RouterBooks
  <2>2. accounted' + 0 = Held' + a + b
    BY <1>1, <1>7, <2>1
  <2> QED BY <1>4, <2>1, <2>2 DEF RouterBooks
<1>9. HalvesAreEven'
  <2> DEFINE x == lifetimeTo["bridge"] + stuck["bridge"]
             y == lifetimeTo["nodeFund"] + stuck["nodeFund"]
  <2>1. (x + 0) - (y + 0) \in 0..splits
    BY <1>3 DEF RouterInv, HalvesAreEven
  <2>2. x \in Nat /\ y \in Nat
    <3>1. /\ lifetimeTo["bridge"] \in Nat /\ stuck["bridge"] \in Nat
          /\ lifetimeTo["nodeFund"] \in Nat /\ stuck["nodeFund"] \in Nat
      BY <1>1
    <3> QED BY ONLY <3>1
  <2> HIDE DEF x, y
  <2>3. (x + a) - (y + b) \in 0..splits + more
    BY <1>1, <2>1, <2>2
  <2> QED BY <1>4, <2>3 DEF HalvesAreEven, x, y
<1>10. FundBooksBalance'
  BY DEF RouterInv, FundBooksBalance, fundVars, giftVars
<1> QED BY <1>5, <1>6, <1>8, <1>9, <1>10 DEF RouterInv

LEMMA SettleKeeps ==
    ASSUME ROUTER_BPS = 2 * BRIDGE_BPS, RouterInv, Settle
    PROVE  RouterInv'
<1> DEFINE grown == Grown(balance)
           total == unsplit + grown
           b == ToNodeFund(total)
           a == total - b
           more == IF total = 0 THEN 0 ELSE 1
<1>1. balance \in Nat /\ accounted \in Nat /\ unsplit \in Nat /\ accounted <= balance /\ splits \in Nat
  BY RouterNumbers DEF RouterInv, RouterBooks
<1>2. grown \in Nat /\ accounted + grown <= balance
  BY <1>1, GrowthFits
<1>3. /\ pushes = << >> /\ accounted' = accounted + grown /\ unsplit' = 0
      /\ splits' = splits + more
      /\ pushes' = <<Push("bridge", a), Push("nodeFund", b)>> \o Retries
      /\ UNCHANGED <<balance, stuck, lifetimeTo, opened, bridgeAccepts, paid, fundVars>>
  BY DEF Settle, Idle
<1> HIDE DEF grown
<1>4. total \in Nat
  BY <1>1, <1>2
<1> HIDE DEF total
<1>5. b \in Nat /\ total - 2 * b \in {0, 1}
  BY <1>4, HalfOf
<1> HIDE DEF b
<1>6. a \in Nat /\ a - b \in 0..more /\ more \in {0, 1} /\ a + b = total
  BY <1>4, <1>5
<1> HIDE DEF a, more
<1>7. /\ pushes' \in Seq(Pushes) /\ Flight(pushes', "bridge") = a /\ Flight(pushes', "nodeFund") = b
  <2> DEFINE p == BothHalves(a, b)
  <2>1. p \in Seq(Pushes) /\ Flight(p, "bridge") = a /\ Flight(p, "nodeFund") = b
    BY <1>5, <1>6, FlightOfCall
  <2>2. pushes' = p
    BY <1>3 DEF BothHalves
  <2> QED BY <2>1, <2>2
<1>8. unsplit' = unsplit + grown - (a + b) /\ unsplit' \in Nat
  BY <1>1, <1>2, <1>3, <1>6 DEF total
<1> QED BY <1>2, <1>3, <1>5, <1>6, <1>7, <1>8, CallBegins

LEMMA RetryPushKeeps ==
    ASSUME RouterInv, RetryPush
    PROVE  RouterInv'
<1>1. balance \in Nat /\ accounted \in Nat /\ unsplit \in Nat /\ splits \in Nat /\ accounted <= balance
  BY RouterNumbers DEF RouterInv, RouterBooks
<1>2. /\ pushes = << >> /\ pushes' = Retries
      /\ UNCHANGED <<balance, books, stuck, lifetimeTo, opened, bridgeAccepts, paid, splits, fundVars>>
  BY DEF RetryPush, Idle
<1>3. pushes' \in Seq(Pushes) /\ Flight(pushes', "bridge") = 0 /\ Flight(pushes', "nodeFund") = 0
  BY <1>2, FlightOfRetries DEF Targets
<1>4. /\ accounted' = accounted + 0 /\ unsplit' = unsplit + 0 - (0 + 0) /\ unsplit' \in Nat
      /\ splits' = splits + 0 /\ accounted + 0 <= balance
  BY <1>1, <1>2 DEF books
<1>5. 0 \in {0, 1} /\ 0 - 0 \in 0..0 /\ 0 \in Nat
  OBVIOUS
<1> QED BY <1>2, <1>3, <1>4, <1>5, CallBegins

\* A step of the call takes nothing from a target and gives it nothing: what was sent to it, is stuck
\* for it or is under way to it is the same.
Whole(t) == lifetimeTo[t] + stuck[t] + InCall(t)

LEMMA WholeIsEven ==
    ASSUME RouterInv, splits' = splits, \A t \in Targets : Whole(t)' = Whole(t)
    PROVE  HalvesAreEven'
<1>1. "bridge" \in Targets /\ "nodeFund" \in Targets
  BY DEF Targets
<1>2. Whole("bridge")' = Whole("bridge") /\ Whole("nodeFund")' = Whole("nodeFund")
  <2>1. ASSUME NEW t \in Targets PROVE Whole(t)' = Whole(t)
    OBVIOUS
  <2> QED BY <1>1, <2>1
<1>3. Whole("bridge") - Whole("nodeFund") \in 0..splits
  BY DEF RouterInv, HalvesAreEven, Whole
<1>4. (Whole("bridge") - Whole("nodeFund") \in 0..splits)'
  BY <1>2, <1>3
<1> QED BY <1>4 DEF HalvesAreEven, Whole

LEMMA SkipKeeps ==
    ASSUME RouterInv, SkipEmptyPush
    PROVE  RouterInv'
<1>1. /\ pushes \in Seq(Pushes) /\ pushes # << >> /\ opened = << >> /\ pushes' = Tail(pushes)
      /\ UNCHANGED <<balance, books, stuck, lifetimeTo, opened, bridgeAccepts, paid, splits, fundVars>>
  BY RouterNumbers DEF SkipEmptyPush, Idle
<1>2. ASSUME NEW t \in Targets PROVE InCall(t)' = InCall(t)
  <2>1. Brings(Head(pushes), t) = 0
    BY DEF SkipEmptyPush, AmountOf, Brings
  <2>2. Flight(pushes, t) = 0 + Flight(Tail(pushes), t) /\ Flight(Tail(pushes), t) \in Nat
    BY <1>1, <2>1, FlightOfFirst
  <2> QED BY <1>1, <2>2 DEF InCall, Owes
<1>3. InCall("bridge")' = InCall("bridge") /\ InCall("nodeFund")' = InCall("nodeFund")
  <2>1. "bridge" \in Targets /\ "nodeFund" \in Targets
    BY DEF Targets
  <2> QED BY <1>2, <2>1
<1>4. Away' = Away /\ Held' = Held /\ Sent' = Sent
  BY <1>1 DEF Away, Held, Sent, books
<1>5. RouterTypes'
  BY <1>1 DEF RouterInv, RouterTypes, fundVars, books, giftVars
<1>6. FallbackHolds' /\ FundBooksBalance'
  BY <1>1 DEF FallbackHolds, RouterInv, FundBooksBalance, fundVars, giftVars
<1>7. RouterBooks'
  BY <1>1, <1>3, <1>4 DEF RouterInv, RouterBooks, books
<1>8. HalvesAreEven'
  BY <1>1, <1>3 DEF RouterInv, HalvesAreEven
<1> QED BY <1>5, <1>6, <1>7, <1>8 DEF RouterInv

\* What one target has and what the other has, as sums of two.
LEMMA BothTargets ==
    ASSUME NEW f \in [Targets -> Nat]
    PROVE  f["bridge"] \in Nat /\ f["nodeFund"] \in Nat
BY DEF Targets

LEMMA OpenKeeps ==
    ASSUME RouterInv, OpenPush
    PROVE  RouterInv'
<1> DEFINE push == Head(pushes)
           rest == Tail(pushes)
           amount == AmountOf(push)
           first == [push EXCEPT !.amount = amount]
<1>1. /\ pushes \in Seq(Pushes) /\ pushes # << >> /\ opened = << >>
      /\ amount # 0 /\ amount <= balance
      /\ pushes' = <<first>> \o rest
      /\ stuck' = BucketsWhileOpen(push)
      /\ balance' = balance - amount
      /\ accounted' = accounted - (IF accounted < amount THEN accounted ELSE amount)
      /\ opened' = <<[paid |-> paid, accounted |-> accounted', unsplit |-> unsplit]>>
      /\ UNCHANGED <<unsplit, lifetimeTo, bridgeAccepts, paid, splits, fundVars>>
  BY RouterNumbers DEF OpenPush, Idle
<1>2. push \in Pushes /\ push.to \in Targets /\ push.amount \in Nat /\ push.retry \in BOOLEAN /\ rest \in Seq(Pushes)
  <2>1. push \in Pushes /\ rest \in Seq(Pushes)
    BY <1>1
  <2> QED BY <2>1 DEF Pushes
<1>3. /\ stuck \in [Targets -> Nat] /\ lifetimeTo \in [Targets -> Nat]
      /\ balance \in Nat /\ accounted \in Nat /\ unsplit \in Nat /\ paid \in Nat /\ splits \in Nat
      /\ InCall("bridge") \in Nat /\ InCall("nodeFund") \in Nat
      /\ accounted <= balance /\ Away = 0
      /\ accounted + 0 = Held + InCall("bridge") + InCall("nodeFund")
      /\ paid = Sent + balance + 0
  BY <1>1, RouterNumbers DEF RouterInv, RouterTypes, RouterBooks, Away
<1>4. amount \in Nat
  BY <1>2, <1>3 DEF AmountOf
<1>5. first \in Pushes /\ first.to = push.to /\ first.amount = amount /\ first.retry = push.retry
  BY <1>2, <1>4 DEF Pushes
<1>6. stuck' \in [Targets -> Nat]
  BY <1>1, <1>2, <1>3 DEF BucketsWhileOpen
<1> HIDE DEF first
<1>7. pushes' \in Seq(Pushes) /\ pushes' # << >> /\ Head(pushes') = first /\ Tail(pushes') = rest
  BY <1>1, <1>2, <1>5
<1>8. ASSUME NEW t \in Targets
      PROVE  /\ InCall(t) = Brings(push, t) + Flight(rest, t)
             /\ InCall(t)' = (IF push.to = t THEN amount ELSE 0) + Flight(rest, t)
             /\ Flight(rest, t) \in Nat /\ Brings(push, t) \in Nat
             /\ stuck'[t] + InCall(t)' = stuck[t] + InCall(t)
             /\ push.to = t => amount <= stuck[t] + InCall(t)
  <2>1. InCall(t) = Brings(push, t) + Flight(rest, t) /\ Flight(rest, t) \in Nat /\ Brings(push, t) \in Nat
    BY <1>1, FlightOfFirst DEF InCall, Owes
  <2>2. opened' # << >>
    BY <1>1
  <2>3. InCall(t)' = (IF push.to = t THEN amount ELSE 0) + Flight(rest, t)
    BY <1>5, <1>7, <2>2 DEF InCall, Owes
  <2>4. stuck[t] \in Nat
    BY <1>3
  <2>5. CASE push.to # t
    <3>1. Brings(push, t) = 0 /\ stuck'[t] = stuck[t]
      BY <1>1, <1>3, <2>5 DEF Brings, BucketsWhileOpen
    <3> QED BY <2>1, <2>3, <2>4, <2>5, <3>1
  <2>6. CASE push.to = t /\ push.retry
    <3>1. Brings(push, t) = 0 /\ stuck'[t] = 0 /\ amount = stuck[t]
      BY <1>1, <1>3, <2>6 DEF Brings, BucketsWhileOpen, AmountOf
    <3> QED BY <1>4, <2>1, <2>3, <2>4, <2>6, <3>1
  <2>7. CASE push.to = t /\ ~push.retry
    <3>1. Brings(push, t) = amount /\ stuck'[t] = stuck[t]
      BY <1>1, <1>3, <2>7 DEF Brings, BucketsWhileOpen, AmountOf
    <3> QED BY <1>4, <2>1, <2>3, <2>4, <2>7, <3>1
  <2> QED BY <2>1, <2>3, <2>5, <2>6, <2>7
<1> HIDE DEF amount
<1>9. /\ stuck'["bridge"] + InCall("bridge")' = stuck["bridge"] + InCall("bridge")
      /\ stuck'["nodeFund"] + InCall("nodeFund")' = stuck["nodeFund"] + InCall("nodeFund")
      /\ amount <= stuck["bridge"] + InCall("bridge") \/ amount <= stuck["nodeFund"] + InCall("nodeFund")
      /\ InCall("bridge")' \in Nat /\ InCall("nodeFund")' \in Nat
  <2>1. "bridge" \in Targets /\ "nodeFund" \in Targets /\ (push.to = "bridge" \/ push.to = "nodeFund")
    BY <1>2 DEF Targets
  <2>2. ASSUME NEW t \in Targets
        PROVE  /\ stuck'[t] + InCall(t)' = stuck[t] + InCall(t)
               /\ push.to = t => amount <= stuck[t] + InCall(t)
               /\ InCall(t)' \in Nat
    BY <1>4, <1>8
  <2> HIDE DEF push
  <2> QED BY <2>1, <2>2
<1>10. /\ stuck["bridge"] \in Nat /\ stuck["nodeFund"] \in Nat
       /\ stuck'["bridge"] \in Nat /\ stuck'["nodeFund"] \in Nat
  BY <1>3, <1>6, BothTargets
<1>11. amount <= accounted
  BY <1>3, <1>4, <1>9, <1>10 DEF Held
<1>12. accounted' = accounted - amount /\ accounted' \in Nat /\ balance' \in Nat
  BY <1>1, <1>3, <1>4, <1>11
<1>13. Away' = amount /\ Sent' = Sent
  BY <1>1, <1>5, <1>7 DEF Away, Sent
<1>14. accounted' + amount = unsplit + stuck'["bridge"] + stuck'["nodeFund"] + InCall("bridge")' + InCall("nodeFund")'
  <2>1. accounted = unsplit + stuck["bridge"] + stuck["nodeFund"] + InCall("bridge") + InCall("nodeFund")
    BY <1>3, <1>10 DEF Held
  <2>2. accounted' + amount = accounted
    BY <1>3, <1>4, <1>12
  <2> QED BY <1>3, <1>9, <1>10, <2>1, <2>2
<1>15. RouterTypes'
  BY <1>1, <1>3, <1>6, <1>7, <1>12 DEF RouterInv, RouterTypes, fundVars, giftVars
<1>16. RouterBooks'
  <2>1. accounted' <= balance' /\ paid' = Sent' + balance' + Away'
    <3>1. Sent \in Nat
      BY RouterNumbers
    <3> QED BY <1>1, <1>3, <1>4, <1>12, <1>13, <3>1
  <2>2. Held' = unsplit + stuck'["bridge"] + stuck'["nodeFund"]
    BY <1>1 DEF Held
  <2> QED BY <1>13, <1>14, <2>1, <2>2 DEF RouterBooks
<1>17. FallbackHolds'
  <2>1. /\ opened'[1] \in Snapshots /\ opened'[1].paid = paid /\ opened'[1].accounted = accounted'
        /\ opened'[1].unsplit = unsplit
    BY <1>1, <1>3, <1>12 DEF Snapshots
  <2>2. paid <= paid' /\ accounted' + (paid' - paid) <= balance'
    BY <1>1, <1>3, <1>4, <1>12
  <2> QED BY <1>1, <1>7, <1>13, <1>14, <2>1, <2>2 DEF FallbackHolds
<1>18. HalvesAreEven'
  <2>1. ASSUME NEW t \in Targets PROVE Whole(t)' = Whole(t)
    <3>1. stuck'[t] + InCall(t)' = stuck[t] + InCall(t) /\ InCall(t) \in Nat /\ InCall(t)' \in Nat
      BY <1>4, <1>8
    <3>2. lifetimeTo[t] \in Nat /\ stuck[t] \in Nat /\ stuck'[t] \in Nat /\ lifetimeTo'[t] = lifetimeTo[t]
      BY <1>1, <1>3, <1>6
    <3> QED BY <3>1, <3>2 DEF Whole
  <2> QED BY <1>1, <2>1, WholeIsEven
<1>19. FundBooksBalance'
  BY <1>1 DEF RouterInv, FundBooksBalance, fundVars, giftVars
<1> QED BY <1>15, <1>16, <1>17, <1>18, <1>19 DEF RouterInv

\* Before and after the open push: what it holds is what it owes its target more than the rest.
LEMMA OpenPushOwes ==
    ASSUME RouterInv, opened # << >>
    PROVE  /\ pushes # << >> /\ Head(pushes) \in Pushes /\ Tail(pushes) \in Seq(Pushes)
           /\ Away = Head(pushes).amount
           /\ \A t \in Targets :
                 /\ InCall(t) = (IF Head(pushes).to = t THEN Head(pushes).amount ELSE 0)
                                  + Flight(Tail(pushes), t)
                 /\ Flight(Tail(pushes), t) \in Nat
<1>1. pushes \in Seq(Pushes) /\ pushes # << >>
  BY DEF RouterInv, RouterTypes, FallbackHolds
<1>2. Head(pushes) \in Pushes /\ Tail(pushes) \in Seq(Pushes)
  BY <1>1
<1>3. \A t \in Targets : Flight(Tail(pushes), t) \in Nat
  BY <1>1, FlightOfFirst
<1> QED BY <1>1, <1>2, <1>3 DEF Away, InCall, Owes

LEMMA SuccessKeeps ==
    ASSUME RouterInv, PushSucceeds
    PROVE  RouterInv'
<1> DEFINE push == Head(pushes)
           amount == push.amount
<1>1. /\ opened # << >> /\ pushes' = Tail(pushes) /\ opened' = << >>
      /\ lifetimeTo' = [lifetimeTo EXCEPT ![push.to] = @ + amount]
      /\ IF push.to = "nodeFund" THEN RouterPays(amount) ELSE UNCHANGED fundVars
      /\ UNCHANGED <<balance, books, stuck, bridgeAccepts, paid, splits>>
  BY DEF PushSucceeds
<1>2. /\ push.to \in Targets /\ amount \in Nat /\ Tail(pushes) \in Seq(Pushes) /\ Away = amount
  BY <1>1, OpenPushOwes DEF Pushes
<1>3. ASSUME NEW t \in Targets
      PROVE  /\ InCall(t) = (IF push.to = t THEN amount ELSE 0) + InCall(t)'
             /\ InCall(t)' \in Nat
  BY <1>1, OpenPushOwes DEF InCall, Owes
<1>4. /\ stuck \in [Targets -> Nat] /\ lifetimeTo \in [Targets -> Nat]
      /\ balance \in Nat /\ accounted \in Nat /\ unsplit \in Nat /\ paid \in Nat
      /\ fundBalance \in Nat /\ lifetimeReceived \in Nat /\ lifetimeWithdrawn \in Nat
  BY DEF RouterInv, RouterTypes
<1> HIDE DEF amount
<1>5. lifetimeTo' \in [Targets -> Nat] /\ \A t \in Targets : lifetimeTo'[t] = lifetimeTo[t] + (IF push.to = t THEN amount ELSE 0)
  BY <1>1, <1>2, <1>4
<1>6. RouterTypes'
  <2>1. fundBalance' \in Nat /\ lifetimeReceived' \in Nat /\ lifetimeWithdrawn' \in Nat
    BY <1>1, <1>2, <1>4 DEF RouterPays, FundReceives, fundVars
  <2>2. UNCHANGED giftVars
    BY <1>1 DEF RouterPays, fundVars
  <2> QED BY <1>1, <1>2, <1>5, <2>1, <2>2 DEF RouterInv, RouterTypes, books, giftVars
<1>7. FallbackHolds'
  BY <1>1 DEF FallbackHolds
<1> DEFINE one == IF push.to = "bridge" THEN amount ELSE 0
           two == IF push.to = "nodeFund" THEN amount ELSE 0
<1>8. one + two = amount /\ one \in Nat /\ two \in Nat
  BY <1>2 DEF Targets
<1>9. /\ InCall("bridge") = one + InCall("bridge")' /\ InCall("bridge")' \in Nat
      /\ InCall("nodeFund") = two + InCall("nodeFund")' /\ InCall("nodeFund")' \in Nat
      /\ lifetimeTo'["bridge"] = lifetimeTo["bridge"] + one
      /\ lifetimeTo'["nodeFund"] = lifetimeTo["nodeFund"] + two
      /\ lifetimeTo["bridge"] \in Nat /\ lifetimeTo["nodeFund"] \in Nat
      /\ stuck["bridge"] \in Nat /\ stuck["nodeFund"] \in Nat
  <2>1. "bridge" \in Targets /\ "nodeFund" \in Targets
    BY DEF Targets
  <2>2. /\ InCall("bridge") = one + InCall("bridge")' /\ InCall("bridge")' \in Nat
        /\ InCall("nodeFund") = two + InCall("nodeFund")' /\ InCall("nodeFund")' \in Nat
    BY <1>3, <2>1
  <2> QED BY <1>4, <1>5, <2>1, <2>2
<1>10. FundBooksBalance'
  <2>1. /\ fundBalance + lifetimeWithdrawn = lifetimeReceived + forcedBnb
        /\ lifetimeReceived = lifetimeTo["nodeFund"] + given
        /\ given \in Nat /\ forcedBnb \in Nat
    BY DEF RouterInv, RouterTypes, FundBooksBalance
  <2>2. /\ fundBalance' = fundBalance + two /\ lifetimeReceived' = lifetimeReceived + two
        /\ lifetimeWithdrawn' = lifetimeWithdrawn /\ given' = given /\ forcedBnb' = forcedBnb
    BY <1>1, <1>2, <1>4 DEF RouterPays, FundReceives, fundVars, giftVars
  <2>3. lifetimeTo'["nodeFund"] = lifetimeTo["nodeFund"] + two /\ two \in Nat
    BY <1>8, <1>9
  <2> HIDE DEF two
  <2> QED BY <1>4, <1>8, <1>9, <2>1, <2>2, <2>3 DEF FundBooksBalance
<1> HIDE DEF one, two
<1>11. Away' = 0 /\ Held' = Held /\ Held \in Nat /\ Sent' = Sent + amount /\ Sent \in Nat
  <2>1. Away' = 0 /\ Held' = Held
    BY <1>1 DEF Away, Held, books
  <2>2. Sent' = Sent + amount
    BY <1>8, <1>9 DEF Sent
  <2> QED BY <2>1, <2>2, RouterNumbers
<1>12. RouterBooks'
  <2>1. /\ accounted <= balance /\ paid = Sent + balance + amount
        /\ accounted + amount = Held + InCall("bridge") + InCall("nodeFund")
    BY <1>2 DEF RouterInv, RouterBooks
  <2>2. accounted + 0 = Held + InCall("bridge")' + InCall("nodeFund")'
    <3>1. accounted \in Nat /\ Held \in Nat /\ amount \in Nat
      BY <1>2, <1>4, <1>11
    <3>2. /\ InCall("bridge") = one + InCall("bridge")' /\ InCall("bridge")' \in Nat
          /\ InCall("nodeFund") = two + InCall("nodeFund")' /\ InCall("nodeFund")' \in Nat
      BY <1>9
    <3>3. accounted + (one + two)
            = Held + (one + InCall("bridge")') + (two + InCall("nodeFund")')
      BY ONLY <1>8, <2>1, <3>2, Zenon
    <3>4. accounted = Held + InCall("bridge")' + InCall("nodeFund")'
      BY ONLY <1>8, <3>1, <3>2, <3>3
    <3> QED BY ONLY <3>1, <3>4
  <2>3. paid = (Sent + amount) + balance + 0
    BY <1>2, <1>4, <1>11, <2>1
  <2> QED BY <1>1, <1>11, <2>1, <2>2, <2>3 DEF RouterBooks, books
<1>13. HalvesAreEven'
  <2>1. ASSUME NEW t \in Targets PROVE Whole(t)' = Whole(t)
    <3> DEFINE x == IF push.to = t THEN amount ELSE 0
    <3>1. /\ InCall(t) = x + InCall(t)' /\ InCall(t)' \in Nat /\ x \in Nat
          /\ lifetimeTo'[t] = lifetimeTo[t] + x /\ stuck'[t] = stuck[t]
          /\ lifetimeTo[t] \in Nat /\ stuck[t] \in Nat
      BY <1>1, <1>2, <1>3, <1>4, <1>5
    <3> HIDE DEF x
    <3> QED BY <3>1 DEF Whole
  <2> QED BY <1>1, <2>1, WholeIsEven
<1> QED BY <1>6, <1>7, <1>10, <1>12, <1>13 DEF RouterInv

\* A refused push: everything since it was opened is undone, and its amount is booked as stuck.
LEMMA FailureKeeps ==
    ASSUME RouterInv, PushFails
    PROVE  RouterInv'
<1> DEFINE push == Head(pushes)
           amount == push.amount
           before == opened[1]
           z == before.paid
           x == before.accounted
<1>1. /\ opened # << >> /\ pushes' = Tail(pushes) /\ opened' = << >> /\ push.to = "bridge"
      /\ balance' = balance + amount - (paid - z)
      /\ paid' = z /\ accounted' = x + amount /\ unsplit' = before.unsplit
      /\ stuck' = [stuck EXCEPT !["bridge"] = @ + amount]
      /\ UNCHANGED <<lifetimeTo, bridgeAccepts, splits, fundVars>>
  BY DEF PushFails
<1>2. /\ amount \in Nat /\ Tail(pushes) \in Seq(Pushes) /\ Away = amount
  BY <1>1, OpenPushOwes DEF Pushes
<1>3. /\ z \in Nat /\ x \in Nat /\ before.unsplit \in Nat /\ z <= paid /\ x + (paid - z) <= balance
      /\ x + amount = before.unsplit + stuck["bridge"] + stuck["nodeFund"] + InCall("bridge") + InCall("nodeFund")
  BY <1>1, <1>2 DEF RouterInv, FallbackHolds, Snapshots
<1>4. /\ stuck \in [Targets -> Nat] /\ lifetimeTo \in [Targets -> Nat] /\ balance \in Nat /\ paid \in Nat
      /\ paid = Sent + balance + amount /\ Sent \in Nat
  BY <1>2, RouterNumbers DEF RouterInv, RouterTypes, RouterBooks
<1>5. /\ InCall("bridge") = amount + InCall("bridge")' /\ InCall("nodeFund") = InCall("nodeFund")'
      /\ InCall("bridge")' \in Nat /\ InCall("nodeFund")' \in Nat
  <2>1. "bridge" \in Targets /\ "nodeFund" \in Targets
    BY DEF Targets
  <2>2. ASSUME NEW t \in Targets
        PROVE  /\ InCall(t) = (IF push.to = t THEN amount ELSE 0) + InCall(t)'
               /\ InCall(t)' \in Nat
    BY <1>1, OpenPushOwes DEF InCall, Owes
  <2> QED BY <1>1, <2>1, <2>2
<1> HIDE DEF amount, x, z
<1>6. /\ stuck["bridge"] \in Nat /\ stuck["nodeFund"] \in Nat
      /\ stuck'["bridge"] = stuck["bridge"] + amount /\ stuck'["nodeFund"] = stuck["nodeFund"]
      /\ stuck' \in [Targets -> Nat]
  BY <1>1, <1>2, <1>4 DEF Targets
<1>7. balance' \in Nat /\ paid' \in Nat /\ accounted' \in Nat /\ unsplit' \in Nat /\ accounted' <= balance'
  BY <1>1, <1>2, <1>3, <1>4
<1>8. Away' = 0 /\ Sent' = Sent /\ Held' = before.unsplit + (stuck["bridge"] + amount) + stuck["nodeFund"]
  BY <1>1, <1>6 DEF Away, Sent, Held
<1>9. RouterTypes'
  BY <1>1, <1>2, <1>6, <1>7 DEF RouterInv, RouterTypes, fundVars, giftVars
<1>10. FallbackHolds'
  BY <1>1 DEF FallbackHolds
<1>11. RouterBooks'
  <2>1. accounted' + 0 = Held' + InCall("bridge")' + InCall("nodeFund")'
    <3> DEFINE u0 == before.unsplit
    <3>1. /\ amount \in Nat /\ x \in Nat /\ u0 \in Nat
          /\ stuck["bridge"] \in Nat /\ stuck["nodeFund"] \in Nat
          /\ accounted' = x + amount
          /\ x + amount = u0 + stuck["bridge"] + stuck["nodeFund"] + InCall("bridge") + InCall("nodeFund")
          /\ Held' = u0 + (stuck["bridge"] + amount) + stuck["nodeFund"]
      BY <1>1, <1>2, <1>3, <1>6, <1>8
    <3> HIDE DEF u0
    <3> QED BY ONLY <1>5, <3>1
  <2>2. paid' = Sent + balance' + 0
    <3>1. /\ amount \in Nat /\ z \in Nat /\ z <= paid /\ paid' = z
          /\ balance' = balance + amount - (paid - z)
      BY <1>1, <1>2, <1>3
    <3> QED BY ONLY <1>4, <3>1
  <2> QED BY <1>7, <1>8, <2>1, <2>2 DEF RouterBooks
<1>12. HalvesAreEven'
  <2>1. Whole("bridge")' = Whole("bridge") /\ Whole("nodeFund")' = Whole("nodeFund")
    <3>1. /\ lifetimeTo["bridge"] \in Nat /\ lifetimeTo["nodeFund"] \in Nat
          /\ lifetimeTo' = lifetimeTo
      BY <1>1, <1>4, BothTargets
    <3> QED BY <1>2, <1>5, <1>6, <3>1 DEF Whole
  <2>2. \A t \in Targets : Whole(t)' = Whole(t)
    BY <2>1 DEF Targets
  <2> QED BY <1>1, <2>2, WholeIsEven
<1>13. FundBooksBalance'
  BY <1>1 DEF RouterInv, FundBooksBalance, fundVars, giftVars
<1> QED BY <1>9, <1>10, <1>11, <1>12, <1>13 DEF RouterInv

\* The owner takes from the fund only, and what others give is counted as theirs.
LEMMA FundKeeps ==
    ASSUME RouterInv, FundStep,
           UNCHANGED <<balance, books, stuck, lifetimeTo, pushes, opened, bridgeAccepts, paid, splits>>
    PROVE  RouterInv'
<1> DEFINE Typed == /\ fundBalance \in Nat /\ lifetimeReceived \in Nat /\ lifetimeWithdrawn \in Nat
                    /\ given \in Nat /\ forcedBnb \in Nat
<1>1. Typed /\ lifetimeTo["nodeFund"] \in Nat
  BY DEF RouterInv, RouterTypes, Targets
<1>2. Typed' /\ FundBooksBalance'
  <2>0. /\ fundBalance + lifetimeWithdrawn = lifetimeReceived + forcedBnb
        /\ lifetimeReceived = lifetimeTo["nodeFund"] + given /\ lifetimeTo' = lifetimeTo
    BY DEF RouterInv, FundBooksBalance
  <2>1. ASSUME NEW who \in Owners, NEW amount \in FundWithdrawals, FundWithdraw(who, amount)
        PROVE  Typed' /\ FundBooksBalance'
    <3>1. Amount(amount) \in Nat
      BY <1>1, FundInputs DEF Amount
    <3>2. /\ Amount(amount) <= fundBalance /\ lifetimeReceived' = lifetimeReceived
          /\ lifetimeWithdrawn' = lifetimeWithdrawn + Amount(amount)
          /\ fundBalance' = fundBalance - Amount(amount) /\ given' = given /\ forcedBnb' = forcedBnb
      BY <2>1 DEF FundWithdraw, giftVars
    <3> QED BY <1>1, <2>0, <3>1, <3>2 DEF FundBooksBalance
  <2>2. ASSUME NEW amount \in Gifts, Donation(amount)
        PROVE  Typed' /\ FundBooksBalance'
    <3>1. amount \in Nat
      BY FundInputs
    <3>2. /\ fundBalance' = fundBalance + amount /\ lifetimeReceived' = lifetimeReceived + amount
          /\ given' = given + amount /\ forcedBnb' = forcedBnb /\ lifetimeWithdrawn' = lifetimeWithdrawn
      BY <2>2 DEF Donation, FundReceives
    <3> QED BY <1>1, <2>0, <3>1, <3>2 DEF FundBooksBalance
  <2>3. ASSUME NEW amount \in Gifts, ForcedIn(amount)
        PROVE  Typed' /\ FundBooksBalance'
    <3>1. amount \in Nat
      BY FundInputs
    <3>2. /\ fundBalance' = fundBalance + amount /\ forcedBnb' = forcedBnb + amount
          /\ UNCHANGED <<lifetimeReceived, lifetimeWithdrawn, given>>
      BY <2>3 DEF ForcedIn
    <3> QED BY <1>1, <2>0, <3>1, <3>2 DEF FundBooksBalance
  <2>4. CASE UNCHANGED <<fundBalance, lifetimeReceived, lifetimeWithdrawn, giftVars>>
    BY <1>1, <2>0, <2>4 DEF FundBooksBalance, giftVars
  <2> QED BY <2>1, <2>2, <2>3, <2>4 DEF FundStep, TransferOwnership, AcceptOwnership
<1>3. RouterTypes' /\ FundBooksBalance'
  BY <1>2 DEF RouterInv, RouterTypes, books
<1>4. /\ InCall("bridge")' = InCall("bridge") /\ InCall("nodeFund")' = InCall("nodeFund")
      /\ Away' = Away /\ Held' = Held /\ Sent' = Sent
  BY DEF InCall, Owes, Away, Held, Sent, books
<1>5. FallbackHolds'
  BY <1>4 DEF RouterInv, FallbackHolds, books
<1>6. RouterBooks'
  BY <1>4 DEF RouterInv, RouterBooks, books
<1>7. HalvesAreEven'
  BY <1>4 DEF RouterInv, HalvesAreEven
<1> QED BY <1>3, <1>5, <1>6, <1>7 DEF RouterInv

LEMMA RouterStep ==
    ASSUME ROUTER_BPS = 2 * BRIDGE_BPS, RouterInv, [RouterNext]_routerVars
    PROVE  RouterInv'
<1>1. /\ balance \in Nat /\ accounted \in Nat /\ unsplit \in Nat /\ paid \in Nat /\ accounted <= balance
      /\ bridgeAccepts \in BOOLEAN
  BY RouterNumbers DEF RouterInv, RouterBooks, RouterTypes
<1>2. ASSUME NEW amount \in Payments, Receive(amount) PROVE RouterInv'
  <2>1. amount \in Nat /\ balance + amount \in Nat /\ accounted <= balance + amount
    BY <1>1, RouterSizes
  <2>2. /\ Grown(balance + amount) \in Nat
        /\ accounted + Grown(balance + amount) <= balance + amount
    BY <1>1, <2>1, GrowthFits
  <2> QED BY <1>1, <1>2, <2>1, <2>2, BooksStep DEF Receive, Arrives, SyncRevenue
<1>3. ASSUME NEW amount \in Payments, ForcedPayment(amount) PROVE RouterInv'
  <2>1. amount \in Nat /\ 0 \in Nat /\ accounted + 0 <= balance + amount
    BY <1>1, RouterSizes
  <2>2. accounted' = accounted + 0 /\ unsplit' = unsplit + 0
    BY <1>1, <1>3 DEF ForcedPayment, books
  <2> QED BY <1>1, <1>3, <2>1, <2>2, BooksStep DEF ForcedPayment, Arrives
<1>4. CASE Sync
  <2>1. Grown(balance) \in Nat /\ accounted + Grown(balance) <= balance + 0 /\ 0 \in Nat
    BY <1>1, GrowthFits
  <2>2. balance' = balance + 0 /\ paid' = paid + 0
    BY <1>1, <1>4 DEF Sync
  <2> QED BY <1>1, <1>4, <2>1, <2>2, BooksStep DEF Sync, SyncRevenue
<1>5. CASE Settle
  BY <1>5, SettleKeeps
<1>6. CASE RetryPush
  BY <1>6, RetryPushKeeps
<1>7. CASE CallStep
  BY <1>7, SkipKeeps, OpenKeeps, SuccessKeeps, FailureKeeps DEF CallStep
<1>8. CASE BridgeAcceptsAgain
  <2>1. 0 \in Nat /\ accounted + 0 <= balance + 0 /\ bridgeAccepts' \in BOOLEAN
    BY <1>1, <1>8 DEF BridgeAcceptsAgain
  <2>2. balance' = balance + 0 /\ paid' = paid + 0 /\ accounted' = accounted + 0 /\ unsplit' = unsplit + 0
    BY <1>1, <1>8 DEF BridgeAcceptsAgain, books
  <2> QED BY <1>1, <1>8, <2>1, <2>2, BooksStep DEF BridgeAcceptsAgain
<1>9. CASE FundStep /\ UNCHANGED <<balance, books, stuck, lifetimeTo, pushes, opened, bridgeAccepts,
                                   paid, splits>>
  BY <1>9, FundKeeps
<1>10. CASE UNCHANGED routerVars
  <2>1. 0 \in Nat /\ accounted + 0 <= balance + 0
    BY <1>1
  <2>2. balance' = balance + 0 /\ paid' = paid + 0 /\ accounted' = accounted + 0 /\ unsplit' = unsplit + 0
    BY <1>1, <1>10 DEF routerVars, books
  <2> QED BY <1>1, <1>10, <2>1, <2>2, BooksStep DEF routerVars
<1> QED BY <1>2, <1>3, <1>4, <1>5, <1>6, <1>7, <1>8, <1>9, <1>10 DEF RouterNext

-----------------------------------------------------------------------------
\* The tax adds up in every state, in the middle of a call and of a refused push too: what arrived is
\* delivered, in the balance or with the open push, the books are covered by the balance, and neither
\* half gets ahead of the other by a wei per split.  The halves are halves: BRIDGE_BPS is half of
\* ROUTER_BPS.
THEOREM TaxAddsUp ==
    ASSUME ROUTER_BPS = 2 * BRIDGE_BPS
    PROVE  RouterSpec => []TaxBooksBalance
<1>1. RouterInit => RouterInv
  BY RouterStart
<1>2. RouterInv /\ [RouterNext]_routerVars => RouterInv'
  BY RouterStep
<1>3. RouterInv => TaxBooksBalance
  BY RouterInvSuffices
<1> QED BY <1>1, <1>2, <1>3, PTL DEF RouterSpec

-----------------------------------------------------------------------------
(* NodeRegistry *)

\* A list holds exactly the given members, each once, and each knows its place.
Indexed(s, members, place) ==
    /\ \A m \in members : place[m] \in 1..Len(s) /\ s[place[m]] = m
    /\ \A i \in 1..Len(s) : s[i] \in members /\ place[s[i]] = i

LEMMA IndexedNone == ASSUME NEW place PROVE Indexed(<< >>, {}, place)
BY DEF Indexed

LEMMA IndexedAppended ==
    ASSUME NEW X, NEW s \in Seq(X), NEW members, NEW place, Indexed(s, members, place),
           NEW n \in X \ members, NEW after, after[n] = Len(s) + 1, \A m \in members : after[m] = place[m]
    PROVE  Indexed(Append(s, n), members \cup {n}, after)
<1> DEFINE t == Append(s, n)
<1>1. /\ Len(s) \in Nat /\ Len(t) = Len(s) + 1 /\ t[Len(s) + 1] = n
      /\ \A i \in 1..Len(s) : t[i] = s[i]
  OBVIOUS
<1> HIDE DEF t
<1>2. ASSUME NEW m \in members \cup {n} PROVE after[m] \in 1..Len(t) /\ t[after[m]] = m
  <2>1. CASE m = n
    BY <1>1, <2>1
  <2>2. CASE m \in members
    <3>1. after[m] = place[m] /\ place[m] \in 1..Len(s) /\ s[place[m]] = m
      BY <2>2 DEF Indexed
    <3> QED BY <1>1, <3>1
  <2> QED BY <2>1, <2>2
<1>3. ASSUME NEW i \in 1..Len(t) PROVE t[i] \in members \cup {n} /\ after[t[i]] = i
  <2>1. CASE i = Len(s) + 1
    BY <1>1, <2>1
  <2>2. CASE i # Len(s) + 1
    <3>1. i \in 1..Len(s) /\ t[i] = s[i]
      BY <1>1, <2>2
    <3>2. s[i] \in members /\ place[s[i]] = i
      BY <3>1 DEF Indexed
    <3> QED BY <3>1, <3>2
  <2> QED BY <2>1, <2>2
<1>4. Indexed(t, members \cup {n}, after)
  BY <1>2, <1>3 DEF Indexed
<1> QED BY <1>4 DEF t

\* What the pop leaves of a list.
LEMMA Popped ==
    ASSUME NEW X, NEW s \in Seq(X), NEW i \in 1..Len(s)
    PROVE  /\ SwapPop(s, i) \in Seq(X) /\ Len(SwapPop(s, i)) = Len(s) - 1
           /\ \A k \in 1..Len(s) - 1 : SwapPop(s, i)[k] = IF k = i THEN s[Len(s)] ELSE s[k]
           /\ Last(s) = s[Len(s)]
<1> DEFINE last == s[Len(s)]
           t == [s EXCEPT ![i] = last]
<1>1. Len(s) \in Nat /\ Len(s) # 0 /\ last \in X /\ Last(s) = last
  BY DEF Last
<1>2. /\ t \in Seq(X) /\ Len(t) = Len(s)
      /\ \A k \in 1..Len(s) : t[k] = IF k = i THEN last ELSE s[k]
  <2> HIDE DEF last
  <2> QED BY <1>1
<1>3. SwapPop(s, i) = SubSeq(t, 1, Len(s) - 1)
  BY <1>1, <1>2 DEF SwapPop, Front
<1> HIDE DEF t, last
<1>4. Len(s) - 1 \in Nat
  BY <1>1
<1>5. /\ SubSeq(t, 1, Len(s) - 1) \in Seq(X) /\ Len(SubSeq(t, 1, Len(s) - 1)) = Len(s) - 1
      /\ \A k \in 1..Len(s) - 1 : SubSeq(t, 1, Len(s) - 1)[k] = t[k]
  BY <1>1, <1>2, <1>4
<1>6. \A k \in 1..Len(s) - 1 : SwapPop(s, i)[k] = IF k = i THEN last ELSE s[k]
  BY <1>1, <1>2, <1>3, <1>5
<1> QED BY <1>1, <1>3, <1>5, <1>6 DEF last

LEMMA IndexedPopped ==
    ASSUME NEW X, NEW s \in Seq(X), NEW members \in SUBSET X, NEW place, Indexed(s, members, place),
           NEW n \in members,
           NEW after, \A m \in members \ {n} : after[m] = PlaceAfter(s, place[n], m, place[m])
    PROVE  Indexed(SwapPop(s, place[n]), members \ {n}, after)
<1> DEFINE i == place[n]
           t == SwapPop(s, i)
           last == s[Len(s)]
<1>1. i \in 1..Len(s) /\ s[i] = n /\ Len(s) \in Nat
  BY DEF Indexed
<1>2. /\ Len(t) = Len(s) - 1 /\ Last(s) = last
      /\ \A k \in 1..Len(s) - 1 : t[k] = IF k = i THEN last ELSE s[k]
  <2> HIDE DEF i
  <2> QED BY <1>1, Popped
<1>3. last \in members /\ place[last] = Len(s)
  BY <1>1 DEF Indexed
<1>4. \A m \in members \ {n} : after[m] = IF m = last THEN i ELSE place[m]
  BY <1>2 DEF PlaceAfter
<1> HIDE DEF i, t, last
<1>5. ASSUME NEW m \in members \ {n} PROVE after[m] \in 1..Len(t) /\ t[after[m]] = m
  <2>1. place[m] \in 1..Len(s) /\ s[place[m]] = m /\ place[m] # i
    BY <1>1 DEF Indexed
  <2>2. CASE m = last
    <3>1. i # Len(s)
      BY <1>1, <2>2 DEF last
    <3>2. i \in 1..Len(s) - 1 /\ after[m] = i
      BY <1>1, <1>4, <2>2, <3>1
    <3> QED BY <1>2, <2>2, <3>2
  <2>3. CASE m # last
    <3>1. place[m] # Len(s)
      BY <2>1, <2>3 DEF last
    <3>2. place[m] \in 1..Len(s) - 1 /\ after[m] = place[m]
      BY <1>1, <1>4, <2>1, <2>3, <3>1
    <3> QED BY <1>2, <2>1, <3>2
  <2> QED BY <2>2, <2>3
<1>6. ASSUME NEW k \in 1..Len(t) PROVE t[k] \in members \ {n} /\ after[t[k]] = k
  <2>1. k \in 1..Len(s) - 1 /\ k \in 1..Len(s) /\ k # Len(s)
    BY <1>1, <1>2
  <2>2. s[k] \in members /\ place[s[k]] = k
    BY <2>1 DEF Indexed
  <2>3. CASE k = i
    <3>1. t[k] = last /\ last # n
      BY <1>1, <1>2, <1>3, <2>1, <2>2, <2>3
    <3> QED BY <1>3, <1>4, <2>3, <3>1
  <2>4. CASE k # i
    <3>1. t[k] = s[k] /\ s[k] # n /\ s[k] # last
      BY <1>1, <1>2, <1>3, <2>1, <2>2, <2>4 DEF i
    <3> QED BY <1>4, <2>2, <3>1
  <2> QED BY <2>3, <2>4
<1>7. Indexed(t, members \ {n}, after)
  BY <1>5, <1>6 DEF Indexed
<1> QED BY <1>7 DEF t, i

Nodes == [registered : {TRUE}, validator : Operators, active : BOOLEAN, strikes : Nat,
          listIndex : Nat, ownerIndex : Nat]

Registered == {n \in NodeIds : node[n].registered}
OwnedBy(op) == {n \in Registered : node[n].validator = op}
ListPlaces == [n \in NodeIds |-> node[n].listIndex]
OwnPlaces == [n \in NodeIds |-> node[n].ownerIndex]

RegistryInv ==
    /\ nodeList \in Seq(NodeIds) /\ validatorNodes \in [Operators -> Seq(NodeIds)]
    /\ node \in [NodeIds -> Nodes \cup {NoNode}]
    /\ Indexed(nodeList, Registered, ListPlaces)
    /\ \A op \in Operators : Indexed(validatorNodes[op], OwnedBy(op), OwnPlaces)

LEMMA RegisteredIsNode ==
    ASSUME RegistryInv
    PROVE  \A n \in NodeIds : node[n].registered \in BOOLEAN /\ (node[n].registered <=> node[n] \in Nodes)
<1>1. ASSUME NEW n \in NodeIds
      PROVE  node[n].registered \in BOOLEAN /\ (node[n].registered <=> node[n] \in Nodes)
  <2>1. node[n] \in Nodes \/ node[n] = NoNode
    BY DEF RegistryInv
  <2>2. CASE node[n] \in Nodes
    BY <2>2 DEF Nodes
  <2>3. CASE node[n] = NoNode
    <3>1. NoNode.registered = FALSE
      BY DEF NoNode
    <3>2. NoNode \notin Nodes
      BY <3>1 DEF Nodes
    <3> QED BY <2>3, <3>1, <3>2
  <2> QED BY <2>1, <2>2, <2>3
<1> QED BY <1>1

LEMMA RegistryStart == ASSUME RegistryInit PROVE RegistryInv
<1>1. Registered = {} /\ \A op \in Operators : OwnedBy(op) = {}
  BY DEF RegistryInit, Registered, OwnedBy, NoNode
<1>2. nodeList = << >> /\ \A op \in Operators : validatorNodes[op] = << >>
  BY DEF RegistryInit
<1>3. Indexed(nodeList, Registered, ListPlaces) /\ \A op \in Operators : Indexed(validatorNodes[op], OwnedBy(op), OwnPlaces)
  BY <1>1, <1>2, IndexedNone
<1> QED BY <1>3 DEF RegistryInv, RegistryInit

LEMMA RegistryInvSuffices == ASSUME RegistryInv PROVE ListsAreIndexed
<1>1. ASSUME NEW n \in NodeIds, node[n].registered
      PROVE  LET own == validatorNodes[node[n].validator]
             IN  /\ node[n].listIndex \in DOMAIN nodeList /\ nodeList[node[n].listIndex] = n
                 /\ node[n].ownerIndex \in DOMAIN own /\ own[node[n].ownerIndex] = n
  <2> DEFINE op == node[n].validator
             own == validatorNodes[op]
  <2>1. op \in Operators /\ n \in Registered /\ n \in OwnedBy(op)
    BY <1>1, RegisteredIsNode DEF Nodes, Registered, OwnedBy
  <2>2. nodeList \in Seq(NodeIds) /\ own \in Seq(NodeIds)
    BY <2>1 DEF RegistryInv
  <2>3. node[n].listIndex \in 1..Len(nodeList) /\ nodeList[node[n].listIndex] = n
    BY <2>1 DEF RegistryInv, Indexed, ListPlaces
  <2>4. node[n].ownerIndex \in 1..Len(own) /\ own[node[n].ownerIndex] = n
    <3>1. Indexed(own, OwnedBy(op), OwnPlaces)
      BY <2>1 DEF RegistryInv
    <3> HIDE DEF own
    <3> QED BY <2>1, <3>1 DEF Indexed, OwnPlaces
  <2>5. DOMAIN nodeList = 1..Len(nodeList) /\ DOMAIN own = 1..Len(own)
    BY <2>2
  <2> QED BY <2>3, <2>4, <2>5
<1>2. ASSUME NEW i \in DOMAIN nodeList PROVE node[nodeList[i]].registered /\ node[nodeList[i]].listIndex = i
  <2>1. i \in 1..Len(nodeList) /\ nodeList[i] \in NodeIds
    BY DEF RegistryInv
  <2> QED BY <2>1 DEF RegistryInv, Indexed, Registered, ListPlaces
<1>3. ASSUME NEW op \in Operators, NEW i \in DOMAIN validatorNodes[op]
      PROVE  LET n == validatorNodes[op][i]
             IN  node[n].registered /\ node[n].validator = op /\ node[n].ownerIndex = i
  <2>1. validatorNodes[op] \in Seq(NodeIds) /\ i \in 1..Len(validatorNodes[op]) /\ validatorNodes[op][i] \in NodeIds
    BY DEF RegistryInv
  <2>2. Indexed(validatorNodes[op], OwnedBy(op), OwnPlaces)
    BY DEF RegistryInv
  <2> QED BY <2>1, <2>2 DEF Indexed, Registered, OwnedBy, OwnPlaces
<1> QED BY <1>1, <1>2, <1>3 DEF ListsAreIndexed

LEMMA RegisterKeeps ==
    ASSUME RegistryInv, NEW op \in Operators, NEW n \in NodeIds, RegisterNode(op, n)
    PROVE  RegistryInv'
<1> DEFINE own == validatorNodes[op]
           new == [registered |-> TRUE, validator |-> op, active |-> TRUE, strikes |-> 0,
                   listIndex |-> Len(nodeList) + 1, ownerIndex |-> Len(own) + 1]
<1>1. /\ ~node[n].registered /\ node' = [node EXCEPT ![n] = new]
      /\ nodeList' = Append(nodeList, n)
      /\ validatorNodes' = [validatorNodes EXCEPT ![op] = Append(own, n)]
  BY DEF RegisterNode, MayRegister
<1>2. /\ nodeList \in Seq(NodeIds) /\ validatorNodes \in [Operators -> Seq(NodeIds)] /\ own \in Seq(NodeIds)
      /\ node \in [NodeIds -> Nodes \cup {NoNode}]
  BY DEF RegistryInv
<1>3. /\ new \in Nodes /\ new.registered /\ new.validator = op
      /\ new.listIndex = Len(nodeList) + 1 /\ new.ownerIndex = Len(own) + 1
  BY <1>2 DEF Nodes
<1> HIDE DEF new
<1>4. \A m \in NodeIds : node'[m] = IF m = n THEN new ELSE node[m]
  BY <1>1, <1>2
<1>5. Registered' = Registered \cup {n} /\ n \notin Registered
  BY <1>1, <1>3, <1>4 DEF Registered
<1>6. \A q \in Operators : OwnedBy(q)' = IF q = op THEN OwnedBy(op) \cup {n} ELSE OwnedBy(q)
  BY <1>3, <1>4, <1>5 DEF OwnedBy, Registered
<1>7. /\ \A m \in Registered : ListPlaces'[m] = ListPlaces[m] /\ OwnPlaces'[m] = OwnPlaces[m]
      /\ ListPlaces'[n] = Len(nodeList) + 1 /\ OwnPlaces'[n] = Len(own) + 1
  BY <1>3, <1>4, <1>5 DEF ListPlaces, OwnPlaces, Registered
<1>8. Indexed(nodeList', Registered', ListPlaces')
  <2>1. Indexed(nodeList, Registered, ListPlaces) /\ n \in NodeIds \ Registered
    BY <1>5 DEF RegistryInv
  <2>2. Indexed(Append(nodeList, n), Registered \cup {n}, ListPlaces')
    BY <1>2, <1>7, <2>1, IndexedAppended
  <2> QED BY <1>1, <1>5, <2>2
<1>9. ASSUME NEW q \in Operators PROVE Indexed(validatorNodes'[q], OwnedBy(q)', OwnPlaces')
  <2>1. Indexed(validatorNodes[q], OwnedBy(q), OwnPlaces) /\ validatorNodes[q] \in Seq(NodeIds)
    BY DEF RegistryInv
  <2>2. \A m \in OwnedBy(q) : OwnPlaces'[m] = OwnPlaces[m]
    BY <1>7 DEF OwnedBy
  <2>3. CASE q = op
    <3>1. n \in NodeIds \ OwnedBy(op)
      BY <1>5 DEF OwnedBy
    <3>2. Indexed(Append(own, n), OwnedBy(op) \cup {n}, OwnPlaces')
      BY <1>2, <1>7, <2>1, <2>2, <2>3, <3>1, IndexedAppended
    <3> QED BY <1>1, <1>2, <1>6, <2>3, <3>2
  <2>4. CASE q # op
    <3>1. validatorNodes'[q] = validatorNodes[q] /\ OwnedBy(q)' = OwnedBy(q)
      BY <1>1, <1>2, <1>6, <2>4
    <3>2. Indexed(validatorNodes[q], OwnedBy(q), OwnPlaces')
      BY <2>1, <2>2 DEF Indexed
    <3> QED BY <3>1, <3>2
  <2> QED BY <2>3, <2>4
<1>10. /\ nodeList' \in Seq(NodeIds) /\ validatorNodes' \in [Operators -> Seq(NodeIds)]
       /\ node' \in [NodeIds -> Nodes \cup {NoNode}]
  BY <1>1, <1>2, <1>3
<1> QED BY <1>8, <1>9, <1>10 DEF RegistryInv

LEMMA RetireKeeps ==
    ASSUME RegistryInv, NEW op \in Operators, NEW n \in NodeIds, RetireNode(op, n)
    PROVE  RegistryInv'
<1> DEFINE own == validatorNodes[op]
           i == node[n].listIndex
           j == node[n].ownerIndex
           moved(m) == [node[m] EXCEPT !.listIndex = PlaceAfter(nodeList, i, m, @),
                                       !.ownerIndex = PlaceAfter(own, j, m, @)]
<1>1. /\ node[n].registered /\ node[n].validator = op
      /\ node' = [m \in NodeIds |-> IF m = n \/ ~node[m].registered THEN NoNode ELSE moved(m)]
      /\ nodeList' = SwapPop(nodeList, i)
      /\ validatorNodes' = [validatorNodes EXCEPT ![op] = SwapPop(own, j)]
  BY DEF RetireNode
<1>2. /\ nodeList \in Seq(NodeIds) /\ validatorNodes \in [Operators -> Seq(NodeIds)] /\ own \in Seq(NodeIds)
      /\ node \in [NodeIds -> Nodes \cup {NoNode}]
      /\ Indexed(nodeList, Registered, ListPlaces) /\ Indexed(own, OwnedBy(op), OwnPlaces)
  BY DEF RegistryInv
<1>3. n \in Registered /\ n \in OwnedBy(op) /\ i = ListPlaces[n] /\ j = OwnPlaces[n]
  BY <1>1 DEF Registered, OwnedBy, ListPlaces, OwnPlaces
<1>4. i \in 1..Len(nodeList) /\ j \in 1..Len(own) /\ Len(nodeList) \in Nat /\ Len(own) \in Nat
  BY <1>2, <1>3 DEF Indexed
<1>5. ASSUME NEW m \in Registered \ {n}
      PROVE  /\ node'[m] \in Nodes /\ node'[m].registered /\ node'[m].validator = node[m].validator
             /\ node'[m].listIndex = PlaceAfter(nodeList, i, m, node[m].listIndex)
             /\ node'[m].ownerIndex = PlaceAfter(own, j, m, node[m].ownerIndex)
  <2>1. m \in NodeIds /\ node[m] \in Nodes
    BY RegisteredIsNode DEF Registered
  <2>2. /\ PlaceAfter(nodeList, i, m, node[m].listIndex) \in Nat
        /\ PlaceAfter(own, j, m, node[m].ownerIndex) \in Nat
    <3>1. node[m].listIndex \in Nat /\ node[m].ownerIndex \in Nat
      BY <2>1 DEF Nodes
    <3>2. i \in Nat /\ j \in Nat
      BY <1>4
    <3> HIDE DEF i, j, own
    <3> QED BY <3>1, <3>2 DEF PlaceAfter
  <2>3. node'[m] = moved(m)
    BY <1>1, <1>5, <2>1 DEF Registered
  <2> HIDE DEF i, j, own
  <2> QED BY <2>1, <2>2, <2>3 DEF Nodes
<1>6. ASSUME NEW m \in NodeIds, m \notin Registered \ {n} PROVE node'[m] = NoNode
  BY <1>1, <1>6 DEF Registered
<1> HIDE DEF moved
<1>7. Registered' = Registered \ {n}
  <2>1. ~NoNode.registered
    BY DEF NoNode
  <2> QED BY <1>5, <1>6, <2>1 DEF Registered
<1>8. \A q \in Operators : OwnedBy(q)' = OwnedBy(q) \ {n}
  BY <1>5, <1>7 DEF OwnedBy
<1>9. Indexed(nodeList', Registered', ListPlaces')
  <2>1. \A m \in Registered \ {n} : ListPlaces'[m] = PlaceAfter(nodeList, ListPlaces[n], m, ListPlaces[m])
    BY <1>3, <1>5 DEF ListPlaces, Registered
  <2>2. Registered \in SUBSET NodeIds
    BY DEF Registered
  <2>3. Indexed(SwapPop(nodeList, ListPlaces[n]), Registered \ {n}, ListPlaces')
    BY <1>2, <1>3, <2>1, <2>2, IndexedPopped
  <2> QED BY <1>1, <1>3, <1>7, <2>3
<1>10. \A m \in Registered \ {n} : OwnPlaces'[m] = PlaceAfter(own, j, m, OwnPlaces[m])
  BY <1>5 DEF OwnPlaces, Registered
<1>11. ASSUME NEW q \in Operators PROVE Indexed(validatorNodes'[q], OwnedBy(q)', OwnPlaces')
  <2>1. CASE q = op
    <3>1. OwnedBy(op) \in SUBSET NodeIds
      BY DEF OwnedBy, Registered
    <3>2. \A m \in OwnedBy(op) \ {n} : OwnPlaces'[m] = PlaceAfter(own, OwnPlaces[n], m, OwnPlaces[m])
      BY <1>3, <1>10 DEF OwnedBy
    <3>3. Indexed(SwapPop(own, OwnPlaces[n]), OwnedBy(op) \ {n}, OwnPlaces')
      BY <1>2, <1>3, <3>1, <3>2, IndexedPopped
    <3> QED BY <1>1, <1>2, <1>3, <1>8, <2>1, <3>3
  <2>2. CASE q # op
    <3>1. Indexed(validatorNodes[q], OwnedBy(q), OwnPlaces)
      BY DEF RegistryInv
    <3>2. validatorNodes'[q] = validatorNodes[q] /\ OwnedBy(q)' = OwnedBy(q)
      BY <1>1, <1>2, <1>3, <1>8, <2>2 DEF OwnedBy
    <3>3. ASSUME NEW m \in OwnedBy(q) PROVE OwnPlaces'[m] = OwnPlaces[m]
      <4>1. m \in Registered \ {n} /\ m # Last(own)
        <5>1. Last(own) \in OwnedBy(op)
          BY <1>2, <1>4 DEF Indexed, Last
        <5> QED BY <1>3, <2>2, <5>1 DEF OwnedBy
      <4> QED BY <1>10, <4>1 DEF PlaceAfter
    <3> QED BY <3>1, <3>2, <3>3 DEF Indexed
  <2> QED BY <2>1, <2>2
<1>12. /\ nodeList' \in Seq(NodeIds) /\ validatorNodes' \in [Operators -> Seq(NodeIds)]
       /\ node' \in [NodeIds -> Nodes \cup {NoNode}]
  <2>1. SwapPop(nodeList, i) \in Seq(NodeIds) /\ SwapPop(own, j) \in Seq(NodeIds)
    <3> HIDE DEF i, j, own
    <3> QED BY <1>2, <1>4, Popped
  <2>2. \A m \in NodeIds : node'[m] \in Nodes \cup {NoNode}
    BY <1>5, <1>6
  <2>3. node' = [m \in NodeIds |-> node'[m]]
    BY <1>1
  <2>4. node' \in [NodeIds -> Nodes \cup {NoNode}]
    BY ONLY <2>2, <2>3
  <2> QED BY <1>1, <1>2, <2>1, <2>4
<1> QED BY <1>9, <1>11, <1>12 DEF RegistryInv

\* What leaves the nodes registered, with their operators and their places, leaves the lists true.
LEMMA MarkingKeeps ==
    ASSUME RegistryInv, UNCHANGED <<nodeList, validatorNodes>>, node' \in [NodeIds -> Nodes \cup {NoNode}],
           \A n \in NodeIds :
                IF node[n].registered
                THEN /\ node'[n].registered /\ node'[n].validator = node[n].validator
                     /\ node'[n].listIndex = node[n].listIndex /\ node'[n].ownerIndex = node[n].ownerIndex
                ELSE ~node'[n].registered
    PROVE  RegistryInv'
<1>1. /\ Registered' = Registered /\ \A op \in Operators : OwnedBy(op)' = OwnedBy(op)
      /\ \A n \in Registered : ListPlaces'[n] = ListPlaces[n] /\ OwnPlaces'[n] = OwnPlaces[n]
  BY DEF Registered, OwnedBy, ListPlaces, OwnPlaces
<1>2. Indexed(nodeList', Registered', ListPlaces')
  <2>1. Indexed(nodeList, Registered, ListPlaces)
    BY DEF RegistryInv
  <2>2. Indexed(nodeList, Registered, ListPlaces')
    BY <1>1, <2>1 DEF Indexed
  <2> QED BY <1>1, <2>2
<1>3. ASSUME NEW op \in Operators PROVE Indexed(validatorNodes'[op], OwnedBy(op)', OwnPlaces')
  <2>1. Indexed(validatorNodes[op], OwnedBy(op), OwnPlaces)
    BY DEF RegistryInv
  <2>2. OwnedBy(op) \in SUBSET Registered
    BY DEF OwnedBy
  <2>3. Indexed(validatorNodes[op], OwnedBy(op), OwnPlaces')
    BY <1>1, <2>1, <2>2 DEF Indexed
  <2> QED BY <1>1, <2>3
<1> QED BY <1>2, <1>3 DEF RegistryInv

\* The nodes of an operator are registered, so what is written to them is a node.
LEMMA OwnNodes ==
    ASSUME RegistryInv, NEW op \in Operators
    PROVE  \A n \in Range(validatorNodes[op]) : n \in NodeIds /\ node[n].registered /\ node[n] \in Nodes
<1>1. validatorNodes[op] \in Seq(NodeIds) /\ Indexed(validatorNodes[op], OwnedBy(op), OwnPlaces)
  BY DEF RegistryInv
<1>2. ASSUME NEW n \in Range(validatorNodes[op]) PROVE n \in OwnedBy(op)
  BY <1>1 DEF Range, Indexed
<1> QED BY <1>2, RegisteredIsNode DEF OwnedBy, Registered

LEMMA StrikeKeeps ==
    ASSUME RegistryInv, NEW op \in Operators, Strike(op)
    PROVE  /\ RegistryInv'
           /\ \A n \in NodeIds : node[n].registered => node'[n].validator = node[n].validator /\ (node'[n].active => node[n].active)
<1>1. /\ \A n \in NodeIds : node'[n] = IF n \in Range(validatorNodes[op]) THEN Struck(node[n]) ELSE node[n]
      /\ DOMAIN node' = NodeIds /\ node' = [n \in NodeIds |-> node'[n]]
      /\ UNCHANGED <<nodeList, validatorNodes>>
  BY DEF Strike, OfOperator
<1>2. ASSUME NEW n \in NodeIds, node[n] \in Nodes
      PROVE  /\ Struck(node[n]) \in Nodes /\ Struck(node[n]).registered
             /\ Struck(node[n]).validator = node[n].validator
             /\ Struck(node[n]).listIndex = node[n].listIndex /\ Struck(node[n]).ownerIndex = node[n].ownerIndex
             /\ (Struck(node[n]).active => node[n].active)
  <2> DEFINE nd == node[n]
             had == IF nd.strikes < MAX_STRIKES THEN nd.strikes + 1 ELSE nd.strikes
             stays == nd.active /\ nd.strikes + 1 < MAX_STRIKES
  <2>1. nd.strikes \in Nat /\ nd.active \in BOOLEAN /\ nd \in Nodes
    BY <1>2 DEF Nodes
  <2>2. had \in Nat /\ stays \in BOOLEAN /\ (stays => nd.active)
    BY <2>1
  <2>3. Struck(nd) = [nd EXCEPT !.strikes = had, !.active = stays]
    BY DEF Struck
  <2> HIDE DEF nd, had, stays
  <2>4. /\ Struck(nd) \in Nodes /\ Struck(nd).registered /\ Struck(nd).validator = nd.validator
        /\ Struck(nd).listIndex = nd.listIndex /\ Struck(nd).ownerIndex = nd.ownerIndex
        /\ Struck(nd).active = stays
    BY <2>1, <2>2, <2>3 DEF Nodes
  <2> QED BY <2>2, <2>4 DEF nd
<1>3. ASSUME NEW n \in NodeIds
      PROVE  /\ node'[n] \in Nodes \cup {NoNode}
             /\ IF node[n].registered
                THEN /\ node'[n].registered /\ node'[n].validator = node[n].validator
                     /\ node'[n].listIndex = node[n].listIndex /\ node'[n].ownerIndex = node[n].ownerIndex
                ELSE ~node'[n].registered
             /\ node[n].registered => (node'[n].active => node[n].active)
  <2>1. CASE n \in Range(validatorNodes[op])
    BY <1>1, <1>2, <2>1, OwnNodes
  <2>2. CASE n \notin Range(validatorNodes[op])
    BY <1>1, <2>2 DEF RegistryInv
  <2> QED BY <2>1, <2>2
<1>4. node' \in [NodeIds -> Nodes \cup {NoNode}]
  BY ONLY <1>1, <1>3
<1>5. RegistryInv'
  BY <1>1, <1>3, <1>4, MarkingKeeps
<1> QED BY <1>3, <1>5

LEMMA RemoveKeeps ==
    ASSUME RegistryInv, NEW op \in Operators, RemoveOperator(op)
    PROVE  /\ RegistryInv'
           /\ \A n \in NodeIds : node[n].registered => node'[n].validator = node[n].validator /\ (node'[n].active => node[n].active)
<1> DEFINE Off(n) == [node[n] EXCEPT !.active = FALSE]
<1>1. /\ \A n \in NodeIds : node'[n] = IF n \in Range(validatorNodes[op]) THEN Off(n) ELSE node[n]
      /\ DOMAIN node' = NodeIds /\ node' = [n \in NodeIds |-> node'[n]]
      /\ UNCHANGED <<nodeList, validatorNodes>>
  BY DEF RemoveOperator, OfOperator
<1>2. ASSUME NEW n \in NodeIds, node[n] \in Nodes
      PROVE  /\ Off(n) \in Nodes /\ Off(n).registered /\ Off(n).validator = node[n].validator
             /\ Off(n).listIndex = node[n].listIndex /\ Off(n).ownerIndex = node[n].ownerIndex
             /\ ~Off(n).active
  BY <1>2 DEF Nodes
<1> HIDE DEF Off
<1>3. ASSUME NEW n \in NodeIds
      PROVE  /\ node'[n] \in Nodes \cup {NoNode}
             /\ IF node[n].registered
                THEN /\ node'[n].registered /\ node'[n].validator = node[n].validator
                     /\ node'[n].listIndex = node[n].listIndex /\ node'[n].ownerIndex = node[n].ownerIndex
                ELSE ~node'[n].registered
             /\ node[n].registered => (node'[n].active => node[n].active)
  <2>1. CASE n \in Range(validatorNodes[op])
    BY <1>1, <1>2, <2>1, OwnNodes
  <2>2. CASE n \notin Range(validatorNodes[op])
    BY <1>1, <2>2 DEF RegistryInv
  <2> QED BY <2>1, <2>2
<1>4. node' \in [NodeIds -> Nodes \cup {NoNode}]
  BY ONLY <1>1, <1>3
<1>5. RegistryInv'
  BY <1>1, <1>3, <1>4, MarkingKeeps
<1> QED BY <1>3, <1>5

LEMMA RegistryStep == ASSUME RegistryInv, [RegistryNext]_registryVars PROVE RegistryInv'
<1>1. CASE UNCHANGED registryVars
  BY <1>1 DEF registryVars, RegistryInv, Registered, OwnedBy, ListPlaces, OwnPlaces
<1>2. CASE RegistryNext
  BY <1>2, RegisterKeeps, RetireKeeps, StrikeKeeps, RemoveKeeps DEF RegistryNext
<1> QED BY <1>1, <1>2

\* Registering is for nodes that are not registered, striking and removing take activity away only,
\* and retiring leaves nothing of the node and the others' activity alone.
LEMMA OutStaysOut == ASSUME RegistryInv, [RegistryNext]_registryVars PROVE StruckOutStaysOut
<1>1. ASSUME NEW op \in Operators, NEW n \in NodeIds, RegisterNode(op, n) PROVE StruckOutStaysOut
  <2>1. ~node[n].registered /\ \A m \in NodeIds : m # n => node'[m] = node[m]
    BY <1>1 DEF RegisterNode, MayRegister, RegistryInv
  <2> QED BY <2>1 DEF StruckOutStaysOut
<1>2. ASSUME NEW op \in Operators, NEW n \in NodeIds, RetireNode(op, n) PROVE StruckOutStaysOut
  <2>1. ASSUME NEW m \in NodeIds, node[m].registered, ~node[m].active
        PROVE  ~node'[m].registered \/ (~node'[m].active /\ node'[m].validator = node[m].validator)
    <3>1. node[m] \in Nodes
      BY <2>1, RegisteredIsNode
    <3>2. CASE m = n
      <4>1. node'[m] = NoNode
        BY <1>2, <3>2 DEF RetireNode
      <4> QED BY <4>1 DEF NoNode
    <3>3. CASE m # n
      <4> DEFINE new == [node[m] EXCEPT
                            !.listIndex = PlaceAfter(nodeList, node[n].listIndex, m, @),
                            !.ownerIndex = PlaceAfter(validatorNodes[op], node[n].ownerIndex, m, @)]
      <4>1. node'[m] = new
        BY <1>2, <2>1, <3>3 DEF RetireNode
      <4>2. new.active = node[m].active /\ new.validator = node[m].validator
        BY <3>1 DEF Nodes
      <4> QED BY <2>1, <4>1, <4>2
    <3> QED BY <3>2, <3>3
  <2> QED BY <2>1 DEF StruckOutStaysOut
<1>3. ASSUME NEW op \in Operators, Strike(op) \/ RemoveOperator(op) PROVE StruckOutStaysOut
  BY <1>3, StrikeKeeps, RemoveKeeps DEF StruckOutStaysOut
<1>4. CASE UNCHANGED registryVars
  BY <1>4 DEF registryVars, StruckOutStaysOut
<1> QED BY <1>1, <1>2, <1>3, <1>4 DEF RegistryNext


-----------------------------------------------------------------------------
(* Layer: the bridge's books *)

Counted(locks) == SumFunction([lock \in locks |-> lock.amount])

LayerMoney ==
    /\ creditable \in [Wallets -> Nat] /\ held \in [Wallets -> Nat]
    /\ reserve \in Nat /\ delivered \in Nat /\ donated \in Nat
    /\ totalCredited \in Nat /\ totalExited \in Nat /\ totalBurnedFloat \in Nat
    /\ seen \in SUBSET Locks /\ IsFiniteSet(seen)
    /\ LayerBooksBalance

\* One deposit more counts with its amount.
LEMMA CountedMore ==
    ASSUME NEW locks \in SUBSET Locks, IsFiniteSet(locks), NEW lock \in Locks \ locks
    PROVE  /\ IsFiniteSet(locks \cup {lock}) /\ Counted(locks) \in Nat /\ lock.amount \in Nat
           /\ Counted(locks \cup {lock}) = Counted(locks) + lock.amount
<1> DEFINE all == locks \cup {lock}
           f == [l \in locks |-> l.amount]
           g == [l \in all |-> l.amount]
<1>1. IsFiniteSet(all)
  BY FS_AddElement
<1>2. \A l \in all : l.amount \in Nat
  BY LayerInputs
<1>3. /\ \A l \in locks : f[l] \in Nat /\ f[l] = g[l]
      /\ \A l \in all : g[l] \in Int
      /\ g[lock] = lock.amount /\ DOMAIN f = locks /\ DOMAIN g = all
      /\ locks \in SUBSET all /\ lock \in all \ locks
  BY <1>2
<1> HIDE DEF f, g
<1>4. SumFunctionOnSet(g, all) = g[lock] + SumFunctionOnSet(g, locks)
  BY <1>1, <1>3, SumAdd
<1>5. SumFunctionOnSet(f, locks) \in Nat
  BY <1>3, SumNat
<1>6. SumFunctionOnSet(f, locks) = SumFunctionOnSet(g, locks)
  <2>1. \A l \in locks : f[l] \in Int /\ f[l] = g[l]
    BY <1>3
  <2> QED BY <2>1, SumSame
<1>7. SumFunction(f) = SumFunctionOnSet(f, locks) /\ SumFunction(g) = SumFunctionOnSet(g, all)
  BY <1>3 DEF SumFunction
<1>8. /\ SumFunction(f) \in Nat /\ lock.amount \in Nat
      /\ SumFunction(g) = SumFunction(f) + lock.amount
  BY <1>2, <1>3, <1>4, <1>5, <1>6, <1>7
<1> QED BY <1>1, <1>8 DEF f, g, Counted

LEMMA LayerMoneyStart == ASSUME LayerInit PROVE LayerMoney
<1>1. creditable \in [Wallets -> Nat] /\ DOMAIN creditable = Wallets /\ \A w \in Wallets : creditable[w] = 0
  BY DEF LayerInit
<1>2. SumFunction(creditable) = 0
  BY <1>1, LayerInputs, SumOfNone
<1>3. SumFunction([lock \in seen |-> lock.amount]) = 0
  <2> DEFINE f == [lock \in {} |-> lock.amount]
  <2>1. DOMAIN f = {}
    OBVIOUS
  <2> HIDE DEF f
  <2>2. SumFunction(f) = 0
    BY <2>1, SumEmpty DEF SumFunction
  <2> QED BY <2>2 DEF f, LayerInit
<1>4. IsFiniteSet(seen)
  BY FS_EmptySet DEF LayerInit
<1> QED BY <1>1, <1>2, <1>3, <1>4, LayerInputs DEF LayerMoney, LayerBooksBalance, LayerInit

\* What the wallets may collect, when one of them may collect n.
LEMMA ClaimableMoves ==
    ASSUME LayerMoney, NEW w \in Wallets, NEW n \in Nat
    PROVE  /\ SumFunction(creditable) \in Nat /\ creditable[w] \in Nat
           /\ SumFunction([creditable EXCEPT ![w] = n]) = SumFunction(creditable) - creditable[w] + n
<1>1. IsFiniteSet(Wallets) /\ creditable \in [Wallets -> Nat]
  BY LayerInputs DEF LayerMoney
<1> QED BY <1>1, SumMoves

LEMMA CreditKeeps == ASSUME LayerMoney, NEW sender, NEW lock \in Locks, Credit(sender, lock) PROVE LayerMoney'
<1>1. lock.to \in Wallets /\ lock.amount \in Nat /\ lock \in Locks \ seen
  BY LayerInputs DEF Credit, NotSeen
<1>2. /\ creditable' = [creditable EXCEPT ![lock.to] = creditable[lock.to] + lock.amount]
      /\ seen' = seen \cup {lock} /\ totalCredited' = totalCredited + lock.amount
      /\ UNCHANGED <<held, reserve, totalExited, totalBurnedFloat, delivered, donated>>
  BY DEF Credit
<1>3. creditable[lock.to] \in Nat /\ creditable[lock.to] + lock.amount \in Nat
  BY <1>1 DEF LayerMoney
<1>4. SumFunction(creditable)' = SumFunction(creditable) + lock.amount /\ SumFunction(creditable) \in Nat
  <2>1. SumFunction(creditable') = SumFunction(creditable) - creditable[lock.to] + (creditable[lock.to] + lock.amount)
    BY <1>1, <1>2, <1>3, ClaimableMoves
  <2>2. SumFunction(creditable) \in Nat
    BY <1>1, <1>3, ClaimableMoves
  <2> QED BY <1>1, <1>3, <2>1, <2>2
<1>5. IsFiniteSet(seen') /\ Counted(seen)' = Counted(seen) + lock.amount /\ Counted(seen) \in Nat
  <2>1. seen \in SUBSET Locks /\ IsFiniteSet(seen)
    BY DEF LayerMoney
  <2> QED BY <1>1, <1>2, <2>1, CountedMore DEF Counted
<1>6. /\ reserve + delivered = Reserve + totalExited + totalBurnedFloat + donated
      /\ SumFunction(creditable) + delivered = totalCredited
      /\ totalCredited = Counted(seen) /\ delivered \in Nat
  BY DEF LayerMoney, LayerBooksBalance, Counted
<1>7. LayerBooksBalance'
  <2>1. (reserve + delivered = Reserve + totalExited + totalBurnedFloat + donated)'
    BY <1>2, <1>6
  <2>2. SumFunction(creditable)' + delivered = totalCredited' /\ totalCredited' = Counted(seen)'
    BY <1>1, <1>2, <1>4, <1>5, <1>6
  <2> QED BY <1>2, <2>1, <2>2 DEF LayerBooksBalance, Counted
<1>8. creditable' \in [Wallets -> Nat]
  BY <1>1, <1>2, <1>3 DEF LayerMoney
<1> QED BY <1>1, <1>2, <1>5, <1>7, <1>8 DEF LayerMoney

LEMMA WithdrawKeeps == ASSUME LayerMoney, NEW to \in Wallets, WithdrawCredits(to) PROVE LayerMoney'
<1> DEFINE n == creditable[to]
<1>1. /\ n \in Nat /\ n <= reserve /\ creditable' = [creditable EXCEPT ![to] = 0]
      /\ reserve' = reserve - n /\ delivered' = delivered + n
      /\ held' = [held EXCEPT ![to] = @ + n]
      /\ UNCHANGED <<totalCredited, totalExited, totalBurnedFloat, donated, seen>>
  BY DEF WithdrawCredits, LayerMoney
<1>2. SumFunction(creditable)' = SumFunction(creditable) - n + 0 /\ SumFunction(creditable) \in Nat
  BY <1>1, ClaimableMoves
<1> HIDE DEF n
<1>3. creditable' \in [Wallets -> Nat] /\ held' \in [Wallets -> Nat]
  BY <1>1 DEF LayerMoney
<1>4. /\ reserve \in Nat /\ delivered \in Nat
      /\ reserve + delivered = Reserve + totalExited + totalBurnedFloat + donated
      /\ SumFunction(creditable) + delivered = totalCredited
      /\ totalCredited = Counted(seen)
  BY DEF LayerMoney, LayerBooksBalance, Counted
<1>5. /\ reserve' \in Nat /\ delivered' \in Nat /\ reserve' + delivered' = reserve + delivered
      /\ SumFunction(creditable)' + delivered' = SumFunction(creditable) + delivered
  BY <1>1, <1>2, <1>4
<1>6. LayerBooksBalance'
  BY <1>1, <1>4, <1>5 DEF LayerBooksBalance, Counted
<1> QED BY <1>1, <1>3, <1>5, <1>6 DEF LayerMoney

\* What comes back is booked once, as an exit, as burnt or as given.
LEMMA ReturnsKeep ==
    ASSUME LayerMoney, NEW from \in Wallets, NEW amount \in LayerAmounts, Returns(from, amount),
           NEW exits \in Nat, NEW burns \in Nat, NEW gifts \in Nat, exits + burns + gifts = amount,
           totalExited' = totalExited + exits, totalBurnedFloat' = totalBurnedFloat + burns,
           donated' = donated + gifts
    PROVE  LayerMoney'
<1>1. amount \in Nat /\ Reserve \in Nat
  BY LayerInputs
<1>2. /\ amount <= held[from] /\ held' = [held EXCEPT ![from] = @ - amount]
      /\ reserve' = reserve + amount /\ UNCHANGED <<seen, creditable, totalCredited, delivered>>
  BY DEF Returns
<1>3. held' \in [Wallets -> Nat]
  <2>1. held[from] \in Nat /\ held[from] - amount \in Nat
    BY <1>1, <1>2 DEF LayerMoney
  <2> QED BY <1>2, <2>1 DEF LayerMoney
<1>4. /\ reserve \in Nat /\ delivered \in Nat /\ totalExited \in Nat /\ totalBurnedFloat \in Nat /\ donated \in Nat
      /\ reserve + delivered = Reserve + totalExited + totalBurnedFloat + donated
  BY DEF LayerMoney, LayerBooksBalance
<1>5. /\ (reserve + delivered = Reserve + totalExited + totalBurnedFloat + donated)'
      /\ reserve' \in Nat /\ totalExited' \in Nat /\ totalBurnedFloat' \in Nat /\ donated' \in Nat
  <2>1. delivered' = delivered
    BY <1>2
  <2> QED BY <1>1, <1>2, <1>4, <2>1
<1>6. LayerBooksBalance'
  BY <1>2, <1>5 DEF LayerMoney, LayerBooksBalance
<1> QED BY <1>2, <1>3, <1>5, <1>6 DEF LayerMoney

LEMMA LayerMoneyStep == ASSUME LayerMoney, [LayerNext]_layerVars PROVE LayerMoney'
<1>1. ASSUME NEW r \in RelayerKeys, NEW lock \in Locks, Credit(r, lock) PROVE LayerMoney'
  BY <1>1, CreditKeeps
<1>2. ASSUME NEW w \in Wallets, WithdrawCredits(w) PROVE LayerMoney'
  BY <1>2, WithdrawKeeps
<1>3. /\ totalExited \in Nat /\ totalBurnedFloat \in Nat /\ donated \in Nat
      /\ \A amount \in LayerAmounts : amount \in Nat
  BY LayerInputs DEF LayerMoney
<1>4. ASSUME NEW w \in Wallets, NEW amount \in LayerAmounts, Exit(w, amount) PROVE LayerMoney'
  <2>1. /\ amount \in Nat /\ 0 \in Nat /\ amount + 0 + 0 = amount /\ Returns(w, amount)
        /\ totalExited' = totalExited + amount
        /\ totalBurnedFloat' = totalBurnedFloat + 0 /\ donated' = donated + 0
    BY <1>3, <1>4 DEF Exit
  <2> QED BY <2>1, ReturnsKeep
<1>5. ASSUME NEW w \in Wallets, NEW amount \in LayerAmounts, BurnFloat(w, amount) PROVE LayerMoney'
  <2>1. /\ amount \in Nat /\ 0 \in Nat /\ 0 + amount + 0 = amount /\ Returns(w, amount)
        /\ totalExited' = totalExited + 0
        /\ totalBurnedFloat' = totalBurnedFloat + amount /\ donated' = donated + 0
    BY <1>3, <1>5 DEF BurnFloat
  <2> QED BY <2>1, ReturnsKeep
<1>6. ASSUME NEW w \in Wallets, NEW amount \in LayerAmounts, PlainTransfer(w, amount) PROVE LayerMoney'
  <2>1. /\ amount \in Nat /\ 0 \in Nat /\ 0 + 0 + amount = amount /\ Returns(w, amount)
        /\ totalExited' = totalExited + 0
        /\ totalBurnedFloat' = totalBurnedFloat + 0 /\ donated' = donated + amount
    BY <1>3, <1>6 DEF PlainTransfer
  <2> QED BY <2>1, ReturnsKeep
<1>7. ASSUME NEW w \in Wallets, NEW fee \in LayerAmounts, Announce(w, fee) PROVE LayerMoney'
  <2>1. held' \in [Wallets -> Nat]
    <3>1. held[w] \in Nat /\ held[w] - fee \in Nat /\ held' = [held EXCEPT ![w] = held[w] - fee]
      BY <1>3, <1>7 DEF Announce, LayerMoney
    <3> QED BY <3>1 DEF LayerMoney
  <2> QED BY <1>7, <2>1 DEF Announce, LayerMoney, LayerBooksBalance
<1>8. ASSUME UNCHANGED <<moneyVars, seen>> PROVE LayerMoney'
  BY <1>8 DEF moneyVars, LayerMoney, LayerBooksBalance
<1> QED BY <1>1, <1>2, <1>4, <1>5, <1>6, <1>7, <1>8
        DEF LayerNext, ApplySync, RotateRelayer, HeartbeatNote, NewDay, layerVars

-----------------------------------------------------------------------------
(* Layer: the gate *)

GateRows == [wallet : Wallets \cup {NoWallet}, active : BOOLEAN, bscBlock : Nat]

\* A wallet acts for an agent only if a row of BSC once named it as the agent's wallet.
WasMirrored(w, a) == \E row \in SyncRows : row.agent = a /\ row.wallet = w

GateInv ==
    /\ agentRow \in [Agents -> GateRows] /\ walletAgentId \in [Wallets -> Agents \cup {0}]
    /\ GateIsABijection
    /\ \A w \in Wallets : walletAgentId[w] # 0 => WasMirrored(w, walletAgentId[w])
    /\ NobodyActsAsAnother

LEMMA GateStart == ASSUME LayerInit PROVE GateInv
<1>1. agentRow = [a \in Agents |-> NoRow] /\ walletAgentId = [w \in Wallets |-> 0] /\ acted = {}
  BY DEF LayerInit
<1>2. agentRow \in [Agents -> GateRows]
  BY <1>1 DEF NoRow, GateRows
<1> QED BY <1>1, <1>2 DEF GateInv, GateIsABijection, NobodyActsAsAnother, NoRow

LEMMA SyncKeeps == ASSUME GateInv, NEW sender, NEW row \in SyncRows, ApplySync(sender, row) PROVE GateInv'
<1> DEFINE a == row.agent
           w == row.wallet
           old == agentRow[a].wallet
           unbound == OldUnbound(a, w)
           new == [wallet |-> w, active |-> row.active, bscBlock |-> row.bscBlock]
<1>1. /\ a \in Agents /\ a # 0 /\ w \in Wallets \cup {NoWallet} /\ new \in GateRows /\ new.wallet = w
      /\ NoWallet \notin Wallets
  BY LayerInputs DEF GateRows
<1>2. /\ w # NoWallet => unbound[w] \in {0, a}
      /\ walletAgentId' = [x \in Wallets |-> IF x = w THEN a ELSE unbound[x]]
      /\ agentRow' = [agentRow EXCEPT ![a] = new] /\ acted' = acted
  BY DEF ApplySync
<1>3. \A x \in Wallets : unbound[x] = IF x = old /\ old # w THEN 0 ELSE walletAgentId[x]
  BY DEF OldUnbound
<1>4. agentRow \in [Agents -> GateRows] /\ walletAgentId \in [Wallets -> Agents \cup {0}] /\ GateIsABijection
  BY DEF GateInv
<1> HIDE DEF unbound, new
<1>5. agentRow' \in [Agents -> GateRows] /\ walletAgentId' \in [Wallets -> Agents \cup {0}]
  BY <1>1, <1>2, <1>3, <1>4
<1>6. /\ \A b \in Agents : agentRow'[b] = IF b = a THEN new ELSE agentRow[b]
      /\ \A x \in Wallets : walletAgentId'[x] = IF x = w THEN a ELSE unbound[x]
  BY <1>2, <1>4
<1>7. ASSUME NEW x \in Wallets, walletAgentId'[x] # 0
      PROVE  /\ walletAgentId'[x] \in Agents /\ agentRow'[walletAgentId'[x]].wallet = x
             /\ WasMirrored(x, walletAgentId'[x])
  <2>1. CASE x = w
    BY <1>1, <1>6, <2>1 DEF WasMirrored
  <2>2. CASE x # w
    <3>1. walletAgentId'[x] = walletAgentId[x] /\ ~(x = old /\ old # w)
      BY <1>3, <1>6, <1>7, <2>2
    <3>2. /\ walletAgentId[x] \in Agents /\ agentRow[walletAgentId[x]].wallet = x
          /\ WasMirrored(x, walletAgentId[x])
      BY <1>7, <3>1 DEF GateInv, GateIsABijection
    <3>3. walletAgentId[x] # a
      BY <2>2, <3>1, <3>2
    <3> QED BY <1>6, <3>1, <3>2, <3>3
  <2> QED BY <2>1, <2>2
<1>8. ASSUME NEW b \in Agents, agentRow'[b].wallet # NoWallet
      PROVE  walletAgentId'[agentRow'[b].wallet] = b
  <2>1. CASE b = a
    <3>1. agentRow'[b].wallet = w /\ w \in Wallets
      BY <1>1, <1>6, <1>8, <2>1
    <3> QED BY <1>6, <2>1, <3>1
  <2>2. CASE b # a
    <3> DEFINE x == agentRow[b].wallet
    <3>1. agentRow'[b] = agentRow[b] /\ x # NoWallet
      BY <1>6, <1>8, <2>2
    <3>2. x \in Wallets /\ walletAgentId[x] = b
      BY <1>4, <3>1 DEF GateRows, GateIsABijection
    <3>3. x # w
      <4>1. ASSUME x = w PROVE FALSE
        <5>1. unbound[x] \in {0, a} /\ b # 0
          BY <1>2, <3>1, <4>1, LayerInputs
        <5>2. unbound[x] = walletAgentId[x]
          BY <1>3, <3>2, <4>1
        <5> QED BY <2>2, <3>2, <5>1, <5>2
      <4> QED BY <4>1
    <3>4. ~(x = old /\ old # w)
      <4>1. ASSUME x = old PROVE FALSE
        <5>1. walletAgentId[x] = a
          BY <1>1, <1>4, <3>1, <4>1 DEF GateIsABijection
        <5> QED BY <2>2, <3>2, <5>1
      <4> QED BY <4>1
    <3>5. unbound[x] = walletAgentId[x]
      BY <1>3, <3>2, <3>4
    <3>6. walletAgentId'[x] = b
      BY <1>6, <3>2, <3>3, <3>5
    <3> QED BY <3>1, <3>6
  <2> QED BY <2>1, <2>2
<1>9. GateIsABijection'
  BY <1>7, <1>8 DEF GateIsABijection
<1>10. NobodyActsAsAnother'
  BY <1>2 DEF GateInv, NobodyActsAsAnother
<1> QED BY <1>5, <1>7, <1>9, <1>10 DEF GateInv, WasMirrored

\* Whoever acts does it under the agent the gate holds for the wallet.
LEMMA ActingKeeps ==
    ASSUME GateInv, NEW w \in Wallets, UNCHANGED gateVars, acted' = acted \cup {<<w, AgentOf(w)>>}
    PROVE  GateInv'
<1>1. ASSUME NEW x \in Wallets, NEW a \in Agents, <<x, a>> \in acted'
      PROVE  WasMirrored(x, a)
  <2>1. CASE <<x, a>> \in acted
    BY <2>1 DEF GateInv, NobodyActsAsAnother, WasMirrored
  <2>2. CASE <<x, a>> = <<w, AgentOf(w)>>
    <3>1. x = w /\ a = walletAgentId[w] /\ a # 0
      BY <2>2, LayerInputs DEF AgentOf
    <3> QED BY <3>1 DEF GateInv
  <2> QED BY <1>1, <2>1, <2>2
<1>2. NobodyActsAsAnother'
  BY <1>1 DEF NobodyActsAsAnother, WasMirrored
<1> QED BY <1>2 DEF GateInv, GateIsABijection, WasMirrored, gateVars

LEMMA GateStep == ASSUME GateInv, [LayerNext]_layerVars PROVE GateInv'
<1>1. ASSUME NEW r \in RelayerKeys, NEW row \in SyncRows, ApplySync(r, row) PROVE GateInv'
  BY <1>1, SyncKeeps
<1>2. ASSUME NEW w \in Wallets, UNCHANGED gateVars, acted' = acted \cup {<<w, AgentOf(w)>>} PROVE GateInv'
  BY <1>2, ActingKeeps
<1>3. ASSUME UNCHANGED <<gateVars, acted>> PROVE GateInv'
  BY <1>3 DEF gateVars, GateInv, GateIsABijection, WasMirrored, NobodyActsAsAnother
<1> QED BY <1>1, <1>2, <1>3
        DEF LayerNext, Credit, WithdrawCredits, Returns, Exit, BurnFloat, PlainTransfer, Announce, RotateRelayer,
            HeartbeatNote, NewDay, layerVars, gateVars

-----------------------------------------------------------------------------
(* Layer: what a step may not do *)

LEMMA RowsOnlyAdvance ==
    ASSUME GateInv, [LayerNext]_layerVars
    PROVE  TheGateNeverGoesBack
<1>1. \A a \in Agents : agentRow[a].bscBlock \in Nat
  BY DEF GateInv, GateRows
<1>2. ASSUME NEW r \in RelayerKeys, NEW row \in SyncRows, ApplySync(r, row)
      PROVE  TheGateNeverGoesBack
  <2>1. /\ row.agent \in Agents /\ row.bscBlock >= agentRow[row.agent].bscBlock
        /\ agentRow' = [agentRow EXCEPT ![row.agent] =
                [wallet |-> row.wallet, active |-> row.active, bscBlock |-> row.bscBlock]]
    BY <1>2, LayerInputs DEF ApplySync, NotStale
  <2>2. ASSUME NEW a \in Agents PROVE agentRow'[a].bscBlock >= agentRow[a].bscBlock
    <3>1. CASE a = row.agent
      BY <2>1, <3>1 DEF GateInv
    <3>2. CASE a # row.agent
      BY <1>1, <2>1, <3>2 DEF GateInv
    <3> QED BY <3>1, <3>2
  <2> QED BY <2>2 DEF TheGateNeverGoesBack
<1>3. ASSUME UNCHANGED agentRow PROVE TheGateNeverGoesBack
  BY <1>1, <1>3 DEF TheGateNeverGoesBack
<1> QED BY <1>2, <1>3
        DEF LayerNext, Credit, WithdrawCredits, Returns, Exit, BurnFloat, PlainTransfer, Announce, RotateRelayer,
            HeartbeatNote, NewDay, layerVars, gateVars

\* The nonce only grows, and only with a message that carries it.
LEMMA RotationsOnlyAdvance ==
    ASSUME [LayerNext]_layerVars
    PROVE  RotationsAreNotReplayed
<1>1. ASSUME NEW message \in Signed, RotateRelayer(message) PROVE RotationsAreNotReplayed
  <2>1. /\ message \in [relayer : RelayerKeys, nonce : Nat] /\ message.nonce = rotationNonce
        /\ rotationNonce' = message.nonce + 1 /\ relayer' = message.relayer
    BY <1>1, LayerInputs DEF RotateRelayer, NonceIsNext
  <2>2. message = [relayer |-> relayer', nonce |-> rotationNonce]
    BY <2>1
  <2> QED BY <2>1, <2>2 DEF RotationsAreNotReplayed
<1>2. ASSUME UNCHANGED relayer PROVE RotationsAreNotReplayed
  BY <1>2 DEF RotationsAreNotReplayed
<1> QED BY <1>1, <1>2
        DEF LayerNext, Credit, WithdrawCredits, Returns, Exit, BurnFloat, PlainTransfer, Announce, ApplySync,
            HeartbeatNote, NewDay, layerVars, roleVars


-----------------------------------------------------------------------------
(* WrappedBac *)

\* What is granted without limit says nothing of what is spent; what is granted with one is what is
\* spent and what is left.
WithinGrant(src, guy) ==
    /\ granted[src][guy] \in Int /\ spent[src][guy] \in Int /\ allowance[src][guy] \in Int
    /\ granted[src][guy] <= Infinite
    /\ src # guy /\ granted[src][guy] # Infinite =>
        /\ allowance[src][guy] = granted[src][guy] - spent[src][guy]
        /\ 0 <= allowance[src][guy] /\ 0 <= spent[src][guy]
    /\ src = guy => granted[src][guy] = 0 /\ spent[src][guy] = 0

WrapTypes ==
    /\ coins \in [Accounts -> Nat] /\ balanceOf \in [Accounts -> Nat]
    /\ allowance \in [Accounts -> [Accounts -> Int]] /\ granted \in [Accounts -> [Accounts -> Int]]
    /\ spent \in [Accounts -> [Accounts -> Int]]
    /\ forcedBac \in Nat

WrapInv ==
    /\ WrapTypes
    /\ WrappedIsBacked
    /\ \A src, guy \in Accounts : WithinGrant(src, guy)

Everyone == SumFunction([h \in Accounts |-> 1])

LEMMA EveryoneCounts == Everyone \in Nat /\ Coins * Everyone \in Nat
<1> DEFINE f == [h \in Accounts |-> 1]
<1>1. DOMAIN f = Accounts /\ \A h \in Accounts : f[h] \in Nat
  OBVIOUS
<1> HIDE DEF f
<1>2. SumFunctionOnSet(f, Accounts) \in Nat
  BY <1>1, WrapInputs, SumNat
<1>3. Everyone \in Nat
  BY <1>1, <1>2 DEF SumFunction, Everyone, f
<1> QED BY <1>3, WrapInputs, ProductType

LEMMA WrapStart == ASSUME WrapInit PROVE WrapInv
<1>1. /\ coins \in [Accounts -> Nat] /\ balanceOf \in [Accounts -> Nat]
      /\ \A h \in Accounts : coins[h] = Coins /\ balanceOf[h] = 0
  BY WrapInputs DEF WrapInit
<1>2. SumFunction(balanceOf) = 0
  BY <1>1, WrapInputs, SumOfNone
<1>3. SumFunction(coins) = Coins * Everyone
  <2> DEFINE f == [h \in Accounts |-> 1]
  <2>1. /\ DOMAIN f = Accounts /\ DOMAIN coins = Accounts /\ Coins \in Int
        /\ \A h \in Accounts : f[h] \in Int /\ coins[h] = Coins * f[h]
    BY <1>1, WrapInputs
  <2> HIDE DEF f
  <2>2. SumFunctionOnSet(coins, Accounts) = Coins * SumFunctionOnSet(f, Accounts)
    BY <2>1, WrapInputs, SumTimes
  <2>3. SumFunction(coins) = Coins * SumFunction(f)
    BY <2>1, <2>2 DEF SumFunction
  <2> QED BY <2>3 DEF f, Everyone
<1>4. WrappedIsBacked
  <2>1. totalSupply = Coins * Everyone - SumFunction(coins)
    BY DEF totalSupply, Everyone
  <2>2. forcedBac = 0
    BY DEF WrapInit
  <2> QED BY <1>2, <1>3, <2>1, <2>2, EveryoneCounts DEF WrappedIsBacked
<1>5. ASSUME NEW src \in Accounts, NEW guy \in Accounts PROVE WithinGrant(src, guy)
  BY WrapInputs DEF WrapInit, Nobody, WithinGrant
<1> QED BY <1>1, <1>4, <1>5 DEF WrapInv, WrapTypes, WrapInit, Nobody

\* A wrap, or an unwrap of -wad: what one side loses the other one gains.
LEMMA WrapKeeps ==
    ASSUME WrapInv, NEW who \in Accounts, NEW wad \in Int,
           coins' = [coins EXCEPT ![who] = @ - wad], balanceOf' = [balanceOf EXCEPT ![who] = @ + wad],
           coins[who] - wad >= 0, balanceOf[who] + wad >= 0,
           UNCHANGED <<allowance, granted, spent, forcedBac>>
    PROVE  WrapInv'
<1> DEFINE x == coins[who] - wad
           y == balanceOf[who] + wad
<1>1. /\ IsFiniteSet(Accounts) /\ coins \in [Accounts -> Nat] /\ balanceOf \in [Accounts -> Nat]
      /\ coins[who] \in Nat /\ balanceOf[who] \in Nat /\ x \in Nat /\ y \in Nat
      /\ coins' = [coins EXCEPT ![who] = x] /\ balanceOf' = [balanceOf EXCEPT ![who] = y]
      /\ x = coins[who] - wad /\ y = balanceOf[who] + wad
  BY WrapInputs DEF WrapInv, WrapTypes
<1> HIDE DEF x, y
<1>2. SumFunction(coins') = SumFunction(coins) - coins[who] + x /\ SumFunction(coins) \in Nat
  <2>1. SumFunction([coins EXCEPT ![who] = x]) = SumFunction(coins) - coins[who] + x /\ SumFunction(coins) \in Nat
    BY ONLY <1>1, who \in Accounts, SumMoves
  <2> QED BY ONLY <1>1, <2>1, Zenon
<1>3. SumFunction(balanceOf') = SumFunction(balanceOf) - balanceOf[who] + y /\ SumFunction(balanceOf) \in Nat
  <2>1. /\ SumFunction([balanceOf EXCEPT ![who] = y]) = SumFunction(balanceOf) - balanceOf[who] + y
        /\ SumFunction(balanceOf) \in Nat
    BY ONLY <1>1, who \in Accounts, SumMoves
  <2> QED BY ONLY <1>1, <2>1, Zenon
<1>4. /\ SumFunction(balanceOf) + forcedBac = Coins * Everyone - SumFunction(coins)
      /\ forcedBac \in Nat /\ forcedBac' = forcedBac
  BY DEF WrapInv, WrapTypes, WrappedIsBacked, totalSupply, Everyone
<1>5. SumFunction(balanceOf') + forcedBac' = Coins * Everyone - SumFunction(coins')
  <2> DEFINE all == Coins * Everyone
  <2>1. all \in Nat /\ SumFunction(balanceOf) + forcedBac = all - SumFunction(coins)
    BY <1>4, EveryoneCounts
  <2> HIDE DEF all
  <2>2. SumFunction(balanceOf') + forcedBac' = all - SumFunction(coins')
    BY <1>1, <1>2, <1>3, <1>4, <2>1
  <2> QED BY <2>2 DEF all
<1>6. WrappedIsBacked'
  BY <1>5 DEF WrappedIsBacked, totalSupply, Everyone
<1>7. WrapTypes'
  BY <1>1 DEF WrapInv, WrapTypes
<1> QED BY <1>6, <1>7 DEF WrapInv, WithinGrant

\* Coin that is forced in is in the contract, and in no balance.
LEMMA ForcedKeeps ==
    ASSUME WrapInv, NEW who \in Accounts, NEW wad \in Nat, ForcedIntoWrap(who, wad)
    PROVE  WrapInv'
<1> DEFINE x == coins[who] - wad
<1>1. /\ IsFiniteSet(Accounts) /\ coins \in [Accounts -> Nat] /\ coins[who] \in Nat /\ x \in Nat
      /\ coins' = [coins EXCEPT ![who] = x] /\ x = coins[who] - wad
      /\ forcedBac \in Nat /\ forcedBac' = forcedBac + wad
      /\ UNCHANGED <<balanceOf, allowance, granted, spent>>
  BY WrapInputs DEF WrapInv, WrapTypes, ForcedIntoWrap
<1> HIDE DEF x
<1>2. SumFunction(coins') = SumFunction(coins) - coins[who] + x /\ SumFunction(coins) \in Nat
  <2>1. SumFunction([coins EXCEPT ![who] = x]) = SumFunction(coins) - coins[who] + x /\ SumFunction(coins) \in Nat
    BY ONLY <1>1, who \in Accounts, SumMoves
  <2> QED BY ONLY <1>1, <2>1, Zenon
<1>3. SumFunction(balanceOf) \in Nat
  BY WrapInputs, SumMoves, <1>1, 0 \in Nat DEF WrapInv, WrapTypes
<1>4. SumFunction(balanceOf) + forcedBac = Coins * Everyone - SumFunction(coins)
  BY DEF WrapInv, WrappedIsBacked, totalSupply, Everyone
<1>5. SumFunction(balanceOf) + forcedBac' = Coins * Everyone - SumFunction(coins')
  <2> DEFINE all == Coins * Everyone
  <2>1. all \in Nat /\ SumFunction(balanceOf) + forcedBac = all - SumFunction(coins)
    BY <1>4, EveryoneCounts
  <2> HIDE DEF all
  <2>2. SumFunction(balanceOf) + forcedBac' = all - SumFunction(coins')
    BY <1>1, <1>2, <1>3, <2>1
  <2> QED BY <2>2 DEF all
<1>6. WrappedIsBacked'
  BY <1>1, <1>5 DEF WrappedIsBacked, totalSupply, Everyone
<1>7. WrapTypes'
  BY <1>1 DEF WrapInv, WrapTypes
<1> QED BY <1>1, <1>6, <1>7 DEF WrapInv, WithinGrant

LEMMA ApproveKeeps ==
    ASSUME WrapInv, NEW src \in Accounts, NEW guy \in Accounts \ {src}, NEW wad \in 0..Infinite,
           Approve(src, guy, wad)
    PROVE  WrapInv'
<1>1. /\ wad \in Int /\ 0 <= wad /\ wad <= Infinite /\ Infinite \in Nat
      /\ allowance' = [allowance EXCEPT ![src][guy] = wad]
      /\ granted' = [granted EXCEPT ![src][guy] = wad]
      /\ spent' = [spent EXCEPT ![src][guy] = 0] /\ UNCHANGED <<coins, balanceOf, forcedBac>>
  BY WrapInputs DEF Approve
<1>2. WrapTypes'
  BY <1>1 DEF WrapInv, WrapTypes
<1>3. WrappedIsBacked'
  BY <1>1 DEF WrapInv, WrappedIsBacked, totalSupply
<1>4. ASSUME NEW s \in Accounts, NEW g \in Accounts PROVE WithinGrant(s, g)'
  <2>1. WithinGrant(s, g)
    BY DEF WrapInv
  <2>2. CASE s = src /\ g = guy
    <3>1. allowance'[s][g] = wad /\ granted'[s][g] = wad /\ spent'[s][g] = 0
      BY <1>1, <2>2 DEF WrapInv, WrapTypes
    <3> QED BY <1>1, <2>2, <3>1 DEF WithinGrant
  <2>3. CASE ~(s = src /\ g = guy)
    <3>1. allowance'[s][g] = allowance[s][g] /\ granted'[s][g] = granted[s][g] /\ spent'[s][g] = spent[s][g]
      BY <1>1, <2>3 DEF WrapInv, WrapTypes
    <3> QED BY <2>1, <3>1 DEF WithinGrant
  <2> QED BY <2>2, <2>3
<1> QED BY <1>2, <1>3, <1>4 DEF WrapInv

\* What moves between two accounts moves by two sums; to oneself, nothing.
LEMMA MovedIsKept ==
    ASSUME balanceOf \in [Accounts -> Nat], NEW src \in Accounts, NEW dst \in Accounts,
           NEW wad \in Nat, wad <= balanceOf[src]
    PROVE  /\ Moved(src, dst, wad) \in [Accounts -> Nat]
           /\ SumFunction(Moved(src, dst, wad)) = SumFunction(balanceOf)
<1> DEFINE x == balanceOf[src] - wad
           once == [balanceOf EXCEPT ![src] = x]
           y == once[dst] + wad
           twice == [once EXCEPT ![dst] = y]
<1>1. IsFiniteSet(Accounts) /\ balanceOf[src] \in Nat /\ x \in Nat
  BY WrapInputs
<1>2. once \in [Accounts -> Nat] /\ once[dst] \in Nat /\ y \in Nat
  BY <1>1
<1>3. Moved(src, dst, wad) = twice
  BY Zenon DEF Moved
<1>4. twice \in [Accounts -> Nat]
  <2> HIDE DEF once, y
  <2> QED BY <1>2
<1>5. SumFunction(once) = SumFunction(balanceOf) - balanceOf[src] + x /\ SumFunction(balanceOf) \in Nat
  <2> HIDE DEF x
  <2> QED BY ONLY <1>1, balanceOf \in [Accounts -> Nat], src \in Accounts, SumMoves DEF once
<1>6. SumFunction(twice) = SumFunction(once) - once[dst] + y /\ SumFunction(once) \in Nat
  <2> HIDE DEF once, y
  <2> QED BY ONLY <1>1, <1>2, dst \in Accounts, SumMoves DEF twice
<1>7. SumFunction(twice) = SumFunction(balanceOf)
  <2>1. x = balanceOf[src] - wad /\ y = once[dst] + wad
    OBVIOUS
  <2> HIDE DEF x, y, once, twice
  <2> QED BY ONLY <1>1, <1>2, <1>5, <1>6, <2>1
<1> HIDE DEF twice
<1> QED BY <1>3, <1>4, <1>7

LEMMA TransferKeeps ==
    ASSUME WrapInv, NEW guy \in Accounts, NEW src \in Accounts, NEW dst \in Accounts, NEW wad \in Wads,
           TransferFrom(guy, src, dst, wad)
    PROVE  WrapInv'
<1>1. /\ wad \in Nat /\ wad <= balanceOf[src] /\ Infinite \in Nat /\ wad < Infinite
      /\ FreeToSpend(src, guy) \/ wad <= allowance[src][guy]
      /\ allowance' = AllowanceLeft(src, guy, wad)
      /\ balanceOf' = Moved(src, dst, wad)
      /\ spent' = IF guy = src \/ granted[src][guy] = Infinite THEN spent ELSE [spent EXCEPT ![src][guy] = @ + wad]
      /\ UNCHANGED <<coins, granted, forcedBac>>
  BY WrapInputs DEF TransferFrom
<1>2. balanceOf' \in [Accounts -> Nat] /\ SumFunction(balanceOf') = SumFunction(balanceOf)
  BY <1>1, MovedIsKept DEF WrapInv, WrapTypes
<1>3. WrappedIsBacked'
  BY <1>1, <1>2 DEF WrapInv, WrappedIsBacked, totalSupply
<1>4. /\ allowance \in [Accounts -> [Accounts -> Int]] /\ granted \in [Accounts -> [Accounts -> Int]]
      /\ spent \in [Accounts -> [Accounts -> Int]]
      /\ WithinGrant(src, guy)
  BY DEF WrapInv, WrapTypes
<1>5. WrapTypes'
  <2>1. allowance' \in [Accounts -> [Accounts -> Int]]
    BY <1>1, <1>4 DEF AllowanceLeft
  <2>2. spent' \in [Accounts -> [Accounts -> Int]]
    BY <1>1, <1>4
  <2> QED BY <1>1, <1>2, <2>1, <2>2 DEF WrapInv, WrapTypes
<1>6. ASSUME NEW s \in Accounts, NEW g \in Accounts PROVE WithinGrant(s, g)'
  <2>1. WithinGrant(s, g)
    BY DEF WrapInv
  <2>2. CASE s = src /\ g = guy
    <3>1. CASE guy = src
      <4>1. allowance' = allowance /\ spent' = spent
        BY <1>1, <3>1 DEF AllowanceLeft, FreeToSpend
      <4> QED BY <1>1, <2>1, <4>1 DEF WithinGrant
    <3>2. CASE guy # src /\ granted[src][guy] = Infinite
      <4>1. spent' = spent /\ granted' = granted
        BY <1>1, <3>2
      <4>2. allowance'[s][g] \in Int
        BY <1>5 DEF WrapTypes
      <4> QED BY <2>1, <2>2, <3>2, <4>1, <4>2 DEF WithinGrant
    <3>3. CASE guy # src /\ granted[src][guy] # Infinite
      <4>1. /\ allowance[s][g] = granted[s][g] - spent[s][g] /\ 0 <= allowance[s][g] /\ 0 <= spent[s][g]
            /\ granted[s][g] \in Int /\ spent[s][g] \in Int /\ granted[s][g] <= Infinite
        BY <1>4, <2>2, <3>3 DEF WithinGrant
      <4>2. allowance[src][guy] # Infinite
        BY <1>1, <2>2, <3>3, <4>1
      <4>3. wad <= allowance[s][g]
        BY <1>1, <2>2, <3>3, <4>2 DEF FreeToSpend
      <4>4. allowance' = [allowance EXCEPT ![src][guy] = @ - wad] /\ spent' = [spent EXCEPT ![src][guy] = @ + wad]
        BY <1>1, <3>3, <4>2 DEF FreeToSpend, AllowanceLeft
      <4>5. /\ allowance'[s][g] = allowance[s][g] - wad /\ spent'[s][g] = spent[s][g] + wad
            /\ granted'[s][g] = granted[s][g]
        BY <1>1, <1>4, <2>2, <4>4
      <4> QED BY <1>1, <2>2, <3>3, <4>1, <4>3, <4>5 DEF WithinGrant
    <3> QED BY <3>1, <3>2, <3>3
  <2>3. CASE ~(s = src /\ g = guy)
    <3>1. allowance'[s][g] = allowance[s][g] /\ granted'[s][g] = granted[s][g] /\ spent'[s][g] = spent[s][g]
      BY <1>1, <1>4, <2>3 DEF AllowanceLeft
    <3> QED BY <2>1, <3>1 DEF WithinGrant
  <2> QED BY <2>2, <2>3
<1> QED BY <1>3, <1>5, <1>6 DEF WrapInv

LEMMA WrapStep == ASSUME WrapInv, [WrapNext]_wrapVars PROVE WrapInv'
<1>1. /\ coins \in [Accounts -> Nat] /\ balanceOf \in [Accounts -> Nat]
      /\ \A wad \in Wads : wad \in Nat /\ wad \in 0..Infinite
      /\ Infinite \in 0..Infinite
  BY WrapInputs DEF WrapInv, WrapTypes
<1>2. ASSUME NEW who \in Accounts, NEW wad \in Wads, Wrap(who, wad) PROVE WrapInv'
  <2>1. wad \in Int /\ coins[who] - wad >= 0 /\ balanceOf[who] + wad >= 0
    BY <1>1, <1>2 DEF Wrap
  <2> QED BY <1>2, <2>1, WrapKeeps DEF Wrap
<1>3. ASSUME NEW who \in Accounts, NEW wad \in Wads, Unwrap(who, wad) PROVE WrapInv'
  <2> DEFINE minus == 0 - wad
  <2>1. /\ minus \in Int /\ coins[who] - minus >= 0 /\ balanceOf[who] + minus >= 0
        /\ coins[who] - minus = coins[who] + wad /\ balanceOf[who] + minus = balanceOf[who] - wad
    BY <1>1, <1>3 DEF Unwrap
  <2>2. /\ coins' = [coins EXCEPT ![who] = coins[who] - minus]
        /\ balanceOf' = [balanceOf EXCEPT ![who] = balanceOf[who] + minus]
    BY <1>3, <2>1 DEF Unwrap
  <2> HIDE DEF minus
  <2> QED BY <1>3, <2>1, <2>2, WrapKeeps DEF Unwrap
<1>4. ASSUME NEW who \in Accounts, NEW wad \in Wads, NEW guy \in Accounts \ {who},
             Approve(who, guy, wad) \/ Approve(who, guy, Infinite)
      PROVE  WrapInv'
  BY <1>1, <1>4, ApproveKeeps
<1>5. ASSUME NEW who \in Accounts, NEW wad \in Wads, NEW guy \in Accounts, NEW dst \in Accounts,
             TransferFrom(guy, who, dst, wad)
      PROVE  WrapInv'
  BY <1>5, TransferKeeps
<1>6. ASSUME NEW who \in Accounts, NEW wad \in Wads, ForcedIntoWrap(who, wad) PROVE WrapInv'
  BY <1>1, <1>6, ForcedKeeps
<1>7. CASE UNCHANGED wrapVars
  BY <1>7 DEF wrapVars, WrapInv, WrapTypes, WrappedIsBacked, totalSupply, WithinGrant
<1> QED BY <1>2, <1>3, <1>4, <1>5, <1>6, <1>7 DEF WrapNext

LEMMA WrapInvSuffices == ASSUME WrapInv PROVE WrappedIsBacked /\ SpendersStayWithinAllowance
<1>1. ASSUME NEW src \in Accounts, NEW guy \in Accounts, granted[src][guy] # Infinite
      PROVE  spent[src][guy] <= granted[src][guy]
  BY <1>1 DEF WrapInv, WithinGrant
<1> QED BY <1>1 DEF WrapInv, SpendersStayWithinAllowance

-----------------------------------------------------------------------------
(* Watchdog *)

WatchKinds == {"posted", "rejected", "finalized", "none"}
WatchEvents == [kind : WatchKinds, epoch : Watched, forged : BOOLEAN, reports : SUBSET Nat]
OpenFindings == {"pending_confirm", "pending_trip", "tripped"}
Findings == OpenFindings \cup {"none", "cleared"}

\* What the first n events leave to be reported again.
Rejected(c, n) == {j \in 1..n : c[j].kind = "rejected"}
Finalized(c, n) == {j \in 1..n : c[j].kind = "finalized"}
RestAt(c, n) ==
    {c[i].epoch : i \in {j \in Rejected(c, n) : \A m \in Finalized(c, n) : c[m].epoch < c[j].epoch}}

\* The contract posts epoch after epoch, resolves each at most once and before it posts the next, and an
\* honest anchor reports what was left of the events before it.  All of it is also so of every beginning
\* of the chain, which a reorganisation may leave.
InOrder(x, y) == x.epoch < y.epoch \/ (x.epoch = y.epoch /\ x.kind = "posted" /\ y.kind # "posted")
ResolvedBefore(c, i, e) ==
    \E j \in 1..i - 1 : c[j].kind \in {"rejected", "finalized"} /\ c[j].epoch = e
ChainInv ==
    /\ chain \in Seq(WatchEvents)
    /\ \E k \in 0..LastWatched : Of({"posted"}) = 1..k /\ OpenAnchors \subseteq {k}
    /\ \A i \in DOMAIN chain : chain[i].kind # "none" => chain[i].epoch \in Of({"posted"})
    /\ \A i, j \in DOMAIN chain :
           i < j /\ chain[i].kind # "none" /\ chain[j].kind # "none" => InOrder(chain[i], chain[j])
    /\ \A i \in DOMAIN chain : chain[i].kind = "posted" =>
           /\ chain[i].reports = RestAt(chain, i - 1)
           /\ chain[i].epoch > 1 => ResolvedBefore(chain, i, chain[i].epoch - 1)

WatchTypes ==
    /\ cursor \in Nat /\ upTo \in Nat /\ carry \subseteq Nat
    /\ finding \in [Watched -> Findings]
    /\ segment \in Seq(WatchEvents) /\ todo \subseteq Watched
    /\ at \in {"down", "idle", "scan", "confirm", "trip", "record", "resume"} /\ back \in {"scan", "resume"}
    /\ rescans \in BOOLEAN /\ shaken \in BOOLEAN

\* The running tick has the events after the Handled first ones before it, up to the head it read; no
\* tick is running in any other place.  After a reorganisation it still has every anchor before it that
\* the chain shows there, but those that came late.
Handled == upTo - Len(segment)
Ticking == at = "scan" \/ (at \in {"confirm", "trip", "record"} /\ back = "scan")
Timely(i) == i \in DOMAIN chain /\ chain[i].kind = "posted" /\ chain[i].epoch \notin late
TickInv ==
    /\ cursor <= Handled
    /\ ~shaken => upTo <= Len(chain) /\ \A n \in 1..Len(segment) : segment[n] = chain[Handled + n]
    /\ \A n \in 1..Len(segment) : Timely(Handled + n) =>
           segment[n].kind = "posted" /\ segment[n].epoch = chain[Handled + n].epoch
    /\ ~Ticking => segment = << >> /\ upTo = cursor

\* As long as nothing was read twice or replaced the carry table is what the events handled so far leave.
CarryInv == rescans \/ shaken \/ carry = RestAt(chain, Handled)

ForgedAt(i) == chain[i].kind = "posted" /\ chain[i].forged
ForgeriesAreFound ==
    \A i \in 1..Handled : Timely(i) /\ ForgedAt(i) =>
        finding[chain[i].epoch] \in OpenFindings \/ chain[i].epoch \in missed \cup pardoned
FindingsAreOfForgeries ==
    rescans \/ shaken \/ \A e \in Watched : finding[e] # "none" =>
        \E i \in 1..Handled : ForgedAt(i) /\ chain[i].epoch = e
FindingInv ==
    /\ at \in {"confirm", "trip", "record"} => subject \in Watched /\ finding[subject] # "none"
    /\ at = "record" /\ mined => subject \in braked
    /\ \A e \in todo : finding[e] # "none"
    /\ ForgeriesAreFound /\ FindingsAreOfForgeries /\ TrippedIsAccountedFor

WatchInv == WatchTypes /\ ChainInv /\ TickInv /\ CarryInv /\ FindingInv

LEMMA WatchStart == ASSUME WatchInit PROVE WatchInv
<1>1. /\ chain = << >> /\ cursor = 0 /\ upTo = 0 /\ segment = << >> /\ carry = {} /\ at = "idle"
      /\ finding = [e \in Watched |-> "none"] /\ todo = {} /\ rescans = FALSE /\ shaken = FALSE /\ back = "scan"
  BY DEF WatchInit
<1>2. WatchTypes
  <2>1. finding \in [Watched -> Findings]
    BY <1>1 DEF Findings, OpenFindings
  <2>2. segment \in Seq(WatchEvents)
    <3>1. << >> \in Seq(WatchEvents)
      OBVIOUS
    <3> QED BY <1>1, <3>1, Zenon
  <2> QED BY <1>1, <2>1, <2>2 DEF WatchTypes
<1>3. Of({"posted"}) = {} /\ OpenAnchors = {}
  BY <1>1 DEF Of, OpenAnchors
<1>4. ChainInv
  <2>1. 0 \in 0..LastWatched /\ 1..0 = {}
    BY WatchSizes
  <2>2. chain \in Seq(WatchEvents) /\ DOMAIN chain = {}
    BY <1>1
  <2> QED BY <1>3, <2>1, <2>2 DEF ChainInv
<1>5. Len(segment) = 0 /\ Handled = 0
  <2>1. Len(<< >>) = 0
    OBVIOUS
  <2>2. Len(segment) = 0
    BY <1>1, <2>1, Zenon
  <2>3. upTo = 0 /\ 0 - 0 = 0
    BY <1>1
  <2>4. Handled = 0 - 0
    BY <2>2, <2>3, Zenon DEF Handled
  <2> QED BY <2>2, <2>3, <2>4
<1>6. TickInv
  BY <1>1, <1>5 DEF TickInv
<1>7. CarryInv
  <2>1. 1..0 = {}
    OBVIOUS
  <2>2. RestAt(chain, 0) = {}
    BY <2>1 DEF RestAt, Rejected
  <2> QED BY <1>1, <1>5, <2>2 DEF CarryInv
<1>8. FindingInv
  BY <1>1, <1>5 DEF FindingInv, TrippedIsAccountedFor, ForgeriesAreFound, FindingsAreOfForgeries, OpenFindings
<1> QED BY <1>2, <1>4, <1>6, <1>7, <1>8 DEF WatchInv

\* An epoch is posted once.
LEMMA PostedOnce ==
    ASSUME ChainInv, NEW i \in DOMAIN chain, chain[i].kind = "posted"
    PROVE  PostedAt(chain[i].epoch) = i
<1>1. \A j \in DOMAIN chain : j \in Int
  BY DEF ChainInv
<1>2. ASSUME NEW j \in DOMAIN chain, chain[j].kind = "posted", chain[j].epoch = chain[i].epoch PROVE j = i
  <2>1. chain[i] \in WatchEvents /\ chain[i].epoch \in Int
    <3>1. chain[i] \in WatchEvents
      BY DEF ChainInv
    <3> QED BY <3>1, WatchSizes DEF WatchEvents, Watched
  <2>2. CASE i < j
    BY <1>2, <2>1, <2>2 DEF ChainInv, InOrder
  <2>3. CASE j < i
    BY <1>2, <2>1, <2>3 DEF ChainInv, InOrder
  <2> QED BY <1>1, <2>2, <2>3
<1> QED BY <1>2 DEF PostedAt

ForgedAsPosted ==
    \A e : e \in Forged <=>
        \E i \in DOMAIN chain : chain[i].kind = "posted" /\ chain[i].epoch = e /\ chain[i].forged

LEMMA ForgedIsPosted == ChainInv => ForgedAsPosted
<1> SUFFICES ASSUME ChainInv PROVE ForgedAsPosted
  OBVIOUS
<1>1. ASSUME NEW e, e \in Forged
      PROVE  \E i \in DOMAIN chain : chain[i].kind = "posted" /\ chain[i].epoch = e /\ chain[i].forged
  <2>1. PICK i \in DOMAIN chain : chain[i].kind = "posted" /\ chain[i].epoch = e
    BY <1>1 DEF Forged, Of
  <2>2. PostedAt(e) = i
    BY <2>1, PostedOnce
  <2> QED BY <1>1, <2>1, <2>2 DEF Forged
<1>2. ASSUME NEW i \in DOMAIN chain, chain[i].kind = "posted", chain[i].forged PROVE chain[i].epoch \in Forged
  <2>1. PostedAt(chain[i].epoch) = i
    BY <1>2, PostedOnce
  <2>2. chain[i].epoch \in Of({"posted"})
    BY <1>2 DEF Of
  <2> QED BY <1>2, <2>1, <2>2 DEF Forged
<1> QED BY <1>1, <1>2 DEF ForgedAsPosted

LEMMA RestOfPrefix ==
    ASSUME NEW c, NEW d, NEW n \in Nat, \A i \in 1..n : c[i] = d[i]
    PROVE  RestAt(c, n) = RestAt(d, n)
<1>1. Rejected(c, n) = Rejected(d, n) /\ Finalized(c, n) = Finalized(d, n)
  BY DEF Rejected, Finalized
<1>2. ASSUME NEW i \in 1..n PROVE c[i].epoch = d[i].epoch
  OBVIOUS
<1>3. Rejected(c, n) \subseteq 1..n /\ Finalized(c, n) \subseteq 1..n
  BY DEF Rejected, Finalized
<1> DEFINE left(s) == {j \in Rejected(s, n) : \A m \in Finalized(s, n) : s[m].epoch < s[j].epoch}
<1>4. left(c) = left(d) /\ left(c) \subseteq 1..n
  BY <1>1, <1>2, <1>3
<1>5. RestAt(c, n) = {c[i].epoch : i \in left(c)} /\ RestAt(d, n) = {d[i].epoch : i \in left(d)}
  BY Zenon DEF RestAt
<1> HIDE DEF left
<1> QED BY <1>2, <1>4, <1>5

\* One event more changes what is left to report as it changes the carry table.
LEMMA RestGrows ==
    ASSUME ChainInv, NEW n \in Nat, n + 1 \in DOMAIN chain
    PROVE  /\ chain[n + 1].kind = "none" => RestAt(chain, n + 1) = RestAt(chain, n)
           /\ chain[n + 1].kind = "posted" =>
                 RestAt(chain, n + 1) = RestAt(chain, n) /\ \A c \in RestAt(chain, n) : c < chain[n + 1].epoch
           /\ chain[n + 1].kind = "rejected" =>
                 RestAt(chain, n + 1) = RestAt(chain, n) \cup {chain[n + 1].epoch}
           /\ chain[n + 1].kind = "finalized" =>
                 RestAt(chain, n + 1) = {c \in RestAt(chain, n) : c >= chain[n + 1].epoch}
<1> DEFINE ev == chain[n + 1]
           left(m) == {j \in Rejected(chain, m) : \A k \in Finalized(chain, m) : chain[k].epoch < chain[j].epoch}
<1>1. \A m : RestAt(chain, m) = {chain[i].epoch : i \in left(m)}
  BY Zenon DEF RestAt
<1>2. \A i \in DOMAIN chain : chain[i].epoch \in Int
  <2>1. \A i \in DOMAIN chain : chain[i] \in WatchEvents
    BY DEF ChainInv
  <2> QED BY <2>1, WatchSizes DEF WatchEvents, Watched
<1>3. \A i \in 1..n : i \in DOMAIN chain /\ i < n + 1
  BY DEF ChainInv
<1>4. \A i \in 1..n : chain[i].kind # "none" /\ ev.kind # "none" => InOrder(chain[i], ev)
  BY <1>3 DEF ChainInv
<1>5. 1..n + 1 = (1..n) \cup {n + 1} /\ n + 1 \notin 1..n
  OBVIOUS
<1>6. ASSUME NEW i \in 1..n, chain[i].kind # "none", ev.kind # "none", chain[i].kind # "posted" \/ ev.kind = "posted"
      PROVE  chain[i].epoch < ev.epoch
  BY <1>4, <1>6 DEF InOrder
<1> HIDE DEF ev
<1>7. ASSUME ev.kind = "posted"
      PROVE  RestAt(chain, n + 1) = RestAt(chain, n) /\ \A c \in RestAt(chain, n) : c < ev.epoch
  <2>1. left(n + 1) = left(n)
    BY <1>5, <1>7 DEF Rejected, Finalized, ev
  <2>2. \A i \in left(n) : i \in 1..n /\ chain[i].kind # "none"
    BY DEF Rejected
  <2> HIDE DEF left
  <2>3. \A i \in left(n) : chain[i].epoch < ev.epoch
    BY <1>6, <1>7, <2>2
  <2>4. RestAt(chain, n + 1) = RestAt(chain, n)
    <3>1. n + 1 \in Nat /\ n \in Nat
      OBVIOUS
    <3> QED BY <1>1, <2>1
  <2>5. \A c \in RestAt(chain, n) : c < ev.epoch
    BY <1>1, <2>3
  <2> QED BY <2>4, <2>5
<1>8. ASSUME ev.kind = "rejected" PROVE RestAt(chain, n + 1) = RestAt(chain, n) \cup {ev.epoch}
  <2>1. Finalized(chain, n + 1) = Finalized(chain, n) /\ Rejected(chain, n + 1) = Rejected(chain, n) \cup {n + 1}
    BY <1>5, <1>8 DEF Rejected, Finalized, ev
  <2>2. \A m \in Finalized(chain, n) : chain[m].epoch < ev.epoch
    BY <1>6, <1>8 DEF Finalized
  <2>3. left(n + 1) = left(n) \cup {n + 1}
    BY <2>1, <2>2 DEF ev
  <2> HIDE DEF left
  <2> QED BY <1>1, <2>3 DEF ev
<1>9. ASSUME ev.kind = "finalized" PROVE RestAt(chain, n + 1) = {c \in RestAt(chain, n) : c >= ev.epoch}
  <2>1. \A i \in Rejected(chain, n + 1) : i \in 1..n /\ chain[i].kind \notin {"posted", "none"}
    BY <1>5, <1>9 DEF Rejected, ev
  <2>2. n + 1 \in Finalized(chain, n + 1)
    BY <1>5, <1>9 DEF Finalized, ev
  <2>3. \A i \in Rejected(chain, n + 1) : chain[i].epoch < ev.epoch /\ chain[i].epoch \in Int /\ ev.epoch \in Int
    BY <1>2, <1>3, <1>6, <1>9, <2>1 DEF ev
  <2>4. left(n + 1) = {}
    BY <2>2, <2>3 DEF ev
  <2>5. \A i \in left(n) : chain[i].epoch < ev.epoch /\ chain[i].epoch \in Int /\ ev.epoch \in Int
    BY <1>5, <2>3 DEF Rejected
  <2> HIDE DEF left
  <2>6. \A c \in RestAt(chain, n) : ~(c >= ev.epoch)
    BY <1>1, <2>5
  <2>7. RestAt(chain, n + 1) = {}
    BY <1>1, <2>4
  <2> QED BY <2>6, <2>7
<1>10. ASSUME ev.kind = "none" PROVE RestAt(chain, n + 1) = RestAt(chain, n)
  <2>1. left(n + 1) = left(n)
    BY <1>5, <1>10 DEF Rejected, Finalized, ev
  <2> HIDE DEF left
  <2>2. n + 1 \in Nat /\ n \in Nat
    OBVIOUS
  <2> QED BY <1>1, <2>1
<1> QED BY <1>7, <1>8, <1>9, <1>10 DEF ev

\* The chain grows by the next epoch's anchor, or by what becomes of the last one.
Grows(ev) ==
    /\ ev \in WatchEvents /\ chain' = Append(chain, ev)
    /\ \/ /\ ev.kind = "posted" /\ ev.epoch = Cardinality(Of({"posted"})) + 1
          /\ OpenAnchors = {} /\ ev.reports = Unreported
       \/ ev.kind \in {"rejected", "finalized"} /\ ev.epoch \in OpenAnchors

LEMMA UnreportedIsRest == ASSUME ChainInv PROVE Unreported = RestAt(chain, Len(chain))
<1> DEFINE n == Len(chain)
<1>1. DOMAIN chain = 1..n
  BY DEF ChainInv
<1>2. Of({"rejected"}) = {chain[i].epoch : i \in Rejected(chain, n)}
  BY <1>1 DEF Of, Rejected
<1>3. Of({"finalized"}) = {chain[m].epoch : m \in Finalized(chain, n)}
  BY <1>1 DEF Of, Finalized
<1> HIDE DEF n
<1>4. RestAt(chain, n) = {chain[i].epoch : i \in {j \in Rejected(chain, n) :
                              \A m \in Finalized(chain, n) : chain[m].epoch < chain[j].epoch}}
  BY Zenon DEF RestAt
<1>5. Unreported = RestAt(chain, n)
  BY <1>2, <1>3, <1>4 DEF Unreported
<1> QED BY <1>5 DEF n

LEMMA ChainGrows ==
    ASSUME ChainInv, NEW ev, Grows(ev)
    PROVE  /\ ChainInv'
           /\ Len(chain') = Len(chain) + 1 /\ Len(chain) \in Nat
           /\ \A i \in 1..Len(chain) : chain'[i] = chain[i]
           /\ \A n \in 0..Len(chain) : RestAt(chain', n) = RestAt(chain, n)
           /\ chain'[Len(chain) + 1] = ev
<1> DEFINE n == Len(chain)
           past == DOMAIN chain
<1>1. /\ n \in Nat /\ past = 1..n /\ \A i \in past : chain[i] \in WatchEvents
      /\ chain \in Seq(WatchEvents) /\ ev \in WatchEvents /\ chain' = Append(chain, ev)
  BY DEF ChainInv, Grows
<1>2. /\ chain' \in Seq(WatchEvents) /\ Len(chain') = n + 1 /\ DOMAIN chain' = 1..n + 1
      /\ \A i \in 1..n : chain'[i] = chain[i]
      /\ chain'[n + 1] = ev
  BY <1>1
<1>3. DOMAIN chain' = past \cup {n + 1} /\ n + 1 \notin past /\ \A i \in past : i \in 1..n /\ i < n + 1
  BY <1>1, <1>2
<1>4. \A m \in 0..n : RestAt(chain', m) = RestAt(chain, m)
  <2>1. ASSUME NEW m \in 0..n PROVE m \in Nat /\ \A i \in 1..m : chain'[i] = chain[i]
    BY <1>1, <1>2
  <2> QED BY <2>1, RestOfPrefix
<1>5. \A kinds : Of(kinds)' = Of(kinds) \cup (IF ev.kind \in kinds THEN {ev.epoch} ELSE {})
  <2> HIDE DEF past, n
  <2>1. ASSUME NEW kinds PROVE Of(kinds)' = Of(kinds) \cup (IF ev.kind \in kinds THEN {ev.epoch} ELSE {})
    <3>1. {j \in DOMAIN chain' : chain'[j].kind \in kinds} =
            {j \in past : chain[j].kind \in kinds} \cup (IF ev.kind \in kinds THEN {n + 1} ELSE {})
      BY <1>2, <1>3
    <3> QED BY <1>2, <1>3, <3>1 DEF Of, past
  <2> QED BY <2>1
<1>6. PICK k \in 0..LastWatched : Of({"posted"}) = 1..k /\ OpenAnchors \subseteq {k}
  BY DEF ChainInv
<1>7. Cardinality(Of({"posted"})) = k
  BY <1>6, FS_Interval, WatchSizes
<1>8. /\ LastWatched \in Nat /\ k \in Nat /\ ev.epoch \in 1..LastWatched
      /\ \A i \in past : chain[i].kind # "none" => chain[i].epoch \in 1..k
  BY <1>1, <1>6, WatchSizes DEF WatchEvents, Watched, ChainInv
<1>9. ASSUME \A i \in past : chain[i].kind # "none" => InOrder(chain[i], ev)
      PROVE  \A i, j \in DOMAIN chain' : i < j /\ chain'[i].kind # "none" /\ chain'[j].kind # "none" =>
                 InOrder(chain'[i], chain'[j])
  <2> HIDE DEF n, past
  <2>1. ASSUME NEW i \in DOMAIN chain', NEW j \in DOMAIN chain', i < j, chain'[i].kind # "none",
               chain'[j].kind # "none"
        PROVE  InOrder(chain'[i], chain'[j])
    <3>1. i \in past
      BY <1>1, <1>3, <2>1
    <3>2. CASE j = n + 1
      <4>1. chain'[i] = chain[i] /\ chain'[j] = ev
        BY <1>2, <1>3, <3>1, <3>2
      <4> QED BY <1>9, <2>1, <3>1, <4>1
    <3>3. CASE j \in past
      BY <1>2, <1>3, <2>1, <3>1, <3>3 DEF ChainInv, past
    <3> QED BY <1>3, <3>2, <3>3
  <2> QED BY <2>1
<1>10. ASSUME NEW i \in past, chain'[i].kind = "posted"
       PROVE  /\ chain'[i].reports = RestAt(chain', i - 1)
              /\ chain'[i].epoch > 1 => ResolvedBefore(chain', i, chain'[i].epoch - 1)
  <2>1. i - 1 \in 0..n /\ chain'[i] = chain[i]
    BY <1>1, <1>2, <1>3
  <2>2. chain[i].reports = RestAt(chain, i - 1)
    BY <1>10, <2>1 DEF ChainInv
  <2>3. ASSUME chain'[i].epoch > 1 PROVE ResolvedBefore(chain', i, chain'[i].epoch - 1)
    <3>1. ResolvedBefore(chain, i, chain[i].epoch - 1)
      BY <1>10, <2>1, <2>3 DEF ChainInv
    <3>2. PICK j \in 1..i - 1 : chain[j].kind \in {"rejected", "finalized"} /\ chain[j].epoch = chain[i].epoch - 1
      BY <3>1 DEF ResolvedBefore
    <3>3. chain'[j] = chain[j]
      BY <1>1, <1>2, <1>3
    <3> QED BY <2>1, <3>2, <3>3 DEF ResolvedBefore
  <2> QED BY <1>4, <2>1, <2>2, <2>3
<1>11. CASE ev.kind = "posted"
  <2>1. ev.epoch = k + 1 /\ OpenAnchors = {} /\ ev.reports = RestAt(chain, n)
    BY <1>7, <1>11, UnreportedIsRest DEF Grows
  <2>2. Of({"posted"})' = 1..k + 1
    <3>1. Of({"posted"})' = (1..k) \cup {k + 1}
      BY <1>5, <1>6, <1>11, <2>1
    <3>2. 1..k + 1 = (1..k) \cup {k + 1}
      BY ONLY k \in Nat
    <3> QED BY <1>8, <3>1, <3>2
  <2>3. Of({"rejected", "finalized"})' = Of({"rejected", "finalized"})
    BY <1>5, <1>11
  <2>4. OpenAnchors' \subseteq {k + 1}
    BY <1>5, <1>11, <2>1, <2>3 DEF OpenAnchors
  <2>5. \A i \in DOMAIN chain' : chain'[i].kind # "none" => chain'[i].epoch \in Of({"posted"})'
    BY <1>2, <1>3, <1>8, <2>1, <2>2
  <2>6. \A i \in past : chain[i].kind # "none" => InOrder(chain[i], ev)
    BY <1>8, <2>1 DEF InOrder
  <2>7. \A i \in DOMAIN chain' : chain'[i].kind = "posted" =>
            /\ chain'[i].reports = RestAt(chain', i - 1)
            /\ chain'[i].epoch > 1 => ResolvedBefore(chain', i, chain'[i].epoch - 1)
    <3>1. chain'[n + 1].reports = RestAt(chain', n + 1 - 1)
      <4>1. n + 1 - 1 = n /\ n \in 0..n
        BY <1>1
      <4> QED BY <1>2, <1>4, <2>1, <4>1
    <3>2. ASSUME k + 1 > 1 PROVE ResolvedBefore(chain', n + 1, k + 1 - 1)
      <4>1. k \in Of({"rejected", "finalized"})
        <5>1. k \in 1..k
          BY <1>8, <3>2
        <5> QED BY <1>6, <2>1, <5>1 DEF OpenAnchors
      <4>2. PICK j \in past : chain[j].kind \in {"rejected", "finalized"} /\ chain[j].epoch = k
        BY <4>1 DEF Of
      <4>3. chain'[j] = chain[j] /\ j \in 1..n + 1 - 1 /\ k + 1 - 1 = k
        BY <1>1, <1>2, <1>3, <1>8
      <4> QED BY <4>2, <4>3 DEF ResolvedBefore
    <3>3. chain'[n + 1].epoch > 1 => ResolvedBefore(chain', n + 1, chain'[n + 1].epoch - 1)
      BY <1>2, <2>1, <3>2
    <3> QED BY <1>3, <1>10, <3>1, <3>3
  <2>8. k + 1 \in 0..LastWatched
    BY <1>8, <2>1
  <2> QED BY <1>2, <1>4, <1>1, <2>2, <2>4, <1>9, <2>5, <2>6, <2>7, <2>8 DEF ChainInv
<1>12. CASE ev.kind # "posted"
  <2>1. ev.epoch \in OpenAnchors /\ ev.epoch = k
    BY <1>6, <1>12 DEF Grows
  <2>2. Of({"posted"})' = 1..k
    BY <1>5, <1>6, <1>12
  <2>3. OpenAnchors' \subseteq {k}
    BY <1>5, <1>6, <2>2 DEF OpenAnchors
  <2>4. k \in 1..k
    BY <1>8, <2>1
  <2>5. \A i \in DOMAIN chain' : chain'[i].kind # "none" => chain'[i].epoch \in Of({"posted"})'
    BY <1>2, <1>3, <1>8, <2>1, <2>2, <2>4
  <2>6. \A i \in past : chain[i].kind # "none" => InOrder(chain[i], ev)
    <3>1. ASSUME NEW i \in past, chain[i].epoch = k, chain[i].kind # "none" PROVE chain[i].kind = "posted"
      <4>1. chain[i].kind \in WatchKinds
        BY <1>1 DEF WatchEvents
      <4>2. chain[i].kind \notin {"rejected", "finalized"}
        BY <2>1, <3>1 DEF OpenAnchors, Of
      <4> QED BY <3>1, <4>1, <4>2 DEF WatchKinds
    <3> QED BY <1>8, <1>12, <2>1, <3>1 DEF InOrder
  <2>7. \A i \in DOMAIN chain' : chain'[i].kind = "posted" =>
            /\ chain'[i].reports = RestAt(chain', i - 1)
            /\ chain'[i].epoch > 1 => ResolvedBefore(chain', i, chain'[i].epoch - 1)
    BY <1>2, <1>3, <1>10, <1>12
  <2> QED BY <1>1, <1>2, <1>4, <2>2, <2>3, <1>9, <2>5, <2>6, <2>7 DEF ChainInv
<1> QED BY <1>1, <1>2, <1>4, <1>11, <1>12 DEF Grows

\* A reorganisation: a beginning of the chain is left, and blocks without events behind it.
LEMMA ChainCut ==
    ASSUME ChainInv, NEW m \in 0..Len(chain), NEW z \in Nat,
           chain' = SubSeq(chain, 1, m) \o [i \in 1..z |-> Blank]
    PROVE  /\ ChainInv' /\ m \in Nat
           /\ Len(chain') = m + z
           /\ \A i \in 1..m : i \in DOMAIN chain /\ chain'[i] = chain[i]
           /\ \A i \in DOMAIN chain' : chain'[i].kind # "none" => i \in 1..m
<1> DEFINE n == Len(chain)
           kept == SubSeq(chain, 1, m)
           blanks == [i \in 1..z |-> Blank]
<1>1. /\ n \in Nat /\ DOMAIN chain = 1..n /\ \A i \in 1..n : chain[i] \in WatchEvents
      /\ chain \in Seq(WatchEvents) /\ m \in Nat /\ m <= n /\ LastWatched \in Nat /\ LastWatched >= 1
  BY WatchSizes DEF ChainInv
<1>2. /\ Blank \in WatchEvents /\ Blank.kind = "none"
  BY <1>1 DEF Blank, Event, WatchEvents, WatchKinds, Watched
<1>3. kept \in Seq(WatchEvents) /\ Len(kept) = m /\ \A i \in 1..m : kept[i] = chain[i]
  BY <1>1
<1>4. blanks \in Seq(WatchEvents) /\ Len(blanks) = z
  BY <1>2
<1>5. chain' = kept \o blanks
  OBVIOUS
<1> HIDE DEF kept
<1>6. /\ chain' \in Seq(WatchEvents) /\ Len(chain') = m + z /\ DOMAIN chain' = 1..m + z
      /\ \A i \in 1..m : chain'[i] = chain[i]
      /\ \A i \in m + 1..m + z : chain'[i] = Blank
  <2>1. /\ kept \o blanks \in Seq(WatchEvents) /\ Len(kept \o blanks) = m + z
        /\ DOMAIN (kept \o blanks) = 1..m + z
    <3> HIDE DEF blanks
    <3>1. kept \in Seq(WatchEvents) /\ blanks \in Seq(WatchEvents)
      BY <1>3, <1>4
    <3>2. Len(kept) = m /\ Len(blanks) = z
      BY <1>3, <1>4
    <3>3. kept \o blanks \in Seq(WatchEvents) /\ Len(kept \o blanks) = Len(kept) + Len(blanks)
      BY ONLY <3>1
    <3> QED BY <3>2, <3>3
  <2>2. ASSUME NEW i \in 1..m PROVE (kept \o blanks)[i] = chain[i]
    <3>1. i \in 1..Len(kept)
      BY <1>3
    <3>2. (kept \o blanks)[i] = kept[i]
      BY ONLY <1>3, <1>4, <3>1, kept \in Seq(WatchEvents), blanks \in Seq(WatchEvents)
    <3> QED BY <1>3, <3>2
  <2>3. ASSUME NEW i \in m + 1..m + z PROVE (kept \o blanks)[i] = Blank
    <3>1. (kept \o blanks)[i] = blanks[i - m] /\ i - m \in 1..z
      BY <1>1, <1>3, <1>4
    <3> QED BY <3>1
  <2> QED BY <1>5, <2>1, <2>2, <2>3
<1> HIDE DEF n, blanks
<1>7. \A i \in DOMAIN chain' : chain'[i].kind # "none" => i \in 1..m
  BY <1>1, <1>2, <1>6
<1>8. \A i \in 1..m : i \in DOMAIN chain' /\ i \in DOMAIN chain /\ chain'[i] = chain[i] /\ i - 1 \in 0..m
  BY <1>1, <1>6
<1>9. \A k \in 0..m : RestAt(chain', k) = RestAt(chain, k)
  <2>1. ASSUME NEW k \in 0..m PROVE k \in Nat /\ \A i \in 1..k : chain'[i] = chain[i]
    BY <1>1, <1>6
  <2> QED BY <2>1, RestOfPrefix
<1> DEFINE still == {chain[i].epoch : i \in {j \in 1..m : chain[j].kind = "posted"}}
<1>10. Of({"posted"})' = still
  <2>1. {j \in DOMAIN chain' : chain'[j].kind \in {"posted"}} = {j \in 1..m : chain[j].kind = "posted"}
    BY <1>7, <1>8
  <2>2. \A j \in {i \in 1..m : chain[i].kind = "posted"} : chain'[j].epoch = chain[j].epoch
    BY <1>8
  <2> HIDE DEF still
  <2>3. Of({"posted"})' = {chain'[i].epoch : i \in {j \in DOMAIN chain' : chain'[j].kind \in {"posted"}}}
    BY DEF Of
  <2> QED BY <2>1, <2>2, <2>3 DEF still
<1>11. PICK k \in 0..LastWatched : Of({"posted"}) = 1..k /\ OpenAnchors \subseteq {k}
  BY DEF ChainInv
<1>12. \A i \in 1..m : chain[i].epoch \in Nat
  BY <1>1 DEF WatchEvents, Watched
<1>13. still \subseteq 1..k
  BY <1>8, <1>11 DEF Of
\* What is posted is posted after everything before it, on the chain that is left too.
<1>14. ASSUME NEW j \in 1..m, chain[j].kind # "none", NEW e \in 1..k,
              e < chain[j].epoch \/ (e = chain[j].epoch /\ chain[j].kind # "posted")
       PROVE  e \in still
  <2>1. PICK i \in DOMAIN chain : chain[i].kind = "posted" /\ chain[i].epoch = e
    BY <1>11 DEF Of
  <2>2. ~(j < i)
    <3>1. j \in DOMAIN chain /\ e \in Int /\ chain[j].epoch \in Int
      BY <1>1, <1>8, <1>11, <1>12
    <3>2. ASSUME j < i PROVE FALSE
      <4>1. InOrder(chain[j], chain[i])
        BY <1>14, <2>1, <3>1, <3>2 DEF ChainInv
      <4> QED BY <1>14, <2>1, <3>1, <4>1 DEF InOrder
    <3> QED BY <3>2
  <2>3. i \in 1..m
    BY <1>1, <2>1, <2>2
  <2> QED BY <2>1, <2>3
<1>15. \E h \in 0..k : still = 1..h
  <2> DEFINE gaps == {x \in 1..k + 1 : x \notin still}
  <2> HIDE DEF still
  <2>1. k \in Nat /\ k + 1 \in gaps
    <3>1. k \in Nat /\ k + 1 \in 1..k + 1 /\ k + 1 \notin 1..k
      BY <1>1, <1>11
    <3> QED BY <1>13, <3>1
  <2>2. gaps \in SUBSET Nat /\ gaps # {}
    BY <2>1
  <2>3. PICK x \in gaps : \A y \in gaps : x <= y
    BY <2>2, LeastMember
  <2>4. ASSUME NEW y \in still PROVE y \in 1..x - 1
    <3>1. PICK j \in 1..m : chain[j].kind = "posted" /\ chain[j].epoch = y
      BY DEF still
    <3>2. x \notin still /\ x \in 1..k + 1 /\ y \in 1..k
      BY <1>13
    <3>3. ~(x < y)
      BY <1>14, <2>1, <3>1, <3>2
    <3> QED BY <2>1, <3>2, <3>3
  <2>5. 1..x - 1 \subseteq still
    BY <2>1, <2>3
  <2>6. x - 1 \in 0..k
    BY <2>1
  <2> QED BY <2>4, <2>5, <2>6
<1>16. PICK h \in 0..k : still = 1..h
  BY <1>15
<1> HIDE DEF still
<1>17. h \in 0..LastWatched
  BY <1>1, <1>11
<1>18. ASSUME NEW i \in DOMAIN chain', chain'[i].kind # "none" PROVE chain'[i].epoch \in Of({"posted"})'
  <2>1. i \in 1..m /\ chain'[i] = chain[i] /\ i \in DOMAIN chain
    BY <1>7, <1>8, <1>18
  <2>2. chain[i].epoch \in 1..k
    BY <1>11, <1>18, <2>1 DEF ChainInv
  <2>3. CASE chain[i].kind = "posted"
    BY <1>10, <2>1, <2>3 DEF still
  <2>4. CASE chain[i].kind # "posted"
    BY <1>10, <1>14, <1>18, <2>1, <2>2, <2>4
  <2> QED BY <2>3, <2>4
<1>19. ASSUME NEW i \in DOMAIN chain', NEW j \in DOMAIN chain', i < j, chain'[i].kind # "none", chain'[j].kind # "none"
       PROVE  InOrder(chain'[i], chain'[j])
  <2>1. /\ i \in DOMAIN chain /\ chain'[i] = chain[i]
        /\ j \in DOMAIN chain /\ chain'[j] = chain[j]
    BY <1>7, <1>8, <1>19
  <2> QED BY <1>19, <2>1 DEF ChainInv
<1>20. ASSUME NEW i \in DOMAIN chain', chain'[i].kind = "posted"
       PROVE  /\ i \in 1..m /\ chain'[i].reports = RestAt(chain', i - 1)
              /\ chain'[i].epoch > 1 => ResolvedBefore(chain', i, chain'[i].epoch - 1)
  <2>1. i \in 1..m /\ chain'[i] = chain[i] /\ i \in DOMAIN chain /\ i - 1 \in 0..m
    BY <1>7, <1>8, <1>20
  <2>2. chain[i].reports = RestAt(chain, i - 1)
    BY <1>20, <2>1 DEF ChainInv
  <2>3. ASSUME chain[i].epoch > 1 PROVE ResolvedBefore(chain', i, chain[i].epoch - 1)
    <3>1. ResolvedBefore(chain, i, chain[i].epoch - 1)
      BY <1>20, <2>1, <2>3 DEF ChainInv
    <3>2. PICK j \in 1..i - 1 : chain[j].kind \in {"rejected", "finalized"} /\ chain[j].epoch = chain[i].epoch - 1
      BY <3>1 DEF ResolvedBefore
    <3>3. j \in 1..m
      BY <1>1, <2>1
    <3>4. chain'[j] = chain[j]
      BY <1>8, <3>3
    <3> QED BY <2>1, <3>2, <3>4 DEF ResolvedBefore
  <2> QED BY <1>9, <2>1, <2>2, <2>3
\* An anchor that a later one follows has been resolved before it.
<1>21. OpenAnchors' \subseteq {h}
  <2>1. ASSUME NEW e \in 1..h, e # h PROVE e \in Of({"rejected", "finalized"})'
    <3>1. h \in Nat /\ e + 1 \in 1..h /\ e + 1 > 1 /\ e + 1 - 1 = e
      BY <1>11, <2>1
    <3>2. PICK i \in DOMAIN chain' : chain'[i].kind = "posted" /\ chain'[i].epoch = e + 1
      <4>1. e + 1 \in Of({"posted"})'
        BY <1>10, <1>16, <3>1
      <4> QED BY <4>1 DEF Of
    <3>3. ResolvedBefore(chain', i, e) /\ i \in 1..m
      <4>1. i \in 1..m /\ (chain'[i].epoch > 1 => ResolvedBefore(chain', i, chain'[i].epoch - 1))
        BY <1>20, <3>2
      <4>2. chain'[i].epoch > 1 /\ chain'[i].epoch - 1 = e
        <5>1. \A x : x = e + 1 => x > 1 /\ x - 1 = e
          BY <3>1
        <5> QED BY <3>2, <5>1, Zenon
      <4>3. ResolvedBefore(chain', i, chain'[i].epoch - 1)
        BY <4>1, <4>2
      <4> QED BY <4>1, <4>2, <4>3
    <3>4. PICK j \in 1..i - 1 : chain'[j].kind \in {"rejected", "finalized"} /\ chain'[j].epoch = e
      BY <3>3 DEF ResolvedBefore
    <3>5. j \in DOMAIN chain'
      BY <1>1, <1>6, <3>3
    <3> QED BY <3>4, <3>5 DEF Of
  <2> QED BY <1>10, <1>16, <2>1 DEF OpenAnchors
<1>22. ChainInv'
  BY <1>6, <1>10, <1>16, <1>17, <1>18, <1>19, <1>20, <1>21 DEF ChainInv
<1> QED BY <1>1, <1>6, <1>7, <1>8, <1>22

\* The blocks a tick has read stay as they are, but for what a reorganisation takes out of them; what it
\* puts into them afterwards is late.
ReadBlocksStay ==
    /\ late \subseteq late' /\ (shaken => shaken') /\ shaken' \in BOOLEAN
    /\ \A i \in 1..upTo : Timely(i)' => Timely(i) /\ chain'[i] = chain[i]
    /\ ~shaken' => upTo <= Len(chain') /\ \A i \in 1..upTo : chain'[i] = chain[i]

LEMMA HandledIsPast ==
    ASSUME WatchInv
    PROVE  /\ Handled \in Nat /\ Len(segment) \in Nat /\ upTo = Handled + Len(segment) /\ upTo \in Nat
           /\ cursor \in Nat /\ cursor <= Handled
           /\ Len(chain) \in Nat /\ DOMAIN chain = 1..Len(chain)
           /\ \A i \in DOMAIN chain : chain[i] \in WatchEvents /\ chain[i].epoch \in Watched
<1>1. /\ Handled \in Nat /\ Len(segment) \in Nat /\ upTo = Handled + Len(segment) /\ upTo \in Nat
      /\ cursor \in Nat /\ cursor <= Handled
  BY DEF WatchInv, WatchTypes, TickInv, Handled
<1>2. Len(chain) \in Nat /\ DOMAIN chain = 1..Len(chain) /\ \A i \in DOMAIN chain : chain[i] \in WatchEvents
  BY DEF WatchInv, ChainInv
<1>3. \A i \in DOMAIN chain : chain[i].epoch \in Watched
  BY <1>2 DEF WatchEvents
<1> QED BY <1>1, <1>2, <1>3

LEMMA ChainStays ==
    ASSUME WatchInv, UNCHANGED <<chain, late, shaken>>
    PROVE  ChainInv' /\ ReadBlocksStay
<1>1. \A kinds : Of(kinds)' = Of(kinds)
  BY DEF Of
<1>2. OpenAnchors' = OpenAnchors
  BY <1>1 DEF OpenAnchors
<1>3. ChainInv'
  BY <1>1, <1>2 DEF WatchInv, ChainInv
<1>4. ReadBlocksStay
  BY DEF WatchInv, WatchTypes, TickInv, ReadBlocksStay, Timely
<1> QED BY <1>3, <1>4

LEMMA GrowthKeeps ==
    ASSUME WatchInv, NEW ev, Grows(ev), shaken' = shaken, late \subseteq late',
           ev.kind = "posted" /\ Len(chain) < upTo => ev.epoch \in late'
    PROVE  ChainInv' /\ ReadBlocksStay
<1> DEFINE n == Len(chain)
<1>1. /\ n \in Nat /\ Len(chain') = n + 1 /\ ChainInv'
      /\ \A i \in 1..n : chain'[i] = chain[i]
      /\ chain'[n + 1] = ev
  BY ChainGrows DEF WatchInv
<1>2. DOMAIN chain = 1..n /\ DOMAIN chain' = 1..n + 1 /\ upTo \in Nat /\ shaken \in BOOLEAN
  BY <1>1, HandledIsPast DEF WatchInv, WatchTypes, ChainInv
<1>3. ASSUME NEW i \in 1..upTo, Timely(i)' PROVE Timely(i) /\ chain'[i] = chain[i]
  <2>1. i \in DOMAIN chain' /\ chain'[i].kind = "posted" /\ chain'[i].epoch \notin late'
    BY <1>3 DEF Timely
  <2>2. i # n + 1
    BY <1>1, <1>2, <2>1
  <2>3. i \in 1..n
    BY <1>1, <1>2, <2>1, <2>2
  <2> QED BY <1>1, <1>2, <2>1, <2>3 DEF Timely
<1>4. ASSUME ~shaken PROVE upTo <= n + 1 /\ \A i \in 1..upTo : chain'[i] = chain[i]
  BY <1>1, <1>2, <1>4 DEF WatchInv, TickInv
<1> QED BY <1>1, <1>2, <1>3, <1>4 DEF ReadBlocksStay

LEMMA CutKeepsBlocks ==
    ASSUME WatchInv, NEW n \in 1..MaxReorg, Reorganised(n)
    PROVE  ChainInv' /\ ReadBlocksStay
<1> DEFINE m == Len(chain) - n
<1>1. /\ n <= Len(chain) /\ shaken' = (shaken \/ m < upTo) /\ late' = late
      /\ \E z \in 0..n : chain' = SubSeq(chain, 1, m) \o [i \in 1..z |-> Blank]
  BY DEF Reorganised
<1>2. n \in Nat /\ Len(chain) \in Nat /\ upTo \in Nat /\ shaken \in BOOLEAN
  BY WatchSizes, HandledIsPast DEF WatchInv, WatchTypes
<1>3. PICK z \in 0..n : chain' = SubSeq(chain, 1, m) \o [i \in 1..z |-> Blank]
  BY <1>1
<1>4. m \in 0..Len(chain) /\ z \in Nat
  BY <1>1, <1>2
<1> HIDE DEF m
<1>5. /\ ChainInv' /\ Len(chain') = m + z
      /\ \A i \in 1..m : i \in DOMAIN chain /\ chain'[i] = chain[i]
      /\ \A i \in DOMAIN chain' : chain'[i].kind # "none" => i \in 1..m
  BY <1>3, <1>4, ChainCut DEF WatchInv
<1>6. \A i \in 1..upTo : Timely(i)' => Timely(i) /\ chain'[i] = chain[i]
  BY <1>1, <1>5 DEF Timely
<1>7. ~shaken' => upTo <= Len(chain') /\ \A i \in 1..upTo : chain'[i] = chain[i]
  <2>1. ASSUME ~shaken' PROVE upTo <= m
    <3>1. ~(m < upTo)
      BY <1>1, <2>1
    <3> QED BY <1>2, <1>4, <3>1
  <2> QED BY <1>2, <1>4, <1>5, <2>1
<1>8. shaken' \in BOOLEAN
  BY <1>1, <1>2
<1> QED BY <1>1, <1>5, <1>6, <1>7, <1>8 DEF ReadBlocksStay

\* A running tick, and one that starts later, find what was handled as it was.
LEMMA StandingKeeps ==
    ASSUME WatchInv, ReadBlocksStay, UNCHANGED <<cursor, carry, segment, upTo, rescans>>, Ticking => Ticking'
    PROVE  TickInv' /\ CarryInv' /\ Handled' = Handled
<1>1. Handled' = Handled
  BY DEF Handled
<1>2. /\ Handled \in Nat /\ Len(segment) \in Nat /\ upTo = Handled + Len(segment) /\ upTo \in Nat
      /\ shaken \in BOOLEAN
  BY HandledIsPast DEF WatchInv, WatchTypes
<1>3. ASSUME NEW n \in 1..Len(segment) PROVE Handled + n \in 1..upTo
  BY <1>2
<1>4. ASSUME NEW n \in 1..Len(segment), Timely(Handled + n)'
      PROVE  segment[n].kind = "posted" /\ segment[n].epoch = chain'[Handled + n].epoch
  <2>1. (Handled + n)' = Handled + n
    BY <1>1
  <2>2. Timely(Handled + n) /\ chain'[Handled + n] = chain[Handled + n]
    BY <1>3, <1>4, <2>1 DEF ReadBlocksStay, Timely
  <2> QED BY <2>2 DEF WatchInv, TickInv
<1>5. ASSUME ~shaken'
      PROVE  upTo <= Len(chain') /\ \A n \in 1..Len(segment) : segment[n] = chain'[Handled + n]
  <2>1. ~shaken /\ upTo <= Len(chain') /\ \A i \in 1..upTo : chain'[i] = chain[i]
    BY <1>5 DEF ReadBlocksStay
  <2> QED BY <1>3, <2>1 DEF WatchInv, TickInv
<1>6. TickInv'
  <2>1. cursor <= Handled /\ (~Ticking => segment = << >> /\ upTo = cursor)
    BY DEF WatchInv, TickInv
  <2>2. \A n \in 1..Len(segment) : Timely(Handled + n)' =>
            segment[n].kind = "posted" /\ segment[n].epoch = chain'[Handled + n].epoch
    BY <1>4
  <2> QED BY <1>1, <1>5, <2>1, <2>2 DEF TickInv
<1>7. CarryInv'
  <2>1. ASSUME ~shaken' PROVE RestAt(chain', Handled) = RestAt(chain, Handled)
    <3>1. \A i \in 1..upTo : chain'[i] = chain[i]
      BY <2>1 DEF ReadBlocksStay
    <3>2. \A i \in 1..Handled : chain'[i] = chain[i]
      BY <1>2, <3>1
    <3> QED BY <1>2, <3>2, RestOfPrefix
  <2> QED BY <1>1, <1>2, <2>1 DEF WatchInv, CarryInv, ReadBlocksStay
<1> QED BY <1>1, <1>6, <1>7

\* What the findings table says goes on being so while what was handled only shrinks, the marks of what
\* may have gone wrong only grow, and no finding disappears.
LEMMA FindingsStand ==
    ASSUME WatchInv, ReadBlocksStay, Handled' \in 0..Handled, rescans => rescans',
           rescans' \/ shaken' \/ Handled' = Handled,
           finding' \in [Watched -> Findings],
           \A e \in Watched : finding'[e] # "none" <=> finding[e] # "none",
           \A e \in Watched : finding[e] \in OpenFindings =>
               \/ finding'[e] \in OpenFindings \/ e \in missed' \cup pardoned'
               \/ \A i \in 1..Handled : ~(Timely(i)' /\ ForgedAt(i)' /\ chain'[i].epoch = e),
           \A e \in Watched : finding'[e] = "tripped" => finding[e] = "tripped" \/ e \in braked' \cup failedTrips',
           missed \subseteq missed', pardoned \subseteq pardoned', braked \subseteq braked',
           failedTrips \subseteq failedTrips'
    PROVE  (ForgeriesAreFound /\ FindingsAreOfForgeries /\ TrippedIsAccountedFor)'
<1>1. /\ Handled \in Nat /\ Handled <= upTo /\ upTo \in Nat /\ Handled' \in Nat /\ Handled' <= Handled
      /\ rescans \in BOOLEAN /\ shaken \in BOOLEAN
  BY HandledIsPast DEF WatchInv, WatchTypes
<1>2. ForgeriesAreFound'
  <2>1. ASSUME NEW i \in 1..Handled', Timely(i)', ForgedAt(i)'
        PROVE  finding'[chain'[i].epoch] \in OpenFindings \/ chain'[i].epoch \in missed' \cup pardoned'
    <3>1. i \in 1..Handled /\ i \in 1..upTo
      BY <1>1
    <3>2. Timely(i) /\ chain'[i] = chain[i]
      BY <2>1, <3>1 DEF ReadBlocksStay
    <3>3. ForgedAt(i)
      BY <2>1, <3>2 DEF ForgedAt
    <3>4. finding[chain[i].epoch] \in OpenFindings \/ chain[i].epoch \in missed \cup pardoned
      BY <3>1, <3>2, <3>3 DEF WatchInv, FindingInv, ForgeriesAreFound
    <3>5. chain[i].epoch \in Watched
      BY <3>2, HandledIsPast DEF Timely
    <3> QED BY <2>1, <3>1, <3>2, <3>4, <3>5
  <2> QED BY <2>1 DEF ForgeriesAreFound, Timely, ForgedAt
<1>3. FindingsAreOfForgeries'
  <2>1. ASSUME ~rescans', ~shaken', NEW e \in Watched, finding'[e] # "none"
        PROVE  \E i \in 1..Handled' : ForgedAt(i)' /\ chain'[i].epoch = e
    <3>1. ~rescans /\ ~shaken /\ Handled' = Handled /\ \A i \in 1..upTo : chain'[i] = chain[i]
      BY <2>1 DEF ReadBlocksStay
    <3>2. PICK i \in 1..Handled : ForgedAt(i) /\ chain[i].epoch = e
      BY <2>1, <3>1 DEF WatchInv, FindingInv, FindingsAreOfForgeries
    <3>3. chain'[i] = chain[i]
      BY <1>1, <3>1
    <3> QED BY <3>1, <3>2, <3>3 DEF ForgedAt
  <2> QED BY <2>1 DEF FindingsAreOfForgeries, ForgedAt
<1>4. TrippedIsAccountedFor'
  BY DEF WatchInv, FindingInv, TrippedIsAccountedFor
<1> QED BY <1>2, <1>3, <1>4

\* A step that handles nothing.
LEMMA NothingHandled ==
    ASSUME WatchInv, ChainInv', ReadBlocksStay, UNCHANGED <<cursor, carry, segment, upTo, rescans>>,
           Ticking => Ticking', finding' \in [Watched -> Findings],
           \A e \in Watched : finding'[e] # "none" <=> finding[e] # "none",
           \A e \in Watched : finding[e] \in OpenFindings =>
               \/ finding'[e] \in OpenFindings \/ e \in missed' \cup pardoned'
               \/ \A i \in 1..Handled : ~(Timely(i)' /\ ForgedAt(i)' /\ chain'[i].epoch = e),
           \A e \in Watched : finding'[e] = "tripped" => finding[e] = "tripped" \/ e \in braked' \cup failedTrips',
           missed \subseteq missed', pardoned \subseteq pardoned', braked \subseteq braked',
           failedTrips \subseteq failedTrips',
           at' \in {"down", "idle", "scan", "confirm", "trip", "record", "resume"}, back' \in {"scan", "resume"},
           at' \in {"confirm", "trip", "record"} => subject' \in Watched /\ finding[subject'] # "none",
           at' = "record" /\ mined' => subject' \in braked',
           todo' \subseteq Watched, \A e \in todo' : finding[e] # "none"
    PROVE  WatchInv'
<1>1. TickInv' /\ CarryInv' /\ Handled' = Handled
  BY StandingKeeps
<1>2. Handled' \in 0..Handled
  BY <1>1, HandledIsPast
<1>3. (ForgeriesAreFound /\ FindingsAreOfForgeries /\ TrippedIsAccountedFor)'
  BY <1>1, <1>2, FindingsStand
<1>4. FindingInv'
  BY <1>3 DEF FindingInv
<1>5. WatchTypes'
  BY DEF WatchInv, WatchTypes, ReadBlocksStay
<1> QED BY <1>1, <1>4, <1>5 DEF WatchInv

\* The chain moves on its own.
LEMMA OutsideKeeps ==
    ASSUME WatchInv,
           \/ \E forged \in BOOLEAN : AnchorPosted(forged)
           \/ \E kind \in {"rejected", "finalized"} : AnchorResolved(kind)
           \/ \E n \in 1..MaxReorg : Reorganised(n)
    PROVE  WatchInv'
<1>1. UNCHANGED <<databaseVars, processVars, braked, pardoned, missed, rescans>> /\ ChainInv' /\ ReadBlocksStay
  <2>1. ASSUME NEW forged \in BOOLEAN, AnchorPosted(forged)
        PROVE  ChainInv' /\ ReadBlocksStay
    <3> DEFINE e == Cardinality(Of({"posted"})) + 1
               ev == Event("posted", e, forged, Unreported)
    <3>1. e \in Watched
      <4>1. PICK k \in 0..LastWatched : Of({"posted"}) = 1..k
        BY DEF WatchInv, ChainInv
      <4>2. Cardinality(Of({"posted"})) = k /\ k \in Nat
        BY <4>1, FS_Interval, WatchSizes
      <4> QED BY <2>1, <4>2 DEF AnchorPosted, Watched
    <3>2. Unreported \subseteq Nat
      <4>1. Unreported \subseteq Of({"rejected"})
        BY DEF Unreported
      <4>2. \A i \in DOMAIN chain : chain[i].epoch \in Nat
        BY HandledIsPast DEF Watched
      <4> QED BY <4>1, <4>2 DEF Of
    <3>3. ev \in WatchEvents /\ ev.kind = "posted" /\ ev.epoch = e /\ ev.reports = Unreported
      BY <3>1, <3>2 DEF Event, WatchEvents, WatchKinds
    <3>4. Grows(ev)
      BY <2>1, <3>3 DEF Grows, AnchorPosted
    <3>5. /\ shaken' = shaken /\ late \subseteq late'
          /\ Len(chain) < upTo => ev.epoch \in late'
      BY <2>1, <3>3 DEF AnchorPosted
    <3> HIDE DEF ev
    <3> QED BY <3>4, <3>5, GrowthKeeps
  <2>2. ASSUME NEW kind \in {"rejected", "finalized"}, AnchorResolved(kind)
        PROVE  ChainInv' /\ ReadBlocksStay
    <3>1. PICK e \in OpenAnchors : chain' = Append(chain, Event(kind, e, FALSE, {}))
      BY <2>2 DEF AnchorResolved
    <3>2. e \in Watched
      <4>1. PICK i \in DOMAIN chain : e = chain[i].epoch
        BY DEF OpenAnchors, Of
      <4> QED BY <4>1, HandledIsPast
    <3> DEFINE ev == Event(kind, e, FALSE, {})
    <3>3. ev \in WatchEvents /\ ev.kind = kind /\ ev.epoch = e
      BY <3>2 DEF Event, WatchEvents, WatchKinds
    <3>4. Grows(ev)
      BY <3>1, <3>3 DEF Grows
    <3>5. shaken' = shaken /\ late' = late /\ ev.kind # "posted"
      BY <2>2, <3>3 DEF AnchorResolved, historyVars
    <3> HIDE DEF ev
    <3> QED BY <3>4, <3>5, GrowthKeeps
  <2> QED BY <2>1, <2>2, CutKeepsBlocks DEF AnchorPosted, AnchorResolved, Reorganised, historyVars
<1>2. /\ UNCHANGED <<cursor, carry, finding, failedTrips, at, segment, upTo, subject, back, mined, todo>>
      /\ UNCHANGED <<braked, missed, pardoned, rescans>>
  BY <1>1 DEF databaseVars, processVars
<1> QED BY <1>1, <1>2, NothingHandled DEF WatchInv, WatchTypes, FindingInv, Ticking

\* A tick starts, at the cursor.
LEMMA StartTickKeeps == ASSUME WatchInv, StartTick PROVE WatchInv'
<1> DEFINE n == Len(chain)
<1>1. /\ cursor \in Nat /\ n \in Nat /\ cursor < n /\ chain \in Seq(WatchEvents) /\ at = "idle"
      /\ segment' = SubSeq(chain, cursor + 1, n) /\ upTo' = n /\ cursor' = cursor /\ at' = "scan"
      /\ UNCHANGED <<chain, carry, finding, failedTrips, todo, back, braked, missed, pardoned, late, rescans, shaken>>
  BY DEF StartTick, InChainOrder, CursorWhenTickStarts, WatchInv, WatchTypes, ChainInv, historyVars
<1>2. /\ segment' \in Seq(WatchEvents) /\ Len(segment') = n - cursor
      /\ \A k \in 1..n - cursor : segment'[k] = chain[cursor + k]
  BY <1>1
<1> HIDE DEF n
<1>3. Handled' = cursor
  BY <1>1, <1>2 DEF Handled
<1>4. Handled = cursor
  <2>1. segment = << >> /\ upTo = cursor
    BY <1>1 DEF WatchInv, TickInv, Ticking
  <2>2. Len(segment) = 0
    BY <2>1
  <2> QED BY <1>1, <2>1, <2>2 DEF Handled
<1>5. ChainInv' /\ ReadBlocksStay
  BY <1>1, ChainStays
<1>6. TickInv'
  <2>1. \A k \in 1..Len(segment') : segment'[k] = chain'[Handled' + k]
    BY <1>1, <1>2, <1>3
  <2>2. \A k \in 1..Len(segment') : Timely(Handled + k)' =>
            segment'[k].kind = "posted" /\ segment'[k].epoch = chain'[Handled' + k].epoch
    BY <2>1 DEF Timely
  <2>3. cursor' <= Handled' /\ upTo' <= Len(chain') /\ Ticking'
    BY <1>1, <1>3 DEF Ticking, n
  <2> QED BY <2>1, <2>2, <2>3 DEF TickInv
<1>7. CarryInv'
  BY <1>1, <1>3, <1>4 DEF WatchInv, CarryInv
<1>8. WatchTypes'
  BY <1>1, <1>2 DEF WatchInv, WatchTypes
<1>9. Handled' = Handled /\ Handled' \in 0..Handled
  BY <1>1, <1>3, <1>4
<1>10. (ForgeriesAreFound /\ FindingsAreOfForgeries /\ TrippedIsAccountedFor)'
  BY <1>1, <1>5, <1>8, <1>9, FindingsStand DEF WatchTypes
<1>11. FindingInv'
  BY <1>1, <1>10 DEF WatchInv, FindingInv
<1> QED BY <1>5, <1>6, <1>7, <1>8, <1>11 DEF WatchInv

\* The events the running tick has before it are those of the chain behind the handled ones, as long as
\* these were not replaced.
LEMMA NextEvent ==
    ASSUME WatchInv, segment # << >>
    PROVE  /\ Head(segment) \in WatchEvents /\ Head(segment).epoch \in Watched
           /\ ~shaken => Handled + 1 \in DOMAIN chain /\ Head(segment) = chain[Handled + 1]
           /\ Timely(Handled + 1) =>
                  Head(segment).kind = "posted" /\ Head(segment).epoch = chain[Handled + 1].epoch
           /\ Tail(segment) \in Seq(WatchEvents) /\ Len(Tail(segment)) = Len(segment) - 1
           /\ \A n \in 1..Len(Tail(segment)) :
                  /\ ~shaken => Tail(segment)[n] = chain[Handled + 1 + n]
                  /\ Timely(Handled + 1 + n) => /\ Tail(segment)[n].kind = "posted"
                                                /\ Tail(segment)[n].epoch = chain[Handled + 1 + n].epoch
           /\ Handled + 1 = upTo - Len(Tail(segment)) /\ Ticking
<1>1. segment \in Seq(WatchEvents) /\ upTo \in Nat
  BY DEF WatchInv, WatchTypes
<1> DEFINE m == Len(segment)
           rest == Tail(segment)
<1>2. m \in Nat /\ m > 0 /\ rest \in Seq(WatchEvents) /\ Len(rest) = m - 1 /\ Head(segment) = segment[1]
      /\ \A n \in 1..m - 1 : rest[n] = segment[n + 1]
  BY <1>1
<1>3. Head(segment) \in WatchEvents
  BY <1>1
<1> HIDE DEF m, rest
<1>4. /\ Handled \in Nat /\ upTo = Handled + m /\ DOMAIN chain = 1..Len(chain) /\ Len(chain) \in Nat
      /\ ~shaken => upTo <= Len(chain)
  BY HandledIsPast DEF m, WatchInv, TickInv
<1>5. \A n \in 1..m :
          /\ ~shaken => segment[n] = chain[Handled + n]
          /\ Timely(Handled + n) => segment[n].kind = "posted" /\ segment[n].epoch = chain[Handled + n].epoch
  BY DEF WatchInv, TickInv, m
<1>6. /\ ~shaken => Handled + 1 \in DOMAIN chain /\ Head(segment) = chain[Handled + 1]
      /\ Timely(Handled + 1) =>
            Head(segment).kind = "posted" /\ Head(segment).epoch = chain[Handled + 1].epoch
  BY <1>2, <1>4, <1>5
<1>7. ASSUME NEW n \in 1..m - 1
      PROVE  /\ ~shaken => rest[n] = chain[Handled + 1 + n]
             /\ Timely(Handled + 1 + n) =>
                    rest[n].kind = "posted" /\ rest[n].epoch = chain[Handled + 1 + n].epoch
  <2>1. n + 1 \in 1..m /\ Handled + (n + 1) = Handled + 1 + n
    BY <1>2, <1>4
  <2>2. rest[n] = segment[n + 1]
    BY <1>2
  <2> QED BY <1>5, <2>1, <2>2
<1>8. Handled + 1 = upTo - (m - 1)
  BY <1>2, <1>4
<1>9. Ticking
  BY DEF WatchInv, TickInv
<1>10. Head(segment).epoch \in Watched
  BY <1>3 DEF WatchEvents
<1> QED BY <1>2, <1>3, <1>6, <1>7, <1>8, <1>9, <1>10 DEF m, rest

\* One more event is handled: what is in front of it is what the chain has behind it.
LEMMA EventTaken ==
    ASSUME WatchInv, segment # << >>, segment' = Tail(segment), Ticking',
           UNCHANGED <<chain, cursor, upTo, rescans, late, shaken>>
    PROVE  /\ ChainInv' /\ TickInv' /\ Handled' = Handled + 1 /\ Handled \in Nat
           /\ segment' \in Seq(WatchEvents)
<1> DEFINE rest == Tail(segment)
<1>1. /\ Handled + 1 = upTo - Len(rest) /\ rest \in Seq(WatchEvents)
      /\ \A n \in 1..Len(rest) :
             /\ ~shaken => rest[n] = chain[Handled + 1 + n]
             /\ Timely(Handled + 1 + n) =>
                    rest[n].kind = "posted" /\ rest[n].epoch = chain[Handled + 1 + n].epoch
  BY NextEvent
<1>2. Handled \in Nat /\ cursor <= Handled /\ (~shaken => upTo <= Len(chain)) /\ cursor \in Nat
  BY HandledIsPast DEF WatchInv, TickInv
<1> HIDE DEF rest
<1>3. segment' = rest
  BY DEF rest
<1>4. Handled' = Handled + 1
  BY <1>1, <1>3 DEF Handled
<1>5. TickInv'
  <2>1. cursor <= Handled + 1
    BY <1>2
  <2>2. \A n \in 1..Len(rest) : Timely(Handled + n)' => Timely(Handled + 1 + n)
    BY <1>4 DEF Timely
  <2> QED BY <1>1, <1>2, <1>3, <1>4, <2>1, <2>2 DEF TickInv
<1>6. ChainInv'
  BY ChainStays
<1> QED BY <1>1, <1>2, <1>3, <1>4, <1>5, <1>6

LEMMA ResolutionKeeps == ASSUME WatchInv, HandleResolution PROVE WatchInv'
<1> DEFINE ev == Head(segment)
<1>1. /\ at = "scan" /\ segment # << >> /\ ev.kind # "posted" /\ carry' = CarryAfter(ev) /\ segment' = Tail(segment)
      /\ UNCHANGED <<chain, cursor, finding, failedTrips, at, upTo, subject, back, mined, todo>>
      /\ UNCHANGED <<braked, missed, pardoned, late, rescans, shaken>>
  BY DEF HandleResolution, historyVars
<1>2. Ticking'
  BY <1>1 DEF Ticking
<1>3. ChainInv' /\ TickInv' /\ Handled' = Handled + 1 /\ Handled \in Nat /\ segment' \in Seq(WatchEvents)
  BY <1>1, <1>2, EventTaken
<1>4. /\ ~shaken => Handled + 1 \in DOMAIN chain /\ ev = chain[Handled + 1]
      /\ ~Timely(Handled + 1) /\ ev \in WatchEvents
  BY <1>1, NextEvent
<1> HIDE DEF ev
<1>5. CarryInv'
  <2>1. CASE rescans \/ shaken
    BY <1>1, <2>1 DEF CarryInv
  <2>2. CASE ~shaken /\ carry = RestAt(chain, Handled)
    <3>1. ev.kind \in {"rejected", "finalized", "none"}
      BY <1>1, <1>4 DEF WatchEvents, WatchKinds
    <3>2. CarryAfter(ev) = RestAt(chain, Handled + 1)
      BY <1>3, <1>4, <2>2, <3>1, RestGrows DEF CarryAfter, WatchInv
    <3> QED BY <1>1, <1>3, <3>2 DEF CarryInv
  <2> QED BY <2>1, <2>2 DEF WatchInv, CarryInv
<1>6. WatchTypes'
  <2>1. carry' \subseteq Nat
    BY <1>1, <1>4 DEF CarryAfter, WatchInv, WatchTypes, WatchEvents, Watched
  <2> QED BY <1>1, <1>3, <2>1 DEF WatchInv, WatchTypes
<1>7. \A i \in 1..Handled + 1 : i \in 1..Handled \/ i = Handled + 1
  BY <1>3
<1>8. 1..Handled \subseteq 1..Handled + 1
  BY <1>3
<1>9. \A i : (Timely(i)' <=> Timely(i)) /\ (ForgedAt(i)' <=> ForgedAt(i))
  BY <1>1 DEF Timely, ForgedAt
<1>10. ForgeriesAreFound'
  BY <1>1, <1>3, <1>4, <1>7, <1>9 DEF WatchInv, FindingInv, ForgeriesAreFound
<1>11. FindingsAreOfForgeries'
  BY <1>1, <1>3, <1>8, <1>9 DEF WatchInv, FindingInv, FindingsAreOfForgeries
<1>12. FindingInv'
  BY <1>1, <1>10, <1>11 DEF WatchInv, FindingInv, TrippedIsAccountedFor
<1> QED BY <1>3, <1>5, <1>6, <1>12 DEF WatchInv

\* As long as nothing was read twice or replaced, only a forged anchor disagrees with the carry table; and
\* a forged one that is where it was read disagrees always.
LEMMA DisagreesForAReason ==
    ASSUME WatchInv, segment # << >>, Head(segment).kind = "posted"
    PROVE  /\ ~rescans /\ ~shaken /\ Disagrees(Head(segment).epoch) =>
                  ForgedAt(Handled + 1) /\ chain[Handled + 1].epoch = Head(segment).epoch
           /\ Timely(Handled + 1) /\ ForgedAt(Handled + 1) =>
                  /\ Head(segment).epoch = chain[Handled + 1].epoch
                  /\ Disagrees(Head(segment).epoch) /\ Head(segment).epoch \in Of({"posted"})
           /\ ~rescans /\ ~shaken => carry = RestAt(chain, Handled + 1)
<1> DEFINE i == Handled + 1
           e == Head(segment).epoch
<1>1. Handled \in Nat /\ e \in Watched /\ i - 1 = Handled
  BY NextEvent, HandledIsPast
<1>2. ASSUME i \in DOMAIN chain, chain[i].kind = "posted", chain[i].epoch = e
      PROVE  /\ PostedAt(e) = i /\ chain[i].reports = RestAt(chain, Handled)
             /\ RestAt(chain, i) = RestAt(chain, Handled) /\ \A c \in RestAt(chain, Handled) : c < e
             /\ e \in Of({"posted"})
  <2>1. PostedAt(e) = i
    BY <1>2, PostedOnce DEF WatchInv
  <2>2. chain[i].reports = RestAt(chain, i - 1)
    BY <1>2 DEF WatchInv, ChainInv
  <2>3. RestAt(chain, i) = RestAt(chain, Handled) /\ \A c \in RestAt(chain, Handled) : c < chain[i].epoch
    BY <1>1, <1>2, RestGrows DEF WatchInv
  <2>4. e \in Of({"posted"})
    BY <1>2 DEF Of
  <2> QED BY <1>1, <1>2, <2>1, <2>2, <2>3, <2>4
<1>3. \A p \in {i} : PostedAt(e) = p =>
          (Disagrees(e) <=> chain[p].forged \/ {c \in carry : c < e} # chain[p].reports)
  BY DEF Disagrees
<1>4. /\ ~shaken => i \in DOMAIN chain /\ chain[i].kind = "posted" /\ chain[i].epoch = e
      /\ Timely(i) => i \in DOMAIN chain /\ chain[i].kind = "posted" /\ chain[i].epoch = e
  BY NextEvent DEF Timely
<1> HIDE DEF i, e
<1>5. ASSUME ~rescans, ~shaken PROVE carry = RestAt(chain, i) /\ (Disagrees(e) => ForgedAt(i) /\ chain[i].epoch = e)
  <2>1. carry = RestAt(chain, Handled)
    BY <1>5 DEF WatchInv, CarryInv
  <2>2. {c \in carry : c < e} = carry
    BY <1>2, <1>4, <1>5, <2>1
  <2> QED BY <1>2, <1>3, <1>4, <1>5, <2>1, <2>2 DEF ForgedAt
<1>6. ASSUME Timely(i), ForgedAt(i) PROVE e = chain[i].epoch /\ Disagrees(e) /\ e \in Of({"posted"})
  BY <1>2, <1>3, <1>4, <1>6 DEF ForgedAt
<1> QED BY <1>5, <1>6 DEF i, e

LEMMA PostedKeeps == ASSUME WatchInv, HandlePosted PROVE WatchInv'
<1> DEFINE ev == Head(segment)
           e == ev.epoch
<1>1. /\ at = "scan" /\ segment # << >> /\ ev.kind = "posted" /\ segment' = Tail(segment) /\ Judge(e, "scan")
      /\ UNCHANGED <<chain, cursor, carry, failedTrips, upTo, mined, todo, braked, pardoned, late, rescans, shaken>>
  BY DEF HandlePosted
<1>2. /\ e \in Watched
      /\ ~rescans /\ ~shaken /\ Disagrees(e) => ForgedAt(Handled + 1) /\ chain[Handled + 1].epoch = e
      /\ Timely(Handled + 1) /\ ForgedAt(Handled + 1) =>
             e = chain[Handled + 1].epoch /\ Disagrees(e) /\ e \in Of({"posted"})
      /\ ~rescans /\ ~shaken => carry = RestAt(chain, Handled + 1)
  BY <1>1, NextEvent, DisagreesForAReason
<1> HIDE DEF ev
<1>3. \/ /\ Disagrees(e) /\ finding' = [finding EXCEPT ![e] = "pending_confirm"]
         /\ at' = "confirm" /\ subject' = e /\ back' = "scan" /\ missed' = missed
      \/ /\ UNCHANGED <<finding, at, subject, back>> /\ missed \subseteq missed'
         /\ Disagrees(e) /\ e \in Of({"posted"}) => e \in missed'
  BY <1>1 DEF Judge, Skipped, Agrees
<1>4. Ticking'
  BY <1>1, <1>3 DEF Ticking
<1>5. ChainInv' /\ TickInv' /\ Handled' = Handled + 1 /\ Handled \in Nat /\ segment' \in Seq(WatchEvents)
  BY <1>1, <1>4, EventTaken
<1>6. CarryInv'
  BY <1>1, <1>2, <1>5 DEF WatchInv, CarryInv
<1>7. finding \in [Watched -> Findings]
  BY DEF WatchInv, WatchTypes
<1>8. \A i \in 1..Handled + 1 : i \in 1..Handled \/ i = Handled + 1
  BY <1>5
<1>9. 1..Handled \subseteq 1..Handled + 1 /\ Handled + 1 \in 1..Handled + 1
  BY <1>5
<1>10. \A i : (Timely(i)' <=> Timely(i)) /\ (ForgedAt(i)' <=> ForgedAt(i))
  BY <1>1 DEF Timely, ForgedAt
<1>11. CASE UNCHANGED <<finding, at, subject, back>> /\ missed \subseteq missed'
            /\ (Disagrees(e) /\ e \in Of({"posted"}) => e \in missed')
  <2>1. WatchTypes'
    BY <1>1, <1>5, <1>11 DEF WatchInv, WatchTypes
  <2>2. ForgeriesAreFound'
    BY <1>1, <1>2, <1>5, <1>8, <1>10, <1>11 DEF WatchInv, FindingInv, ForgeriesAreFound
  <2>3. FindingsAreOfForgeries'
    BY <1>1, <1>5, <1>9, <1>10, <1>11 DEF WatchInv, FindingInv, FindingsAreOfForgeries
  <2>4. FindingInv'
    BY <1>1, <1>11, <2>2, <2>3 DEF WatchInv, FindingInv, TrippedIsAccountedFor
  <2> QED BY <1>5, <1>6, <2>1, <2>4 DEF WatchInv
<1>12. CASE /\ Disagrees(e) /\ finding' = [finding EXCEPT ![e] = "pending_confirm"]
            /\ at' = "confirm" /\ subject' = e /\ back' = "scan" /\ missed' = missed
  <2>1. /\ finding' \in [Watched -> Findings] /\ finding'[e] = "pending_confirm"
        /\ \A f \in Watched : f # e => finding'[f] = finding[f]
    BY <1>2, <1>7, <1>12 DEF Findings, OpenFindings
  <2>2. WatchTypes'
    BY <1>1, <1>5, <1>12, <2>1 DEF WatchInv, WatchTypes
  <2>3. \A f \in Watched : finding[f] \in OpenFindings => finding'[f] \in OpenFindings
    BY <2>1 DEF OpenFindings
  <2>4. ForgeriesAreFound'
    <3>1. ASSUME NEW i \in 1..Handled + 1, Timely(i), ForgedAt(i)
          PROVE  finding'[chain[i].epoch] \in OpenFindings \/ chain[i].epoch \in missed \cup pardoned
      <4>1. chain[i].epoch \in Watched
        BY <3>1, HandledIsPast DEF Timely
      <4>2. CASE i \in 1..Handled
        BY <2>3, <3>1, <4>1, <4>2 DEF WatchInv, FindingInv, ForgeriesAreFound
      <4>3. CASE i = Handled + 1
        BY <1>2, <2>1, <3>1, <4>3 DEF OpenFindings
      <4> QED BY <1>8, <4>2, <4>3
    <3> QED BY <1>1, <1>5, <1>10, <1>12, <3>1 DEF ForgeriesAreFound
  <2>5. FindingsAreOfForgeries'
    <3>1. ASSUME ~rescans, ~shaken, NEW f \in Watched, finding'[f] # "none"
          PROVE  \E i \in 1..Handled + 1 : ForgedAt(i) /\ chain[i].epoch = f
      <4>1. CASE f = e
        BY <1>2, <1>9, <1>12, <3>1, <4>1
      <4>2. CASE f # e
        <5>1. finding[f] # "none"
          BY <2>1, <3>1, <4>2
        <5>2. PICK i \in 1..Handled : ForgedAt(i) /\ chain[i].epoch = f
          BY <3>1, <5>1 DEF WatchInv, FindingInv, FindingsAreOfForgeries
        <5> QED BY <1>9, <5>2
      <4> QED BY <4>1, <4>2
    <3> QED BY <1>1, <1>5, <1>10, <3>1 DEF FindingsAreOfForgeries
  <2>6. TrippedIsAccountedFor'
    BY <1>1, <2>1 DEF WatchInv, FindingInv, TrippedIsAccountedFor
  <2>7. \A f \in todo : finding'[f] # "none"
    BY <2>1 DEF WatchInv, FindingInv, WatchTypes
  <2>8. FindingInv'
    BY <1>1, <1>2, <1>12, <2>1, <2>4, <2>5, <2>6, <2>7 DEF FindingInv
  <2> QED BY <1>5, <1>6, <2>2, <2>8 DEF WatchInv
<1> QED BY <1>3, <1>11, <1>12

LEMMA EndTickKeeps == ASSUME WatchInv, EndTick PROVE WatchInv'
<1>1. /\ at = "scan" /\ segment = << >> /\ cursor' = upTo /\ at' = "idle" /\ upTo \in Nat
      /\ UNCHANGED <<chain, carry, finding, failedTrips, segment, upTo, subject, back, mined, todo>>
      /\ UNCHANGED <<braked, missed, pardoned, late, rescans, shaken>>
  BY DEF EndTick, historyVars, WatchInv, WatchTypes
<1>2. Len(segment) = 0
  BY <1>1
<1>3. Handled' = Handled /\ Handled = upTo /\ Handled' \in 0..Handled
  BY <1>1, <1>2 DEF Handled
<1>4. ChainInv' /\ ReadBlocksStay
  BY <1>1, ChainStays
<1>5. TickInv'
  <2>1. ~shaken => upTo <= Len(chain)
    BY DEF WatchInv, TickInv
  <2>2. 1..Len(segment') = {} /\ upTo <= Handled'
    BY <1>1, <1>2, <1>3
  <2> QED BY <1>1, <2>1, <2>2 DEF TickInv
<1>6. CarryInv'
  BY <1>1, <1>3 DEF WatchInv, CarryInv
<1>7. WatchTypes'
  BY <1>1 DEF WatchInv, WatchTypes
<1>8. (ForgeriesAreFound /\ FindingsAreOfForgeries /\ TrippedIsAccountedFor)'
  BY <1>1, <1>3, <1>4, <1>7, FindingsStand DEF WatchTypes
<1>9. FindingInv'
  BY <1>1, <1>8 DEF WatchInv, FindingInv
<1> QED BY <1>4, <1>5, <1>6, <1>7, <1>9 DEF WatchInv

\* A tick that is cut off leaves the cursor where it was; if it had handled anything, that is remembered.
LEMMA CutOff ==
    ASSUME WatchInv, UNCHANGED <<chain, cursor, carry, late, shaken>>,
           rescans' = (rescans \/ SomeWereHandled), segment' = << >>, upTo' = cursor, ~Ticking'
    PROVE  /\ ChainInv' /\ TickInv' /\ CarryInv' /\ ReadBlocksStay
           /\ Handled' \in 0..Handled /\ (rescans' \/ shaken' \/ Handled' = Handled)
           /\ rescans' \in BOOLEAN /\ segment' \in Seq(WatchEvents) /\ (rescans => rescans') /\ cursor \in Nat
<1>1. ChainInv' /\ ReadBlocksStay
  BY ChainStays
<1>2. /\ cursor \in Nat /\ cursor <= Handled /\ Handled \in Nat /\ upTo = Handled + Len(segment)
      /\ Len(segment) \in Nat /\ Len(chain) \in Nat /\ rescans \in BOOLEAN
      /\ ~shaken => upTo <= Len(chain)
  BY HandledIsPast DEF WatchInv, TickInv, WatchTypes
<1>3. Len(segment') = 0
  OBVIOUS
<1>4. Handled' = cursor
  BY <1>2, <1>3 DEF Handled
<1>5. TickInv'
  <2>1. 1..Len(segment') = {}
    BY <1>3
  <2>2. ~shaken => cursor <= Len(chain)
    BY <1>2
  <2> QED BY <1>2, <1>4, <2>1, <2>2 DEF TickInv
<1>6. rescans' \/ Handled' = Handled
  <2>1. ASSUME ~rescans' PROVE Len(segment) = upTo - cursor
    BY <2>1 DEF SomeWereHandled
  <2> QED BY <1>2, <1>4, <2>1
<1>7. CarryInv'
  BY <1>6 DEF WatchInv, CarryInv
<1>8. segment' \in Seq(WatchEvents)
  OBVIOUS
<1>9. rescans' \in BOOLEAN
  BY <1>2 DEF SomeWereHandled
<1> QED BY <1>1, <1>2, <1>4, <1>5, <1>6, <1>7, <1>8, <1>9

\* A tick is cut off: by a read that fails, by the process that dies.
LEMMA CutKeeps ==
    ASSUME WatchInv, NEW to \in {"idle", "down"}, Cut(to)
    PROVE  WatchInv'
<1>1. /\ rescans' = (rescans \/ SomeWereHandled) /\ at' = to /\ segment' = << >> /\ upTo' = cursor /\ todo' = {}
      /\ UNCHANGED <<chain, cursor, carry, finding, failedTrips, subject, back>>
      /\ UNCHANGED <<braked, missed, pardoned, late, shaken>>
  BY DEF Cut, databaseVars
<1>2. /\ ChainInv' /\ TickInv' /\ CarryInv' /\ ReadBlocksStay
      /\ Handled' \in 0..Handled /\ (rescans' \/ shaken' \/ Handled' = Handled)
      /\ rescans' \in BOOLEAN /\ segment' \in Seq(WatchEvents) /\ (rescans => rescans') /\ cursor \in Nat
  BY <1>1, CutOff DEF Ticking
<1>3. WatchTypes'
  BY <1>1, <1>2 DEF WatchInv, WatchTypes
<1>4. (ForgeriesAreFound /\ FindingsAreOfForgeries /\ TrippedIsAccountedFor)'
  BY <1>1, <1>2, <1>3, FindingsStand DEF WatchTypes
<1>5. FindingInv'
  BY <1>1, <1>4 DEF FindingInv
<1> QED BY <1>2, <1>3, <1>5 DEF WatchInv

\* The trip is recorded, with what came of the pause().
LEMMA TripRecordedKeeps == ASSUME WatchInv, TripRecorded PROVE WatchInv'
<1>1. /\ at = "record" /\ finding' = [finding EXCEPT ![subject] = "tripped"]
      /\ failedTrips' = IF mined THEN failedTrips ELSE failedTrips \cup {subject}
      /\ rescans' = (rescans \/ SomeWereHandled) /\ at' = "down" /\ segment' = << >> /\ upTo' = cursor /\ todo' = {}
      /\ UNCHANGED <<chain, cursor, carry, subject, back, braked, missed, pardoned, late, shaken>>
  BY DEF TripRecorded
<1>2. /\ ChainInv' /\ TickInv' /\ CarryInv' /\ ReadBlocksStay
      /\ Handled' \in 0..Handled /\ (rescans' \/ shaken' \/ Handled' = Handled)
      /\ rescans' \in BOOLEAN /\ segment' \in Seq(WatchEvents) /\ (rescans => rescans') /\ cursor \in Nat
  BY <1>1, CutOff DEF Ticking
<1>3. /\ subject \in Watched /\ (mined => subject \in braked)
      /\ finding[subject] # "none" /\ finding \in [Watched -> Findings]
  BY <1>1 DEF WatchInv, FindingInv, WatchTypes
<1>4. /\ finding' \in [Watched -> Findings] /\ finding'[subject] = "tripped"
      /\ \A e \in Watched : e # subject => finding'[e] = finding[e]
      /\ \A e \in Watched : finding'[e] # "none" <=> finding[e] # "none"
      /\ \A e \in Watched : finding[e] \in OpenFindings => finding'[e] \in OpenFindings
  BY <1>1, <1>3 DEF Findings, OpenFindings
<1>5. WatchTypes'
  BY <1>1, <1>2, <1>4 DEF WatchInv, WatchTypes
<1>6. subject \in braked \cup failedTrips' /\ failedTrips \subseteq failedTrips'
  BY <1>1, <1>3
<1>7. \A e \in Watched : finding'[e] = "tripped" => finding[e] = "tripped" \/ e \in braked' \cup failedTrips'
  BY <1>1, <1>4, <1>6
<1>8. (ForgeriesAreFound /\ FindingsAreOfForgeries /\ TrippedIsAccountedFor)'
  BY <1>1, <1>2, <1>4, <1>6, <1>7, FindingsStand
<1>9. FindingInv'
  BY <1>1, <1>8 DEF FindingInv
<1> QED BY <1>2, <1>5, <1>9 DEF WatchInv

\* A finding is confirmed, or cleared: by a second source, which finds nothing wrong with what the chain
\* shows, or by the operator.
LEMMA FindingStepKeeps ==
    ASSUME WatchInv, Confirmed \/ NotConfirmed \/ \E e \in Watched : OperatorClears(e)
    PROVE  WatchInv'
<1>1. /\ finding \in [Watched -> Findings] /\ todo \subseteq Watched /\ back \in {"scan", "resume"}
      /\ \A e \in todo : finding[e] # "none"
      /\ at = "confirm" => subject \in Watched /\ finding[subject] # "none"
  BY DEF WatchInv, WatchTypes, FindingInv
<1>2. CASE Confirmed
  <2>1. /\ finding' = [finding EXCEPT ![subject] = "pending_trip"] /\ at = "confirm" /\ at' = "trip"
        /\ UNCHANGED <<chain, cursor, carry, failedTrips, segment, upTo, subject, back, mined, todo>>
        /\ UNCHANGED <<braked, missed, pardoned, late, rescans, shaken>>
    BY <1>2 DEF Confirmed, RecordedOnConfirmation, historyVars
  <2>2. /\ finding' \in [Watched -> Findings]
        /\ \A e \in Watched : finding'[e] # "none" <=> finding[e] # "none"
        /\ \A e \in Watched : finding[e] \in OpenFindings => finding'[e] \in OpenFindings
        /\ \A e \in Watched : finding'[e] = "tripped" => finding[e] = "tripped"
    BY <1>1, <2>1 DEF Findings, OpenFindings
  <2>3. ChainInv' /\ ReadBlocksStay
    BY <2>1, ChainStays
  <2> QED BY <1>1, <2>1, <2>2, <2>3, NothingHandled DEF Ticking
<1>3. CASE NotConfirmed
  <2>1. /\ finding' = [finding EXCEPT ![subject] = "cleared"] /\ at = "confirm" /\ at' = back
        /\ Skipped(subject) \/ Agrees(subject)
        /\ UNCHANGED <<chain, cursor, carry, failedTrips, segment, upTo, subject, back, mined, todo>>
        /\ UNCHANGED <<braked, pardoned, late, rescans, shaken>>
    BY <1>3 DEF NotConfirmed
  <2>2. /\ finding' \in [Watched -> Findings]
        /\ \A e \in Watched : finding'[e] # "none" <=> finding[e] # "none"
        /\ \A e \in Watched : e # subject => finding'[e] = finding[e]
        /\ \A e \in Watched : finding'[e] = "tripped" => finding[e] = "tripped"
    BY <1>1, <2>1 DEF Findings, OpenFindings
  <2>3. ChainInv' /\ ReadBlocksStay
    BY <2>1, ChainStays
  <2>4. missed \subseteq missed'
    BY <2>1 DEF Skipped, Agrees
  <2>5. \/ subject \in missed'
        \/ \A i \in 1..Handled : ~(Timely(i)' /\ ForgedAt(i)' /\ chain'[i].epoch = subject)
    <3>1. ASSUME NEW i \in 1..Handled, Timely(i)', ForgedAt(i)', chain'[i].epoch = subject
          PROVE  subject \in missed'
      <4>1. i \in DOMAIN chain /\ chain[i].kind = "posted" /\ chain[i].forged /\ chain[i].epoch = subject
        BY <2>1, <3>1 DEF Timely, ForgedAt
      <4>2. PostedAt(subject) = i
        BY <4>1, PostedOnce DEF WatchInv
      <4>3. subject \in Of({"posted"}) /\ Disagrees(subject)
        BY <4>1, <4>2 DEF Of, Disagrees
      <4> QED BY <2>1, <4>3 DEF Skipped, Agrees
    <3> QED BY <3>1
  <2>6. \A e \in Watched : finding[e] \in OpenFindings =>
            \/ finding'[e] \in OpenFindings \/ e \in missed' \cup pardoned'
            \/ \A i \in 1..Handled : ~(Timely(i)' /\ ForgedAt(i)' /\ chain'[i].epoch = e)
    BY <2>2, <2>5
  <2> QED BY <1>1, <2>1, <2>2, <2>3, <2>4, <2>6, NothingHandled DEF Ticking
<1>4. ASSUME NEW e \in Watched, OperatorClears(e) PROVE WatchInv'
  <2>1. /\ finding' = [finding EXCEPT ![e] = "cleared"] /\ at = "down" /\ finding[e] = "tripped"
        /\ pardoned' = pardoned \cup {e}
        /\ UNCHANGED <<chain, cursor, carry, failedTrips, at, segment, upTo, subject, back, mined, todo>>
        /\ UNCHANGED <<braked, missed, late, rescans, shaken>>
    BY <1>4 DEF OperatorClears, processVars
  <2>2. /\ finding' \in [Watched -> Findings]
        /\ \A f \in Watched : finding'[f] # "none" <=> finding[f] # "none"
        /\ \A f \in Watched : finding[f] \in OpenFindings => finding'[f] \in OpenFindings \/ f \in pardoned'
        /\ \A f \in Watched : finding'[f] = "tripped" => finding[f] = "tripped"
    BY <1>1, <2>1 DEF Findings, OpenFindings
  <2>3. ChainInv' /\ ReadBlocksStay
    BY <2>1, ChainStays
  <2> QED BY <1>1, <2>1, <2>2, <2>3, NothingHandled DEF Ticking
<1> QED BY <1>2, <1>3, <1>4

\* The veto goes out or not, the brake is pulled or not.
LEMMA TripSendsKeeps ==
    ASSUME WatchInv, NEW vetoed \in BOOLEAN, NEW shown \in BOOLEAN, TripSends(vetoed, shown)
    PROVE  WatchInv'
<1>1. /\ at = "trip" /\ at' = "record" /\ mined' = shown
      /\ braked' = IF shown THEN braked \cup {subject} ELSE braked
      /\ vetoed => subject \in OpenAnchors
      /\ chain' = IF vetoed THEN Append(chain, Event("rejected", subject, FALSE, {})) ELSE chain
      /\ UNCHANGED <<cursor, carry, finding, failedTrips, segment, upTo, subject, back, todo>>
      /\ UNCHANGED <<missed, pardoned, late, rescans, shaken>>
  BY DEF TripSends, databaseVars
<1>2. Ticking => Ticking'
  BY <1>1 DEF Ticking
<1>3. /\ subject \in Watched /\ finding[subject] # "none" /\ finding \in [Watched -> Findings]
      /\ todo \subseteq Watched /\ \A e \in todo : finding[e] # "none"
      /\ back \in {"scan", "resume"}
  BY <1>1 DEF WatchInv, FindingInv, WatchTypes
<1>4. ChainInv' /\ ReadBlocksStay
  <2>1. CASE vetoed
    <3> DEFINE ev == Event("rejected", subject, FALSE, {})
    <3>1. ev \in WatchEvents /\ ev.kind = "rejected" /\ ev.epoch = subject
      BY <1>3 DEF Event, WatchEvents, WatchKinds
    <3>2. Grows(ev)
      BY <1>1, <2>1, <3>1 DEF Grows
    <3> HIDE DEF ev
    <3> QED BY <1>1, <3>1, <3>2, GrowthKeeps
  <2>2. CASE ~vetoed
    BY <1>1, <2>2, ChainStays
  <2> QED BY <2>1, <2>2
<1>5. braked \subseteq braked' /\ (mined' => subject' \in braked')
  BY <1>1
<1> QED BY <1>1, <1>2, <1>3, <1>4, <1>5, NothingHandled

\* Restarting, and what a confirmation that failed comes to.
LEMMA GoingOnKeeps ==
    ASSUME WatchInv, Restart \/ ResumeEnds \/ ConfirmationFails \/ ResumePendingTrip \/ ResumePendingConfirm
    PROVE  WatchInv'
<1>1. /\ finding \in [Watched -> Findings] /\ todo \subseteq Watched /\ back \in {"scan", "resume"}
      /\ \A e \in todo : finding[e] # "none"
      /\ at = "confirm" => subject \in Watched /\ finding[subject] # "none"
  BY DEF WatchInv, WatchTypes, FindingInv
<1>2. ASSUME UNCHANGED <<chain, cursor, carry, finding, failedTrips, segment, upTo>>,
             UNCHANGED <<braked, pardoned, late, rescans, shaken>>, missed \subseteq missed',
             Ticking => Ticking', at' \in {"resume", "idle", "scan", "trip", "confirm"}, back' \in {"scan", "resume"},
             at' \in {"trip", "confirm"} => subject' \in Watched /\ finding[subject'] # "none",
             todo' \subseteq Watched, \A e \in todo' : finding[e] # "none"
      PROVE  WatchInv'
  <2>1. ChainInv' /\ ReadBlocksStay
    BY <1>2, ChainStays
  <2> QED BY <1>1, <1>2, <2>1, NothingHandled
<1>3. CASE Restart
  <2>1. /\ at = "down" /\ at' = "resume" /\ todo' = Unfinished /\ back' = back
        /\ UNCHANGED <<chain, cursor, carry, finding, failedTrips, segment, upTo>>
        /\ UNCHANGED <<braked, missed, pardoned, late, rescans, shaken>>
    BY <1>3 DEF Restart, databaseVars, historyVars
  <2>2. Unfinished \subseteq Watched /\ \A e \in Unfinished : finding[e] # "none"
    BY DEF Unfinished
  <2> QED BY <1>1, <1>2, <2>1, <2>2 DEF Ticking
<1>4. CASE ResumeEnds
  <2>1. /\ at = "resume" /\ at' = "idle"
        /\ UNCHANGED <<chain, cursor, carry, finding, failedTrips, segment, upTo, back, todo>>
        /\ UNCHANGED <<braked, missed, pardoned, late, rescans, shaken>>
    BY <1>4 DEF ResumeEnds, databaseVars, historyVars
  <2> QED BY <1>1, <1>2, <2>1 DEF Ticking
<1>5. CASE ConfirmationFails
  <2>1. /\ at = "confirm" /\ at' = back
        /\ UNCHANGED <<chain, cursor, carry, finding, failedTrips, segment, upTo, back, todo>>
        /\ UNCHANGED <<braked, missed, pardoned, late, rescans, shaken>>
    BY <1>5 DEF ConfirmationFails, databaseVars
  <2> QED BY <1>1, <1>2, <2>1 DEF Ticking
<1>6. ASSUME todo # {} PROVE Min(todo) \in todo
  <2>1. todo \in SUBSET Nat
    BY <1>1 DEF Watched
  <2>2. \E x \in todo : \A y \in todo : x <= y
    BY <1>6, <2>1, LeastMember
  <2> QED BY <2>2 DEF Min
<1>7. CASE ResumePendingTrip
  <2>1. /\ at = "resume" /\ at' = "trip" /\ todo # {} /\ subject' = Min(todo) /\ back' = "resume"
        /\ todo' = todo \ {Min(todo)}
        /\ UNCHANGED <<chain, cursor, carry, finding, failedTrips, segment, upTo>>
        /\ UNCHANGED <<braked, missed, pardoned, late, rescans, shaken>>
    BY <1>7 DEF ResumePendingTrip, databaseVars, historyVars
  <2> QED BY <1>1, <1>2, <1>6, <2>1 DEF Ticking
<1>8. CASE ResumePendingConfirm
  <2> DEFINE e == Min(todo)
  <2>1. /\ at = "resume" /\ e \in todo /\ finding[e] = "pending_confirm" /\ todo' = todo \ {e} /\ Judge(e, "resume")
        /\ UNCHANGED <<chain, cursor, carry, failedTrips, segment, upTo>>
        /\ UNCHANGED <<braked, pardoned, late, rescans, shaken>>
    BY <1>6, <1>8 DEF ResumePendingConfirm
  <2> HIDE DEF e
  <2>2. e \in Watched
    BY <1>1, <2>1
  <2>3. finding' = finding
    BY <1>1, <2>1, <2>2 DEF Judge
  <2>4. missed \subseteq missed'
    BY <2>1 DEF Judge, Skipped, Agrees
  <2>5. \/ at' = "confirm" /\ subject' = e /\ back' = "resume"
        \/ UNCHANGED <<at, subject, back>>
    BY <2>1 DEF Judge
  <2> QED BY <1>1, <1>2, <2>1, <2>2, <2>3, <2>4, <2>5 DEF Ticking
<1> QED BY <1>3, <1>4, <1>5, <1>7, <1>8

LEMMA WatchMovesKeep == ASSUME WatchInv, [WatchNext]_watchVars PROVE WatchInv'
<1>1. CASE WatchStep
  BY <1>1, StartTickKeeps, ResolutionKeeps, PostedKeeps, EndTickKeeps, FindingStepKeeps, TripSendsKeeps,
     TripRecordedKeeps, GoingOnKeeps DEF WatchStep
<1>2. CASE (\E forged \in BOOLEAN : AnchorPosted(forged))
           \/ (\E kind \in {"rejected", "finalized"} : AnchorResolved(kind))
           \/ \E n \in 1..MaxReorg : Reorganised(n)
  BY <1>2, OutsideKeeps
<1>3. CASE ReadFails \/ Crash
  BY <1>3, CutKeeps DEF ReadFails, Crash
<1>4. CASE \E e \in Watched : OperatorClears(e)
  BY <1>4, FindingStepKeeps
<1>5. CASE UNCHANGED watchVars
  <2>1. /\ UNCHANGED <<chain, cursor, carry, finding, failedTrips, at, segment, upTo, subject, back, mined, todo>>
        /\ UNCHANGED <<braked, missed, pardoned, late, rescans, shaken>>
    BY <1>5 DEF watchVars, databaseVars, processVars, historyVars
  <2>2. ChainInv' /\ ReadBlocksStay
    BY <2>1, ChainStays
  <2> QED BY <2>1, <2>2, NothingHandled DEF WatchInv, WatchTypes, FindingInv, Ticking
<1> QED BY <1>1, <1>2, <1>3, <1>4, <1>5 DEF WatchNext

LEMMA WatchInvSuffices == ASSUME WatchInv PROVE FindingsAreTrue
<1>1. ASSUME NEW e \in Forged, PostedAt(e) <= cursor, e \notin late
      PROVE  finding[e] \in OpenFindings \/ e \in missed \cup pardoned
  <2>1. PICK i \in DOMAIN chain : chain[i].kind = "posted" /\ chain[i].epoch = e /\ chain[i].forged
    BY ForgedIsPosted DEF WatchInv, ForgedAsPosted
  <2>2. PostedAt(e) = i
    BY <2>1, PostedOnce DEF WatchInv
  <2>3. i \in 1..Handled
    BY <1>1, <2>2, HandledIsPast
  <2>4. Timely(i) /\ ForgedAt(i)
    BY <1>1, <2>1 DEF Timely, ForgedAt
  <2> QED BY <2>1, <2>3, <2>4 DEF WatchInv, FindingInv, ForgeriesAreFound
<1>2. ForgeriesLeaveATrace
  BY <1>1 DEF ForgeriesLeaveATrace, OpenFindings
<1>3. OnlyARescanMisjudges
  <2>1. ASSUME NEW e \in Watched, finding[e] # "none", ~rescans, ~shaken PROVE e \in Forged
    <3>1. PICK i \in 1..Handled : ForgedAt(i) /\ chain[i].epoch = e
      BY <2>1 DEF WatchInv, FindingInv, FindingsAreOfForgeries
    <3>2. i \in DOMAIN chain
      BY <2>1, <3>1, HandledIsPast DEF WatchInv, TickInv
    <3> QED BY <3>1, <3>2, ForgedIsPosted DEF WatchInv, ForgedAsPosted, ForgedAt
  <2> QED BY <2>1 DEF OnlyARescanMisjudges
<1> QED BY <1>2, <1>3 DEF WatchInv, FindingInv, FindingsAreTrue

-----------------------------------------------------------------------------
(* Attester *)

\* Every process keeps its files in a directory of its own.
HomesApart == \A p, q \in Processes : HomeOf[p] = HomeOf[q] => p = q

EpochStages == {"running", "ended", "late", "posted", "waited"}
SaltRecords == [salt : Nat, committedTx : BOOLEAN, revealedTx : BOOLEAN]
AttestTxs == [kind : {"commit", "reveal"}, salt : Nat, status : {"pending", "ok", "reverted"}]
AttesterStates == [at : {"idle", "commit", "send commit", "reveal", "wait"},
                   seen : EpochStages, rec : SaltRecords, tx : Nat]

AttesterTypes ==
    /\ stage \in EpochStages
    /\ commitmentOf \in Nat /\ openedSalt \in Nat /\ strikes \in Nat
    /\ sent \in Seq(AttestTxs)
    /\ file \in [Homes -> SaltRecords]
    /\ attester \in [Processes -> AttesterStates]
    /\ salts \in Nat

\* What a process read is what its file still says, and goes with what it is at.
ReadIsOnDisk(p) == attester[p].at # "idle" => attester[p].rec = file[HomeOf[p]]
AtGoesWithRead(p) ==
    /\ attester[p].at \in {"commit", "send commit"} => ~attester[p].rec.committedTx
    /\ attester[p].at = "send commit" => attester[p].rec.salt # 0
    /\ attester[p].at = "reveal" => attester[p].rec.committedTx
    /\ attester[p].at = "wait" =>
        attester[p].tx \in DOMAIN sent /\ sent[attester[p].tx].salt = attester[p].rec.salt

\* A file that knows of a commitment knows its salt; and so does a transaction that reveals or was taken.
FileIsOfCommitment(h) == file[h].committedTx => commitmentOf # 0 /\ file[h].salt = commitmentOf
SentIsOfCommitment(i) ==
    /\ sent[i].salt # 0
    /\ sent[i].kind = "reveal" \/ sent[i].status = "ok" => commitmentOf # 0 /\ sent[i].salt = commitmentOf

\* As long as no write is torn, the salt of a commitment is in a file: before it is taken, and after.
SaltIsOnDisk(salt) == damaged = {} => \E h \in Homes : file[h].salt = salt

AttesterInv ==
    /\ AttesterTypes
    /\ \A p \in Processes : ReadIsOnDisk(p) /\ AtGoesWithRead(p)
    /\ \A h \in Homes : FileIsOfCommitment(h)
    /\ \A i \in DOMAIN sent : SentIsOfCommitment(i) /\ SaltIsOnDisk(sent[i].salt)
    /\ commitmentOf # 0 => SaltIsOnDisk(commitmentOf)
    /\ strikes = 0

LEMMA AttesterStart == ASSUME AttesterInit PROVE AttesterInv
<1> USE AttesterSizes DEF AttesterInit
<1>1. NoRecord \in SaltRecords /\ AtRest \in AttesterStates
  BY DEF NoRecord, SaltRecords, AtRest, AttesterStates, EpochStages
<1>2. AttesterTypes
  BY <1>1 DEF AttesterTypes, EpochStages
<1>3. \A p \in Processes : ReadIsOnDisk(p) /\ AtGoesWithRead(p)
  BY DEF ReadIsOnDisk, AtGoesWithRead, AtRest
<1>4. \A h \in Homes : FileIsOfCommitment(h)
  BY DEF FileIsOfCommitment, NoRecord
<1>5. DOMAIN sent = {}
  OBVIOUS
<1> QED BY <1>2, <1>3, <1>4, <1>5 DEF AttesterInv

\* A step of one process: what it reads, does and writes is of its own file, and the salts stay.
LEMMA ProcessKeeps ==
    ASSUME AttesterInv, HomesApart, NEW p \in Processes, NEW st \in AttesterStates,
           NEW r \in SaltRecords, Becomes(p, st), salts' \in Nat,
           UNCHANGED chainSide, UNCHANGED sent,
           file' = [file EXCEPT ![HomeOf[p]] = r],
           st.at # "idle" => st.rec = r,
           /\ st.at \in {"commit", "send commit"} => ~st.rec.committedTx
           /\ st.at = "send commit" => st.rec.salt # 0
           /\ st.at = "reveal" => st.rec.committedTx
           /\ st.at = "wait" => st.tx \in DOMAIN sent /\ sent[st.tx].salt = st.rec.salt,
           r.committedTx => commitmentOf # 0 /\ r.salt = commitmentOf,
           damaged' = {} => damaged = {} /\ (file[HomeOf[p]].salt # 0 => r.salt = file[HomeOf[p]].salt)
    PROVE  AttesterInv'
<1>0. HomeOf[p] \in Homes /\ \A q \in Processes : HomeOf[q] \in Homes
  BY AttesterSizes
<1>1. AttesterTypes'
  BY <1>0 DEF AttesterInv, AttesterTypes, Becomes, chainSide
<1>2. ASSUME NEW q \in Processes PROVE ReadIsOnDisk(q)' /\ AtGoesWithRead(q)'
  <2>1. CASE q = p
    <3>1. attester'[q] = st /\ file'[HomeOf[q]] = r
      BY <2>1, <1>0 DEF AttesterInv, AttesterTypes, Becomes
    <3> QED BY <3>1 DEF ReadIsOnDisk, AtGoesWithRead
  <2>2. CASE q # p
    <3>1. attester'[q] = attester[q] /\ file'[HomeOf[q]] = file[HomeOf[q]]
      BY <2>2, <1>0 DEF AttesterInv, AttesterTypes, Becomes, HomesApart
    <3>2. ReadIsOnDisk(q) /\ AtGoesWithRead(q)
      BY DEF AttesterInv
    <3> QED BY <3>1, <3>2 DEF ReadIsOnDisk, AtGoesWithRead
  <2> QED BY <2>1, <2>2
<1>3. ASSUME NEW h \in Homes PROVE FileIsOfCommitment(h)'
  <2>1. FileIsOfCommitment(h) /\ commitmentOf' = commitmentOf
    BY DEF AttesterInv, chainSide
  <2>2. file'[h] = IF h = HomeOf[p] THEN r ELSE file[h]
    BY DEF AttesterInv, AttesterTypes
  <2> QED BY <2>1, <2>2 DEF FileIsOfCommitment
<1>4. ASSUME NEW salt, salt # 0, SaltIsOnDisk(salt) PROVE SaltIsOnDisk(salt)'
  <2> SUFFICES ASSUME damaged' = {} PROVE \E h \in Homes : file'[h].salt = salt
    BY DEF SaltIsOnDisk
  <2>1. PICK h \in Homes : file[h].salt = salt
    BY <1>4 DEF SaltIsOnDisk
  <2>2. file'[h] = IF h = HomeOf[p] THEN r ELSE file[h]
    BY DEF AttesterInv, AttesterTypes
  <2>3. file'[h].salt = salt
    BY <2>1, <2>2, <1>4
  <2> QED BY <2>3
<1>5. ASSUME NEW i \in DOMAIN sent' PROVE SentIsOfCommitment(i)' /\ SaltIsOnDisk(sent[i].salt)'
  <2>1. SentIsOfCommitment(i) /\ SaltIsOnDisk(sent[i].salt) /\ sent' = sent /\ commitmentOf' = commitmentOf
    BY DEF AttesterInv, chainSide
  <2>2. sent[i].salt # 0 /\ SentIsOfCommitment(i)'
    BY <2>1 DEF SentIsOfCommitment
  <2>3. ASSUME NEW salt, salt = sent[i].salt PROVE SaltIsOnDisk(salt)'
    BY <2>1, <2>2, <2>3, <1>4
  <2>4. SaltIsOnDisk(sent[i].salt)'
    BY <2>1, <2>3 DEF SaltIsOnDisk
  <2> QED BY <2>2, <2>4
<1>6. commitmentOf' # 0 => SaltIsOnDisk(commitmentOf)'
  <2>1. commitmentOf' = commitmentOf /\ (commitmentOf # 0 => SaltIsOnDisk(commitmentOf))
    BY DEF AttesterInv, chainSide
  <2>2. ASSUME NEW salt, salt = commitmentOf, salt # 0 PROVE SaltIsOnDisk(salt)'
    BY <2>1, <2>2, <1>4
  <2> QED BY <2>1, <2>2 DEF SaltIsOnDisk
<1>7. strikes' = 0
  BY DEF AttesterInv, chainSide
<1> QED BY <1>1, <1>2, <1>3, <1>5, <1>6, <1>7 DEF AttesterInv

\* A step of a process that leaves the files alone.
LEMMA ProcessMoves ==
    ASSUME AttesterInv, HomesApart, NEW p \in Processes, NEW st \in AttesterStates,
           Becomes(p, st), UNCHANGED <<chainSide, sent, file, salts, damaged>>,
           st.at # "idle" => st.rec = file[HomeOf[p]],
           /\ st.at \in {"commit", "send commit"} => ~st.rec.committedTx
           /\ st.at = "send commit" => st.rec.salt # 0
           /\ st.at = "reveal" => st.rec.committedTx
           /\ st.at = "wait" => st.tx \in DOMAIN sent /\ sent[st.tx].salt = st.rec.salt
    PROVE  AttesterInv'
<1> DEFINE r == file[HomeOf[p]]
<1>1. HomeOf[p] \in Homes
  BY AttesterSizes
<1>2. r \in SaltRecords /\ salts' \in Nat /\ file' = [file EXCEPT ![HomeOf[p]] = r]
  BY <1>1 DEF AttesterInv, AttesterTypes
<1>3. r.committedTx => commitmentOf # 0 /\ r.salt = commitmentOf
  BY <1>1 DEF AttesterInv, FileIsOfCommitment
<1> HIDE DEF r
<1>4. st.at # "idle" => st.rec = r
  BY DEF r
<1>5. damaged' = {} => damaged = {} /\ (file[HomeOf[p]].salt # 0 => r.salt = file[HomeOf[p]].salt)
  BY DEF r
<1> QED BY <1>2, <1>3, <1>4, <1>5, ProcessKeeps

LEMMA RestingFits == AtRest \in AttesterStates /\ AtRest.at = "idle"
BY DEF AtRest, AttesterStates, NoRecord, SaltRecords, EpochStages

LEMMA ObserveKeeps ==
    ASSUME AttesterInv, HomesApart, NEW p \in Processes, NEW synced \in BOOLEAN, Observe(p, synced)
    PROVE  AttesterInv'
<1> DEFINE r == file[HomeOf[p]]
           action == ActionOf(stage, r, synced)
           st == [at |-> action, seen |-> stage, rec |-> r, tx |-> 0]
<1>1. HomeOf[p] \in Homes /\ r \in SaltRecords /\ stage \in EpochStages
  BY AttesterSizes DEF AttesterInv, AttesterTypes
<1>2. /\ action \in {"commit", "reveal"}
      /\ action = "commit" => ~r.committedTx
      /\ action = "reveal" => r.committedTx
  BY DEF Observe, ActionOf
<1>3. Becomes(p, st) /\ UNCHANGED <<chainSide, sent, file, salts, damaged>>
  BY DEF Observe
<1> HIDE DEF r, action
<1>4. st \in AttesterStates /\ st.at = action /\ st.rec = r
  BY <1>1, <1>2 DEF AttesterStates
<1>5. r = file[HomeOf[p]]
  BY DEF r
<1> HIDE DEF st
<1> QED BY <1>2, <1>3, <1>4, <1>5, ProcessMoves

LEMMA WriteKeeps ==
    ASSUME AttesterInv, HomesApart, NEW p \in Processes, WriteRecord(p) PROVE AttesterInv'
<1> DEFINE q == attester[p]
           r == [NoRecord EXCEPT !.salt = SaltFor(q.rec)]
           st == [q EXCEPT !.at = "send commit", !.rec = r]
<1>1. q \in AttesterStates /\ q.at = "commit" /\ q.rec = file[HomeOf[p]] /\ q.rec \in SaltRecords /\ salts \in Nat
  BY DEF WriteRecord, AttesterInv, AttesterTypes, ReadIsOnDisk, AttesterStates
<1>2. SaltFor(q.rec) \in Nat /\ SaltFor(q.rec) # 0 /\ (q.rec.salt # 0 => SaltFor(q.rec) = q.rec.salt)
  BY <1>1 DEF SaltFor, SaltRecords
<1>3. r \in SaltRecords /\ ~r.committedTx /\ r.salt = SaltFor(q.rec)
  BY <1>2 DEF NoRecord, SaltRecords
<1>4. /\ Becomes(p, st) /\ UNCHANGED <<chainSide, sent, damaged>>
      /\ file' = [file EXCEPT ![HomeOf[p]] = r]
      /\ salts' \in Nat
  BY <1>1, <1>2, <1>3 DEF WriteRecord
<1> HIDE DEF r, q
<1>5. st \in AttesterStates /\ st.at = "send commit" /\ st.rec = r
  BY <1>1, <1>3 DEF AttesterStates
<1> HIDE DEF st
<1>6. damaged' = {} => damaged = {} /\ (file[HomeOf[p]].salt # 0 => r.salt = file[HomeOf[p]].salt)
  BY <1>1, <1>2, <1>3, <1>4
<1>7. UNCHANGED chainSide /\ UNCHANGED sent
  BY <1>4
<1> QED BY <1>2, <1>3, <1>4, <1>5, <1>6, <1>7, ProcessKeeps

LEMMA RecordKeeps ==
    ASSUME AttesterInv, HomesApart, NEW p \in Processes, RecordWork(p) PROVE AttesterInv'
<1> DEFINE tx == sent[attester[p].tx]
           old == file[HomeOf[p]]
           done == IF tx.kind = "commit" THEN [old EXCEPT !.committedTx = TRUE]
                                         ELSE [old EXCEPT !.revealedTx = TRUE]
           r == IF old.salt = 0 THEN old ELSE done
<1>1. /\ attester[p].at = "wait" /\ attester[p].tx \in DOMAIN sent
      /\ tx.salt = attester[p].rec.salt /\ attester[p].rec = old
  BY DEF RecordWork, AttesterInv, ReadIsOnDisk, AtGoesWithRead
<1>2. tx.status = "ok"
  BY DEF RecordWork, Worked
<1>3. tx \in AttestTxs /\ commitmentOf # 0 /\ tx.salt = commitmentOf
  BY <1>1, <1>2 DEF AttesterInv, AttesterTypes, SentIsOfCommitment
<1>4. HomeOf[p] \in Homes /\ old \in SaltRecords /\ old.salt = commitmentOf
  BY <1>1, <1>3, AttesterSizes DEF AttesterInv, AttesterTypes
<1>5. old.salt # 0
  BY <1>3, <1>4
<1>6. file' = [file EXCEPT ![HomeOf[p]] = done] /\ Becomes(p, AtRest)
      /\ UNCHANGED <<chainSide, sent, salts, damaged>>
  BY <1>5 DEF RecordWork
<1>7. done \in SaltRecords /\ done.salt = old.salt
  BY <1>4 DEF SaltRecords
<1> HIDE DEF done, old, tx, r
<1>8. done.committedTx => commitmentOf # 0 /\ done.salt = commitmentOf
  BY <1>3, <1>4, <1>7
<1>9. damaged' = {} => damaged = {} /\ (file[HomeOf[p]].salt # 0 => done.salt = file[HomeOf[p]].salt)
  BY <1>6, <1>7 DEF old
<1>10. UNCHANGED chainSide /\ UNCHANGED sent /\ salts' \in Nat
  BY <1>6 DEF AttesterInv, AttesterTypes
<1> QED BY <1>6, <1>7, <1>8, <1>9, <1>10, RestingFits, ProcessKeeps

LEMMA KillKeeps ==
    ASSUME AttesterInv, HomesApart, NEW p \in Processes, NEW torn \in BOOLEAN, Kill(p, torn)
    PROVE  AttesterInv'
<1>1. CASE ~torn
  <2>1. Becomes(p, AtRest) /\ UNCHANGED <<chainSide, sent, file, salts, damaged>>
    BY <1>1 DEF Kill
  <2> QED BY <2>1, RestingFits, ProcessMoves
<1>2. CASE torn
  <2>1. /\ Becomes(p, AtRest) /\ UNCHANGED chainSide /\ UNCHANGED sent /\ salts' = salts
        /\ file' = [file EXCEPT ![HomeOf[p]] = NoRecord]
        /\ damaged' # {}
    BY <1>2 DEF Kill
  <2>2. NoRecord \in SaltRecords /\ ~NoRecord.committedTx /\ salts' \in Nat
    BY <2>1 DEF NoRecord, SaltRecords, AttesterInv, AttesterTypes
  <2> QED BY <2>1, <2>2, RestingFits, ProcessKeeps
<1> QED BY <1>1, <1>2

LEMMA BroadcastKeeps ==
    ASSUME AttesterInv, NEW p \in Processes, Broadcast(p) PROVE AttesterInv'
<1> DEFINE tx == TxOf(p)
           st == [attester[p] EXCEPT !.at = "wait", !.tx = Len(sent) + 1]
<1>1. /\ attester[p] \in AttesterStates /\ attester[p].at \in {"send commit", "reveal"}
      /\ attester[p].rec = file[HomeOf[p]] /\ attester[p].rec \in SaltRecords
      /\ sent \in Seq(AttestTxs) /\ Len(sent) \in Nat
  <2>1. attester[p] \in AttesterStates /\ sent \in Seq(AttestTxs) /\ ReadIsOnDisk(p)
    BY DEF AttesterInv, AttesterTypes
  <2>2. attester[p].at \in {"send commit", "reveal"}
    BY DEF Broadcast, KindOf
  <2>3. attester[p].rec = file[HomeOf[p]] /\ attester[p].rec \in SaltRecords
    BY <2>1, <2>2 DEF ReadIsOnDisk, AttesterStates
  <2>4. Len(sent) \in Nat
    BY <2>1
  <2> QED BY <2>1, <2>2, <2>3, <2>4
<1>2. /\ tx.salt = attester[p].rec.salt /\ tx.status = "pending"
      /\ tx.kind = IF attester[p].at = "reveal" THEN "reveal" ELSE "commit"
  BY <1>1 DEF TxOf, KindOf
<1>3. tx \in AttestTxs
  BY <1>1, <1>2 DEF TxOf, AttestTxs, SaltRecords
<1>4. HomeOf[p] \in Homes /\ FileIsOfCommitment(HomeOf[p]) /\ AtGoesWithRead(p)
  BY AttesterSizes DEF AttesterInv
<1>5. /\ tx.salt # 0 /\ tx.salt = file[HomeOf[p]].salt
      /\ (tx.kind = "reveal" => commitmentOf # 0 /\ tx.salt = commitmentOf)
  <2>1. tx.salt = file[HomeOf[p]].salt
    BY <1>1, <1>2
  <2>2. CASE attester[p].at = "reveal"
    <3>1. file[HomeOf[p]].committedTx
      BY <1>1, <1>4, <2>2 DEF AtGoesWithRead
    <3>2. commitmentOf # 0 /\ file[HomeOf[p]].salt = commitmentOf
      BY <1>4, <3>1 DEF FileIsOfCommitment
    <3> HIDE DEF tx
    <3> QED BY <2>1, <3>2
  <2>3. CASE attester[p].at = "send commit"
    <3>1. attester[p].rec.salt # 0 /\ tx.kind = "commit"
      BY <1>2, <1>4, <2>3 DEF AtGoesWithRead
    <3> HIDE DEF tx
    <3> QED BY <1>2, <2>1, <3>1
  <2> HIDE DEF tx
  <2> QED BY <1>1, <2>2, <2>3
<1>6. /\ sent' = Append(sent, tx) /\ attester' = [attester EXCEPT ![p] = st]
      /\ UNCHANGED <<stage, commitmentOf, openedSalt, strikes, file, salts, kills, damaged>>
  BY DEF Broadcast, Becomes, chainSide
<1>7. st \in AttesterStates /\ st.at = "wait" /\ st.rec = attester[p].rec /\ st.tx = Len(sent) + 1
  <2> DEFINE q == attester[p]
             n == Len(sent) + 1
  <2>0. Len(sent) \in Nat /\ attester[p] \in AttesterStates
    BY <1>1
  <2>1. q \in AttesterStates /\ n \in Nat
    BY ONLY <2>0
  <2> HIDE DEF q, n
  <2>2. /\ [q EXCEPT !.at = "wait", !.tx = n] \in AttesterStates
        /\ [q EXCEPT !.at = "wait", !.tx = n].at = "wait"
        /\ [q EXCEPT !.at = "wait", !.tx = n].rec = q.rec
        /\ [q EXCEPT !.at = "wait", !.tx = n].tx = n
    BY <2>1 DEF AttesterStates
  <2> QED BY <2>2 DEF q, n
<1> HIDE DEF tx, st
<1>8. /\ sent' \in Seq(AttestTxs) /\ DOMAIN sent' = DOMAIN sent \cup {Len(sent) + 1}
      /\ \A i \in DOMAIN sent : sent'[i] = sent[i]
      /\ sent'[Len(sent) + 1] = tx
  <2>1. sent \in Seq(AttestTxs) /\ tx \in AttestTxs /\ sent' = Append(sent, tx)
    BY <1>1, <1>3, <1>6
  <2>2. Len(sent) \in Nat /\ DOMAIN sent = 1..Len(sent)
    BY <2>1
  <2>3. sent' \in Seq(AttestTxs) /\ Len(sent') = Len(sent) + 1 /\ DOMAIN sent' = 1..Len(sent) + 1
    BY <2>1
  <2>4. /\ \A i \in 1..Len(sent) : sent'[i] = sent[i]
        /\ sent'[Len(sent) + 1] = tx
    BY <2>1
  <2>5. 1..Len(sent) + 1 = (1..Len(sent)) \cup {Len(sent) + 1}
    BY ONLY <2>2
  <2> QED BY <2>2, <2>3, <2>4, <2>5
<1>9. AttesterTypes'
  BY <1>6, <1>7, <1>8 DEF AttesterInv, AttesterTypes
<1>10. ASSUME NEW q \in Processes PROVE ReadIsOnDisk(q)' /\ AtGoesWithRead(q)'
  <2>0. ReadIsOnDisk(q) /\ AtGoesWithRead(q) /\ attester \in [Processes -> AttesterStates]
    BY DEF AttesterInv, AttesterTypes
  <2>1. CASE q = p
    <3>1. attester'[q] = st
      BY <2>1, <2>0, <1>6
    <3> QED BY <3>1, <2>1, <1>1, <1>2, <1>6, <1>7, <1>8 DEF ReadIsOnDisk, AtGoesWithRead
  <2>2. CASE q # p
    <3>1. attester'[q] = attester[q]
      BY <2>2, <2>0, <1>6
    <3> QED BY <3>1, <2>0, <1>6, <1>8 DEF ReadIsOnDisk, AtGoesWithRead
  <2> QED BY <2>1, <2>2
<1>11. \A h \in Homes : FileIsOfCommitment(h)'
  BY <1>6 DEF AttesterInv, FileIsOfCommitment
<1>12. ASSUME NEW i \in DOMAIN sent' PROVE SentIsOfCommitment(i)' /\ SaltIsOnDisk(sent[i].salt)'
  <2>1. CASE i \in DOMAIN sent
    BY <2>1, <1>6, <1>8 DEF AttesterInv, SentIsOfCommitment, SaltIsOnDisk
  <2>2. CASE i = Len(sent) + 1
    <3>1. sent'[i] = tx
      BY <2>2, <1>8
    <3>2. SentIsOfCommitment(i)'
      BY <3>1, <1>2, <1>5, <1>6 DEF SentIsOfCommitment
    <3> QED BY <3>1, <3>2, <1>4, <1>5, <1>6 DEF SaltIsOnDisk
  <2> QED BY <2>1, <2>2, <1>8
<1>13. commitmentOf' # 0 => SaltIsOnDisk(commitmentOf)'
  BY <1>6 DEF AttesterInv, SaltIsOnDisk
<1>14. strikes' = 0
  BY <1>6 DEF AttesterInv
<1> QED BY <1>9, <1>10, <1>11, <1>12, <1>13, <1>14 DEF AttesterInv

\* The first commitment that is mined is the only one, and a reveal opens it.
LEMMA MineKeeps ==
    ASSUME AttesterInv, NEW i \in DOMAIN sent, Mine(i) PROVE AttesterInv'
<1> DEFINE tx == sent[i]
           st == IF Accepted(tx) THEN "ok" ELSE "reverted"
<1>1. /\ tx \in AttestTxs /\ tx.status = "pending" /\ tx.salt # 0 /\ SaltIsOnDisk(tx.salt)
      /\ tx.kind = "reveal" => commitmentOf # 0 /\ tx.salt = commitmentOf
      /\ sent \in Seq(AttestTxs)
  BY DEF Mine, AttesterInv, AttesterTypes, SentIsOfCommitment
<1>2. /\ sent' = [sent EXCEPT ![i].status = st]
      /\ UNCHANGED <<stage, file, attester, salts, kills, damaged>>
      /\ commitmentOf' = IF Accepted(tx) /\ tx.kind = "commit" THEN tx.salt ELSE commitmentOf
      /\ openedSalt' = IF Accepted(tx) /\ tx.kind = "reveal" THEN tx.salt ELSE openedSalt
  BY DEF Mine
<1>3. strikes' = 0
  BY <1>1 DEF Mine, AttesterInv
<1>4. /\ commitmentOf # 0 => commitmentOf' = commitmentOf
      /\ st = "ok" => commitmentOf' # 0 /\ tx.salt = commitmentOf'
  BY <1>1, <1>2 DEF Accepted, AttestTxs
<1>5. st \in {"ok", "reverted"}
  OBVIOUS
<1>6. tx \in AttestTxs /\ tx.salt \in Nat
  BY <1>1 DEF AttestTxs
<1>7. commitmentOf' \in Nat /\ openedSalt' \in Nat
  BY <1>2, <1>6 DEF AttesterInv, AttesterTypes
<1>8. commitmentOf' = commitmentOf \/ commitmentOf' = tx.salt
  BY <1>2
<1> HIDE DEF st
<1>9. /\ sent' \in Seq(AttestTxs) /\ DOMAIN sent' = DOMAIN sent
      /\ \A j \in DOMAIN sent : /\ sent'[j].salt = sent[j].salt /\ sent'[j].kind = sent[j].kind
                                /\ j # i => sent'[j] = sent[j]
      /\ sent'[i].status = st
  <2>1. [tx EXCEPT !.status = st] \in AttestTxs
    BY <1>5, <1>6 DEF AttestTxs
  <2>2. sent' = [sent EXCEPT ![i] = [tx EXCEPT !.status = st]]
    BY <1>2
  <2>3. /\ [tx EXCEPT !.status = st].salt = tx.salt /\ [tx EXCEPT !.status = st].kind = tx.kind
        /\ [tx EXCEPT !.status = st].status = st
    BY <1>6 DEF AttestTxs
  <2> DEFINE new == [tx EXCEPT !.status = st]
  <2>4. tx \in AttestTxs /\ sent \in Seq(AttestTxs) /\ i \in DOMAIN sent
    BY <1>1
  <2>5. new \in AttestTxs /\ sent' = [sent EXCEPT ![i] = new]
    BY <2>1, <2>2
  <2>6. new.salt = sent[i].salt /\ new.kind = sent[i].kind /\ new.status = st
    BY <2>3
  <2> HIDE DEF new
  <2>7. sent' \in Seq(AttestTxs) /\ DOMAIN sent' = DOMAIN sent
    BY <2>4, <2>5
  <2>8. \A j \in DOMAIN sent : sent'[j] = IF j = i THEN new ELSE sent[j]
    BY <2>4, <2>5
  <2> HIDE DEF tx
  <2> QED BY <2>4, <2>6, <2>7, <2>8
<1>10. AttesterTypes'
  BY <1>2, <1>3, <1>7, <1>9 DEF AttesterInv, AttesterTypes
<1>11. ASSUME NEW q \in Processes PROVE ReadIsOnDisk(q)' /\ AtGoesWithRead(q)'
  <2>1. ReadIsOnDisk(q) /\ AtGoesWithRead(q)
    BY DEF AttesterInv
  <2> QED BY <2>1, <1>2, <1>9 DEF ReadIsOnDisk, AtGoesWithRead
<1>12. ASSUME NEW h \in Homes PROVE FileIsOfCommitment(h)'
  <2>1. FileIsOfCommitment(h)
    BY DEF AttesterInv
  <2> QED BY <2>1, <1>2, <1>4 DEF FileIsOfCommitment
<1>13. ASSUME NEW j \in DOMAIN sent' PROVE SentIsOfCommitment(j)' /\ SaltIsOnDisk(sent[j].salt)'
  <2>1. SentIsOfCommitment(j) /\ SaltIsOnDisk(sent[j].salt) /\ sent'[j].salt = sent[j].salt
    BY <1>9 DEF AttesterInv
  <2>2. SentIsOfCommitment(j)'
    BY <2>1, <1>4, <1>9 DEF SentIsOfCommitment
  <2> QED BY <2>1, <2>2, <1>2 DEF SaltIsOnDisk
<1>14. commitmentOf' # 0 => SaltIsOnDisk(commitmentOf)'
  <2>1. commitmentOf # 0 => SaltIsOnDisk(commitmentOf)
    BY DEF AttesterInv
  <2> QED BY <2>1, <1>1, <1>2, <1>8 DEF SaltIsOnDisk
<1> QED BY <1>3, <1>10, <1>11, <1>12, <1>13, <1>14 DEF AttesterInv

LEMMA StageKeeps == ASSUME AttesterInv, StageOver PROVE AttesterInv'
<1>1. stage' \in EpochStages
  BY DEF StageOver, NextStage, EpochStages, AttesterInv, AttesterTypes
<1>2. UNCHANGED <<commitmentOf, openedSalt, strikes, sent, file, attester, salts, kills, damaged>>
  BY DEF StageOver
<1> QED BY <1>1, <1>2 DEF AttesterInv, AttesterTypes, ReadIsOnDisk, AtGoesWithRead, FileIsOfCommitment,
      SentIsOfCommitment, SaltIsOnDisk

LEMMA AttesterStep == ASSUME AttesterInv, HomesApart, [AttesterNext]_attesterVars PROVE AttesterInv'
<1>1. CASE UNCHANGED attesterVars
  BY <1>1 DEF attesterVars, chainSide, AttesterInv, AttesterTypes, ReadIsOnDisk, AtGoesWithRead,
      FileIsOfCommitment, SentIsOfCommitment, SaltIsOnDisk
<1>2. ASSUME NEW p \in Processes, NotSent(p) \/ GiveUp(p) PROVE AttesterInv'
  <2>1. Becomes(p, AtRest) /\ UNCHANGED <<chainSide, sent, file, salts, damaged>>
    BY <1>2 DEF NotSent, GiveUp
  <2> QED BY <2>1, RestingFits, ProcessMoves
<1> QED BY <1>1, <1>2, StageKeeps, MineKeeps, ObserveKeeps, WriteKeeps, BroadcastKeeps, RecordKeeps, KillKeeps
      DEF AttesterNext

LEMMA AttesterInvSuffices == ASSUME AttesterInv PROVE CommitmentsCanBeOpened
BY DEF AttesterInv, CommitmentsCanBeOpened, NoStrikeOfOnesOwn, SaltOutlivesTheCommitment, SaltIsOnDisk

-----------------------------------------------------------------------------
(* The parts side by side *)

LEMMA EdgesStart == ASSUME EdgesInit PROVE RouterInit /\ RegistryInit /\ LayerInit /\ WrapInit /\ WatchInit
BY DEF EdgesInit

\* Whatever part moves, every part makes a step of its own or none.
LEMMA RouterMoves == ASSUME [EdgesNext]_edgeVars PROVE [RouterNext]_routerVars
BY DEF EdgesNext, edgeVars

LEMMA RegistryMoves == ASSUME [EdgesNext]_edgeVars PROVE [RegistryNext]_registryVars
BY DEF EdgesNext, edgeVars

LEMMA LayerMoves == ASSUME [EdgesNext]_edgeVars PROVE [LayerNext]_layerVars
BY DEF EdgesNext, edgeVars

LEMMA WrapMoves == ASSUME [EdgesNext]_edgeVars PROVE [WrapNext]_wrapVars
BY DEF EdgesNext, edgeVars

LEMMA WatchMoves == ASSUME [EdgesNext]_edgeVars PROVE [WatchNext]_watchVars
BY DEF EdgesNext, edgeVars

LEMMA AttesterBegins == ASSUME EdgesInit PROVE AttesterInit
BY DEF EdgesInit

LEMMA AttesterMoves == ASSUME [EdgesNext]_edgeVars PROVE [AttesterNext]_attesterVars
BY DEF EdgesNext, edgeVars, mathVars, attesterVars, chainSide

\* The registers agree with themselves: whatever is registered, retired, struck and removed, a node
\* stands in both lists where it remembers it stands; however wallets change, the gate pairs them
\* with agents one to one.
THEOREM RegistersIndexed == EdgesSpec => []RegistersAreIndexed
<1>1. EdgesInit => RegistryInv /\ GateInv
  BY EdgesStart, RegistryStart, GateStart
<1>2. RegistryInv /\ GateInv /\ [EdgesNext]_edgeVars => (RegistryInv /\ GateInv)'
  BY RegistryMoves, LayerMoves, RegistryStep, GateStep
<1>3. RegistryInv /\ GateInv => RegistersAreIndexed
  BY RegistryInvSuffices DEF GateInv, RegistersAreIndexed
<1> QED BY <1>1, <1>2, <1>3, PTL DEF EdgesSpec

\* The money on the layer adds up: no deposit is credited twice, the reserve is what came back and was
\* not delivered, nobody acts for an agent it was not mirrored for, every WBAC is one native BAC and
\* no spender outspends its approval.
THEOREM LayerBooksSound == EdgesSpec => []LayerBooksHold
<1>1. EdgesInit => LayerMoney /\ GateInv /\ WrapInv
  BY EdgesStart, LayerMoneyStart, GateStart, WrapStart
<1>2. LayerMoney /\ GateInv /\ WrapInv /\ [EdgesNext]_edgeVars => (LayerMoney /\ GateInv /\ WrapInv)'
  BY LayerMoves, WrapMoves, LayerMoneyStep, GateStep, WrapStep
<1>3. LayerMoney /\ GateInv /\ WrapInv => LayerBooksHold
  BY WrapInvSuffices DEF LayerMoney, GateInv, LayerBooksHold
<1> QED BY <1>1, <1>2, <1>3, PTL DEF EdgesSpec

\* What the watchdog's findings say is so, whatever is killed, cut off, read twice or replaced, and whichever
\* pause() fails: an honest anchor has none unless part of the chain was read twice or replaced after it had
\* been read; a forged one behind the cursor has one that only the operator cleared, unless a source did not
\* show the anchor or a reorganisation put it into a block that had been read; and a tripped one stopped the
\* bridge, or its row says that the pause() was not seen.
THEOREM FindingsTrue == EdgesSpec => []FindingsAreTrue
<1>1. EdgesInit => WatchInv
  BY EdgesStart, WatchStart
<1>2. WatchInv /\ [EdgesNext]_edgeVars => WatchInv'
  BY WatchMoves, WatchMovesKeep
<1>3. WatchInv => FindingsAreTrue
  BY WatchInvSuffices
<1> QED BY <1>1, <1>2, <1>3, PTL DEF EdgesSpec

\* Where every process keeps its files to itself, nobody is struck for its own reveal, whatever is
\* killed, times out or is tried again on however many machines; and the salt of a commitment is on a
\* disk unless a write was torn, whichever stages the contract takes a commitment in.
THEOREM CommitmentsOpened ==
    ASSUME HomesApart PROVE EdgesSpec => []CommitmentsCanBeOpened
<1>1. EdgesInit => AttesterInv
  BY AttesterBegins, AttesterStart
<1>2. AttesterInv /\ [EdgesNext]_edgeVars => AttesterInv'
  BY HomesApart, AttesterMoves, AttesterStep
<1>3. AttesterInv => CommitmentsCanBeOpened
  BY AttesterInvSuffices
<1> QED BY <1>1, <1>2, <1>3, PTL DEF EdgesSpec

-----------------------------------------------------------------------------
(* Reconcile *)

\* A credit waits longer than the watchdog looks back and a round of reads takes, and a claim longer
\* than a round of reads.
WaitsOutlastReads == SLOW_DEPTH + READ_TIME <= CREDIT_WAIT /\ READ_TIME < CLAIM_WAIT

LayerBooksAtOnce ==
    [bridge : Int, credited : SUBSET BridgeDeposits, forged : Nat, creditable : Nat,
     exited : SUBSET BurntExits, burned : Nat, donated : Nat, users : Int, fees : [FeeTakers -> Nat]]
ReadingWords == {"critical", "warn", "ok", "read", "creditsPendingRelay", "exitsPendingClaim", "burnedFloat",
                 "creditableAndDonations"}
Readings == [by : {"nobody", "watchdog", "indexer"}, at : Nat, balancesRead : BOOLEAN,
             books : LayerBooksAtOnce, verdict : SUBSET ReadingWords]

ReconcileTypes ==
    /\ bscBlock \in Nat
    /\ lockedIn \in [BridgeDeposits -> Int] /\ claimedIn \in [BurntExits -> Int]
    /\ exitedIn \in [BurntExits -> Int]
    /\ layer \in LayerBooksAtOnce
    /\ reading \in Readings

\* The bridge holds what came back, less what it paid for credits it has delivered.
BookedUp(bk) ==
    bk.bridge = Cardinality(bk.exited) + bk.burned + bk.donated + bk.creditable
                       - Cardinality(bk.credited) - bk.forged

\* What waited for what.
DepositFits(d) == lockedIn[d] = NotYet \/ (0 <= lockedIn[d] /\ lockedIn[d] <= bscBlock)
CreditFits(d) == d \in layer.credited => 0 <= lockedIn[d] /\ lockedIn[d] + CREDIT_WAIT <= bscBlock
ExitFits(x) ==
    /\ exitedIn[x] = NotYet \/ (0 <= exitedIn[x] /\ exitedIn[x] <= bscBlock)
    /\ exitedIn[x] # NotYet => x \in layer.exited
    /\ x \in layer.exited => exitedIn[x] # NotYet
ClaimFits(x) ==
    claimedIn[x] = NotYet \/ (0 <= exitedIn[x] /\ exitedIn[x] + CLAIM_WAIT <= claimedIn[x] /\ claimedIn[x] <= bscBlock)

ChainsFit ==
    /\ \A d \in BridgeDeposits : DepositFits(d) /\ CreditFits(d)
    /\ \A x \in BurntExits : ExitFits(x) /\ ClaimFits(x)
    /\ BookedUp(layer)

\* What was read is between what was there when the round began and what could be there by now.
ReadCreditFits(d) == d \in reading.books.credited => 0 <= lockedIn[d] /\ lockedIn[d] + CREDIT_WAIT <= reading.at + READ_TIME
ReadExitFits(x) == 0 <= exitedIn[x] /\ exitedIn[x] < reading.at => x \in reading.books.exited

ReadingFits ==
    /\ reading.by # "nobody" => reading.at <= bscBlock /\ bscBlock <= reading.at + READ_TIME
    /\ reading.balancesRead =>
        /\ BookedUp(reading.books) /\ reading.by # "nobody"
        /\ \A d \in BridgeDeposits : ReadCreditFits(d)
        /\ \A x \in BurntExits : ReadExitFits(x)

VerdictFits ==
    reading.verdict # {} =>
        /\ reading.balancesRead
        /\ reading.by = "watchdog" => reading.verdict = {CompareBooks(reading.at - SLOW_DEPTH, reading.books)}
        /\ reading.by = "indexer" => reading.verdict = {"read"} \cup Alarms(SnapshotBooks(reading.books))

ReconcileInv == ReconcileTypes /\ ChainsFit /\ ReadingFits /\ VerdictFits

LEMMA CountOf ==
    ASSUME NEW S, IsFiniteSet(S), NEW T \in SUBSET S
    PROVE  IsFiniteSet(T) /\ Cardinality(T) \in Nat
BY FS_Subset, FS_CardinalityType

LEMMA OneMoreCounts ==
    ASSUME NEW S, IsFiniteSet(S), NEW T \in SUBSET S, NEW x \in S, x \notin T
    PROVE  Cardinality(T \cup {x}) = Cardinality(T) + 1 /\ Cardinality(T) \in Nat
BY CountOf, FS_AddElement

LEMMA ReconcileStart == ASSUME ReconcileInit PROVE ReconcileInv
<1> USE ReconcileSizes DEF ReconcileInit
<1>1. NoBooks \in LayerBooksAtOnce
  BY DEF NoBooks, LayerBooksAtOnce
<1>2. NoReading \in Readings /\ NoReading.by = "nobody" /\ ~NoReading.balancesRead /\ NoReading.verdict = {}
  BY <1>1 DEF NoReading, Readings
<1>3. ReconcileTypes
  BY <1>1, <1>2 DEF ReconcileTypes, NotYet
<1>4. BookedUp(NoBooks)
  <2>1. Cardinality({}) = 0
    BY FS_EmptySet
  <2> QED BY <2>1 DEF BookedUp, NoBooks
<1>5. ChainsFit
  BY <1>4 DEF ChainsFit, DepositFits, CreditFits, ExitFits, ClaimFits, NotYet, NoBooks
<1> QED BY <1>2, <1>3, <1>5 DEF ReconcileInv, ReadingFits, VerdictFits

-----------------------------------------------------------------------------
\* While no verdict stands, the chains go on under a reading that stays.
LEMMA ReadingStays ==
    ASSUME ReconcileInv, reading.verdict = {}, UNCHANGED reading,
           bscBlock' \in Nat, bscBlock <= bscBlock',
           reading.by # "nobody" => bscBlock' <= reading.at + READ_TIME,
           lockedIn' \in [BridgeDeposits -> Int], exitedIn' \in [BurntExits -> Int],
           \A d \in BridgeDeposits : lockedIn'[d] = lockedIn[d] \/ lockedIn[d] < 0,
           \A x \in BurntExits : exitedIn'[x] = exitedIn[x] \/ (exitedIn[x] < 0 /\ exitedIn'[x] >= bscBlock)
    PROVE  ReadingFits' /\ VerdictFits'
<1>1. reading \in Readings /\ reading.at \in Nat /\ bscBlock \in Nat
  BY DEF ReconcileInv, ReconcileTypes, Readings
<1>2. /\ reading.by # "nobody" => reading.at <= bscBlock
      /\ reading.balancesRead => reading.by # "nobody"
  BY DEF ReconcileInv, ReadingFits
<1>3. reading.by # "nobody" => reading.at <= bscBlock' /\ bscBlock' <= reading.at + READ_TIME
  BY <1>1, <1>2
<1>4. ASSUME reading.balancesRead, NEW d \in BridgeDeposits PROVE ReadCreditFits(d)'
  <2>1. ReadCreditFits(d) /\ (lockedIn'[d] = lockedIn[d] \/ lockedIn[d] < 0) /\ lockedIn[d] \in Int
    BY <1>4 DEF ReconcileInv, ReadingFits, ReconcileTypes
  <2> QED BY <2>1 DEF ReadCreditFits
<1>5. ASSUME reading.balancesRead, NEW x \in BurntExits PROVE ReadExitFits(x)'
  <2>1. /\ ReadExitFits(x) /\ exitedIn[x] \in Int /\ exitedIn'[x] \in Int
        /\ exitedIn'[x] = exitedIn[x] \/ (exitedIn[x] < 0 /\ exitedIn'[x] >= bscBlock)
    BY <1>5 DEF ReconcileInv, ReadingFits, ReconcileTypes
  <2>2. reading.at <= bscBlock
    BY <1>2, <1>5
  <2> QED BY <1>1, <2>1, <2>2 DEF ReadExitFits
<1>6. reading.balancesRead => BookedUp(reading.books)'
  BY DEF ReconcileInv, ReadingFits, BookedUp
<1>7. ReadingFits'
  BY <1>2, <1>3, <1>4, <1>5, <1>6 DEF ReadingFits
<1>8. VerdictFits'
  BY DEF VerdictFits
<1> QED BY <1>7, <1>8

LEMMA BscMovesKeep ==
    ASSUME ReconcileInv, reading.verdict = {},
           \/ NextBscBlock
           \/ \E d \in BridgeDeposits : LockOnBsc(d)
           \/ \E x \in BurntExits : ClaimOnBsc(x)
    PROVE  ReconcileInv'
<1> USE ReconcileSizes DEF ReconcileInv, ReconcileTypes
<1>0. layer \in LayerBooksAtOnce /\ reading \in Readings
  OBVIOUS
<1>1. CASE NextBscBlock
  <2>1. /\ bscBlock' = bscBlock + 1 /\ UNCHANGED <<lockedIn, claimedIn, layer, exitedIn, reading>>
        /\ reading.by # "nobody" => bscBlock < reading.at + READ_TIME
    BY <1>1 DEF NextBscBlock, layerBooks
  <2>2. reading.at \in Nat /\ READ_TIME \in Nat /\ CREDIT_WAIT \in Nat /\ CLAIM_WAIT \in Nat
    BY <1>0 DEF Readings
  <2>3. ReadingFits' /\ VerdictFits'
    BY <2>1, <2>2, ReadingStays
  <2>4. \A d \in BridgeDeposits : DepositFits(d)' /\ CreditFits(d)'
    BY <2>1, <2>2 DEF ChainsFit, DepositFits, CreditFits
  <2>5. \A x \in BurntExits : ExitFits(x)' /\ ClaimFits(x)'
    BY <2>1, <2>2 DEF ChainsFit, ExitFits, ClaimFits
  <2> QED BY <2>1, <2>3, <2>4, <2>5 DEF ChainsFit, BookedUp
<1>2. ASSUME NEW d \in BridgeDeposits, LockOnBsc(d) PROVE ReconcileInv'
  <2>1. /\ lockedIn[d] = NotYet /\ lockedIn' = [lockedIn EXCEPT ![d] = bscBlock]
        /\ UNCHANGED <<bscBlock, claimedIn, layer, exitedIn, reading>>
    BY <1>2 DEF LockOnBsc, layerBooks
  <2>2. \A c \in BridgeDeposits : lockedIn'[c] = IF c = d THEN bscBlock ELSE lockedIn[c]
    BY <2>1
  <2>3. lockedIn' \in [BridgeDeposits -> Int] /\ lockedIn[d] < 0
    BY <2>1 DEF NotYet
  <2>4. ReadingFits' /\ VerdictFits'
    BY <2>1, <2>2, <2>3, ReadingStays DEF ReadingFits
  <2>5. \A c \in BridgeDeposits : DepositFits(c)' /\ CreditFits(c)'
    BY <2>1, <2>2, <2>3 DEF ChainsFit, DepositFits, CreditFits
  <2>6. \A x \in BurntExits : ExitFits(x)' /\ ClaimFits(x)'
    BY <2>1 DEF ChainsFit, ExitFits, ClaimFits
  <2> QED BY <2>1, <2>3, <2>4, <2>5, <2>6 DEF ChainsFit, BookedUp
<1>3. ASSUME NEW x \in BurntExits, ClaimOnBsc(x) PROVE ReconcileInv'
  <2>1. /\ exitedIn[x] # NotYet /\ exitedIn[x] + CLAIM_WAIT <= bscBlock
        /\ claimedIn' = [claimedIn EXCEPT ![x] = bscBlock]
        /\ UNCHANGED <<bscBlock, lockedIn, layer, exitedIn, reading>>
    BY <1>3 DEF ClaimOnBsc, layerBooks
  <2>2. \A y \in BurntExits : claimedIn'[y] = IF y = x THEN bscBlock ELSE claimedIn[y]
    BY <2>1
  <2>3. claimedIn' \in [BurntExits -> Int]
    BY <2>1
  <2>4. ReadingFits' /\ VerdictFits'
    BY <2>1, ReadingStays DEF ReadingFits
  <2>5. \A c \in BridgeDeposits : DepositFits(c)' /\ CreditFits(c)'
    BY <2>1 DEF ChainsFit, DepositFits, CreditFits
  <2>6. \A y \in BurntExits : ExitFits(y)' /\ ClaimFits(y)'
    BY <2>1, <2>2 DEF ChainsFit, ExitFits, ClaimFits
  <2> QED BY <2>1, <2>3, <2>4, <2>5, <2>6 DEF ChainsFit, BookedUp
<1> QED BY <1>1, <1>2, <1>3

\* Of the layer only the books move, and stay booked up.
LEMMA LayerMovesKeep ==
    ASSUME ReconcileInv, reading.verdict = {}, UNCHANGED <<bscBooks, exitedIn, reading>>,
           layer' \in LayerBooksAtOnce, BookedUp(layer'), layer'.exited = layer.exited,
           \A d \in layer'.credited : d \in layer.credited \/ GatesPassed(d)
    PROVE  ReconcileInv'
<1> USE ReconcileSizes DEF ReconcileInv, ReconcileTypes, bscBooks
<1>1. ReadingFits' /\ VerdictFits'
  BY ReadingStays DEF ReadingFits
<1>2. ASSUME NEW d \in BridgeDeposits PROVE DepositFits(d)' /\ CreditFits(d)'
  <2>1. DepositFits(d) /\ CreditFits(d)
    BY DEF ChainsFit
  <2>2. d \in layer'.credited => d \in layer.credited \/ (lockedIn[d] # NotYet /\ lockedIn[d] + CREDIT_WAIT <= bscBlock)
    BY DEF GatesPassed
  <2> QED BY <2>1, <2>2 DEF DepositFits, CreditFits
<1>3. \A x \in BurntExits : ExitFits(x)' /\ ClaimFits(x)'
  BY DEF ChainsFit, ExitFits, ClaimFits
<1>4. BookedUp(layer)'
  BY DEF BookedUp
<1> QED BY <1>1, <1>2, <1>3, <1>4 DEF ChainsFit

LEMMA LayerBooksKeep ==
    ASSUME ReconcileInv, reading.verdict = {},
           \/ \E d \in BridgeDeposits : CreditOnLayer(d)
           \/ ForgedCredit \/ WithdrawOnLayer
           \/ \E field \in {"burned", "donated"} : BurnOrDonate(field)
           \/ \E f \in FeeTakers : PayFee(f)
    PROVE  ReconcileInv'
<1> DEFINE b == layer
           c == Cardinality(b.credited)
           x == Cardinality(b.exited)
<1>1. b \in LayerBooksAtOnce /\ BookedUp(b)
  BY DEF ReconcileInv, ReconcileTypes, ChainsFit
<1>2. /\ b.bridge \in Int /\ b.forged \in Nat /\ b.creditable \in Nat /\ b.burned \in Nat /\ b.donated \in Nat
      /\ b.users \in Int /\ b.credited \in SUBSET BridgeDeposits /\ b.exited \in SUBSET BurntExits
  BY <1>1 DEF LayerBooksAtOnce
<1>3. c \in Nat /\ x \in Nat
  BY <1>2, ReconcileSizes, CountOf
<1>4. b.bridge = x + b.burned + b.donated + b.creditable - c - b.forged
  BY <1>1 DEF BookedUp
<1>5. ASSUME NEW d \in BridgeDeposits, CreditOnLayer(d) PROVE ReconcileInv'
  <2>1. /\ d \notin b.credited /\ GatesPassed(d) /\ UNCHANGED <<bscBooks, exitedIn, reading>>
        /\ layer' = [b EXCEPT !.credited = @ \cup {d}, !.creditable = @ + 1]
    BY <1>5 DEF CreditOnLayer
  <2>2. Cardinality(b.credited \cup {d}) = c + 1
    BY <1>2, <2>1, ReconcileSizes, OneMoreCounts
  <2> HIDE DEF b
  <2>3. layer' \in LayerBooksAtOnce /\ layer'.credited = b.credited \cup {d} /\ layer'.creditable = b.creditable + 1 /\ layer'.exited = b.exited /\ layer'.bridge = b.bridge /\ layer'.burned = b.burned /\ layer'.donated = b.donated /\ layer'.forged = b.forged
    <3>1. layer' \in LayerBooksAtOnce
      <4> DEFINE n1 == b.credited \cup {d}
                 n2 == b.creditable + 1
      <4>1. n1 \in SUBSET BridgeDeposits /\ n2 \in Nat
        BY <1>2
      <4>2. layer' = [b EXCEPT !.credited = n1, !.creditable = n2]
        BY <2>1
      <4> HIDE DEF n1, n2
      <4> QED BY <1>1, <4>1, <4>2 DEF LayerBooksAtOnce
    <3>2. layer'.credited = b.credited \cup {d} /\ layer'.creditable = b.creditable + 1 /\ layer'.exited = b.exited /\ layer'.bridge = b.bridge /\ layer'.burned = b.burned /\ layer'.donated = b.donated /\ layer'.forged = b.forged
      BY <1>1, <1>2, <2>1 DEF LayerBooksAtOnce
    <3> QED BY <3>1, <3>2
  <2> HIDE DEF c, x
  <2>4. b.bridge = x + b.burned + b.donated + (b.creditable + 1) - (c + 1) - b.forged
    BY ONLY <1>2, <1>3, <1>4
  <2>5. BookedUp(layer')
    BY <2>2, <2>3, <2>4 DEF BookedUp, x
  <2> QED BY <2>1, <2>3, <2>5, LayerMovesKeep DEF b
<1>6. CASE ForgedCredit
  <2>1. /\ UNCHANGED <<bscBooks, exitedIn, reading>>
        /\ layer' = [b EXCEPT !.forged = @ + 1, !.creditable = @ + 1]
    BY <1>6 DEF ForgedCredit
  <2> HIDE DEF b
  <2>3. layer' \in LayerBooksAtOnce /\ layer'.credited = b.credited /\ layer'.creditable = b.creditable + 1 /\ layer'.exited = b.exited /\ layer'.bridge = b.bridge /\ layer'.burned = b.burned /\ layer'.donated = b.donated /\ layer'.forged = b.forged + 1
    <3>1. layer' \in LayerBooksAtOnce
      <4> DEFINE n1 == b.forged + 1
                 n2 == b.creditable + 1
      <4>1. n1 \in Nat /\ n2 \in Nat
        BY <1>2
      <4>2. layer' = [b EXCEPT !.forged = n1, !.creditable = n2]
        BY <2>1
      <4> HIDE DEF n1, n2
      <4> QED BY <1>1, <4>1, <4>2 DEF LayerBooksAtOnce
    <3>2. layer'.credited = b.credited /\ layer'.creditable = b.creditable + 1 /\ layer'.exited = b.exited /\ layer'.bridge = b.bridge /\ layer'.burned = b.burned /\ layer'.donated = b.donated /\ layer'.forged = b.forged + 1
      BY <1>1, <1>2, <2>1 DEF LayerBooksAtOnce
    <3> QED BY <3>1, <3>2
  <2> HIDE DEF c, x
  <2>4. b.bridge = x + b.burned + b.donated + (b.creditable + 1) - c - (b.forged + 1)
    BY ONLY <1>2, <1>3, <1>4
  <2>5. BookedUp(layer')
    BY <2>3, <2>4 DEF BookedUp, x, c
  <2> QED BY <2>1, <2>3, <2>5, LayerMovesKeep DEF b
<1>7. CASE WithdrawOnLayer
  <2>1. /\ UNCHANGED <<bscBooks, exitedIn, reading>>
        /\ layer' = [b EXCEPT !.bridge = @ - b.creditable, !.users = @ + b.creditable, !.creditable = 0]
    BY <1>7 DEF WithdrawOnLayer
  <2> HIDE DEF b
  <2>3. layer' \in LayerBooksAtOnce /\ layer'.credited = b.credited /\ layer'.creditable = 0 /\ layer'.exited = b.exited /\ layer'.bridge = b.bridge - b.creditable /\ layer'.burned = b.burned /\ layer'.donated = b.donated /\ layer'.forged = b.forged
    <3>1. layer' \in LayerBooksAtOnce
      <4> DEFINE n1 == b.bridge - b.creditable
                 n2 == b.users + b.creditable
      <4>1. n1 \in Int /\ n2 \in Int
        BY <1>2
      <4>2. layer' = [b EXCEPT !.bridge = n1, !.users = n2, !.creditable = 0]
        BY <2>1
      <4> HIDE DEF n1, n2
      <4> QED BY <1>1, <4>1, <4>2 DEF LayerBooksAtOnce
    <3>2. layer'.credited = b.credited /\ layer'.creditable = 0 /\ layer'.exited = b.exited /\ layer'.bridge = b.bridge - b.creditable /\ layer'.burned = b.burned /\ layer'.donated = b.donated /\ layer'.forged = b.forged
      BY <1>1, <1>2, <2>1 DEF LayerBooksAtOnce
    <3> QED BY <3>1, <3>2
  <2> HIDE DEF c, x
  <2>4. b.bridge - b.creditable = x + b.burned + b.donated + 0 - c - b.forged
    BY ONLY <1>2, <1>3, <1>4
  <2>5. BookedUp(layer')
    BY <2>3, <2>4 DEF BookedUp, x, c
  <2> QED BY <2>1, <2>3, <2>5, LayerMovesKeep DEF b
<1>8. ASSUME NEW field \in {"burned", "donated"}, BurnOrDonate(field) PROVE ReconcileInv'
  <2>1. /\ UNCHANGED <<bscBooks, exitedIn, reading>>
        /\ layer' = [b EXCEPT !.bridge = @ + 1, !.users = @ - 1, ![field] = @ + 1]
    BY <1>8 DEF BurnOrDonate
  <2> HIDE DEF b
  <2>2. CASE field = "burned"
    <3>1. layer' = [b EXCEPT !.bridge = @ + 1, !.users = @ - 1, !.burned = @ + 1]
      BY <2>1, <2>2
    <3>2. layer' \in LayerBooksAtOnce /\ layer'.credited = b.credited /\ layer'.creditable = b.creditable /\ layer'.exited = b.exited /\ layer'.bridge = b.bridge + 1 /\ layer'.burned = b.burned + 1 /\ layer'.donated = b.donated /\ layer'.forged = b.forged
      <4>1. layer' \in LayerBooksAtOnce
        <5> DEFINE n1 == b.bridge + 1
                   n2 == b.users - 1
                   n3 == b.burned + 1
        <5>1. n1 \in Int /\ n2 \in Int /\ n3 \in Nat
          BY <1>2
        <5>2. layer' = [b EXCEPT !.bridge = n1, !.users = n2, !.burned = n3]
          BY <3>1
        <5> HIDE DEF n1, n2, n3
        <5> QED BY <1>1, <5>1, <5>2 DEF LayerBooksAtOnce
      <4>2. layer'.credited = b.credited /\ layer'.creditable = b.creditable /\ layer'.exited = b.exited /\ layer'.bridge = b.bridge + 1 /\ layer'.burned = b.burned + 1 /\ layer'.donated = b.donated /\ layer'.forged = b.forged
        BY <1>1, <1>2, <3>1 DEF LayerBooksAtOnce
      <4> QED BY <4>1, <4>2
    <3> HIDE DEF c, x
    <3>3. b.bridge + 1 = x + (b.burned + 1) + b.donated + b.creditable - c - b.forged
      BY ONLY <1>2, <1>3, <1>4
    <3>4. BookedUp(layer')
      BY <3>2, <3>3 DEF BookedUp, x, c
    <3> QED BY <2>1, <3>2, <3>4, LayerMovesKeep DEF b
  <2>3. CASE field = "donated"
    <3>1. layer' = [b EXCEPT !.bridge = @ + 1, !.users = @ - 1, !.donated = @ + 1]
      BY <2>1, <2>3
    <3>2. layer' \in LayerBooksAtOnce /\ layer'.credited = b.credited /\ layer'.creditable = b.creditable /\ layer'.exited = b.exited /\ layer'.bridge = b.bridge + 1 /\ layer'.burned = b.burned /\ layer'.donated = b.donated + 1 /\ layer'.forged = b.forged
      <4>1. layer' \in LayerBooksAtOnce
        <5> DEFINE n1 == b.bridge + 1
                   n2 == b.users - 1
                   n3 == b.donated + 1
        <5>1. n1 \in Int /\ n2 \in Int /\ n3 \in Nat
          BY <1>2
        <5>2. layer' = [b EXCEPT !.bridge = n1, !.users = n2, !.donated = n3]
          BY <3>1
        <5> HIDE DEF n1, n2, n3
        <5> QED BY <1>1, <5>1, <5>2 DEF LayerBooksAtOnce
      <4>2. layer'.credited = b.credited /\ layer'.creditable = b.creditable /\ layer'.exited = b.exited /\ layer'.bridge = b.bridge + 1 /\ layer'.burned = b.burned /\ layer'.donated = b.donated + 1 /\ layer'.forged = b.forged
        BY <1>1, <1>2, <3>1 DEF LayerBooksAtOnce
      <4> QED BY <4>1, <4>2
    <3> HIDE DEF c, x
    <3>3. b.bridge + 1 = x + b.burned + (b.donated + 1) + b.creditable - c - b.forged
      BY ONLY <1>2, <1>3, <1>4
    <3>4. BookedUp(layer')
      BY <3>2, <3>3 DEF BookedUp, x, c
    <3> QED BY <2>1, <3>2, <3>4, LayerMovesKeep DEF b
  <2> QED BY <2>2, <2>3
<1>9. ASSUME NEW f \in FeeTakers, PayFee(f) PROVE ReconcileInv'
  <2>1. /\ UNCHANGED <<bscBooks, exitedIn, reading>>
        /\ layer' = [b EXCEPT !.users = @ - 1, !.fees[f] = @ + 1]
    BY <1>9 DEF PayFee
  <2>2. b.fees \in [FeeTakers -> Nat]
    BY <1>1 DEF LayerBooksAtOnce
  <2> HIDE DEF b
  <2>3. layer' \in LayerBooksAtOnce /\ layer'.credited = b.credited /\ layer'.creditable = b.creditable /\ layer'.exited = b.exited /\ layer'.bridge = b.bridge /\ layer'.burned = b.burned /\ layer'.donated = b.donated /\ layer'.forged = b.forged
    <3>1. layer' \in LayerBooksAtOnce
      <4> DEFINE n1 == b.users - 1
                 n2 == [b.fees EXCEPT ![f] = b.fees[f] + 1]
      <4>1. n1 \in Int /\ n2 \in [FeeTakers -> Nat]
        BY <1>2, <2>2
      <4>2. layer' = [b EXCEPT !.users = n1, !.fees = n2]
        BY <2>1
      <4> HIDE DEF n1, n2
      <4> QED BY <1>1, <4>1, <4>2 DEF LayerBooksAtOnce
    <3>2. layer'.credited = b.credited /\ layer'.creditable = b.creditable /\ layer'.exited = b.exited /\ layer'.bridge = b.bridge /\ layer'.burned = b.burned /\ layer'.donated = b.donated /\ layer'.forged = b.forged
      BY <1>1, <1>2, <2>1, <2>2 DEF LayerBooksAtOnce
    <3> QED BY <3>1, <3>2
  <2>5. BookedUp(layer')
    BY <1>4, <2>3 DEF BookedUp
  <2> QED BY <2>1, <2>3, <2>5, LayerMovesKeep DEF b
<1> QED BY <1>5, <1>6, <1>7, <1>8, <1>9

LEMMA ExitOnLayerKeeps ==
    ASSUME ReconcileInv, reading.verdict = {}, NEW z \in BurntExits, ExitOnLayer(z)
    PROVE  ReconcileInv'
<1> USE ReconcileSizes DEF ReconcileInv, ReconcileTypes
<1> DEFINE b == layer
           c == Cardinality(b.credited)
           x == Cardinality(b.exited)
<1>1. /\ exitedIn[z] = NotYet /\ exitedIn' = [exitedIn EXCEPT ![z] = bscBlock]
      /\ layer' = [b EXCEPT !.bridge = @ + 1, !.users = @ - 1, !.exited = @ \cup {z}]
      /\ UNCHANGED <<bscBlock, lockedIn, claimedIn, reading>>
  BY DEF ExitOnLayer, bscBooks
<1>2. /\ b \in LayerBooksAtOnce /\ BookedUp(b) /\ ExitFits(z) /\ ClaimFits(z)
  BY DEF ChainsFit
<1>3. /\ b.bridge \in Int /\ b.forged \in Nat /\ b.creditable \in Nat /\ b.burned \in Nat /\ b.donated \in Nat
      /\ b.users \in Int /\ b.credited \in SUBSET BridgeDeposits /\ b.exited \in SUBSET BurntExits
  BY <1>2 DEF LayerBooksAtOnce
<1>4. c \in Nat /\ x \in Nat
  BY <1>3, CountOf
<1>5. z \notin b.exited
  BY <1>1, <1>2 DEF ExitFits
<1>6. Cardinality(b.exited \cup {z}) = x + 1
  BY <1>3, <1>5, OneMoreCounts
<1>7. b.bridge = x + b.burned + b.donated + b.creditable - c - b.forged
  BY <1>2 DEF BookedUp
<1>8. /\ layer' \in LayerBooksAtOnce /\ layer'.credited = b.credited /\ layer'.creditable = b.creditable
      /\ layer'.exited = b.exited \cup {z} /\ layer'.bridge = b.bridge + 1 /\ layer'.burned = b.burned
      /\ layer'.donated = b.donated /\ layer'.forged = b.forged
  <2> HIDE DEF b
  <2> DEFINE n1 == b.bridge + 1
             n2 == b.users - 1
             n3 == b.exited \cup {z}
  <2>1. n1 \in Int /\ n2 \in Int /\ n3 \in SUBSET BurntExits
    BY <1>3
  <2>2. layer' = [b EXCEPT !.bridge = n1, !.users = n2, !.exited = n3]
    BY <1>1
  <2>3. layer'.exited = n3 /\ layer'.bridge = n1
    BY <1>1, <1>2 DEF LayerBooksAtOnce
  <2> HIDE DEF n1, n2, n3
  <2>4. layer' \in LayerBooksAtOnce
    BY <1>2, <2>1, <2>2 DEF LayerBooksAtOnce
  <2>5. /\ layer'.credited = b.credited /\ layer'.creditable = b.creditable /\ layer'.burned = b.burned
        /\ layer'.donated = b.donated /\ layer'.forged = b.forged
    BY <1>2, <2>2 DEF LayerBooksAtOnce
  <2> QED BY <2>3, <2>4, <2>5 DEF n1, n3
<1>9. BookedUp(layer')
  <2> HIDE DEF b, c, x
  <2>1. b.bridge + 1 = (x + 1) + b.burned + b.donated + b.creditable - c - b.forged
    BY ONLY <1>3, <1>4, <1>7
  <2> QED BY <1>6, <1>8, <2>1 DEF BookedUp, c
<1>10. \A y \in BurntExits : exitedIn'[y] = IF y = z THEN bscBlock ELSE exitedIn[y]
  BY <1>1
<1>11. exitedIn' \in [BurntExits -> Int] /\ exitedIn[z] < 0
  BY <1>1 DEF NotYet
<1>12. ReadingFits' /\ VerdictFits'
  BY <1>1, <1>10, <1>11, ReadingStays DEF ReadingFits
<1>13. \A d \in BridgeDeposits : DepositFits(d)' /\ CreditFits(d)'
  BY <1>1, <1>8 DEF ChainsFit, DepositFits, CreditFits
<1>14. ASSUME NEW y \in BurntExits PROVE ExitFits(y)' /\ ClaimFits(y)'
  <2>1. ExitFits(y) /\ ClaimFits(y)
    BY DEF ChainsFit
  <2>2. ClaimFits(z) => claimedIn[z] = NotYet
    BY <1>11 DEF ClaimFits
  <2>3. ClaimFits(y)'
    BY <1>1, <1>2, <1>10, <2>1, <2>2 DEF ClaimFits
  <2>4. ExitFits(y)'
    BY <1>1, <1>8, <1>10, <2>1 DEF ExitFits, NotYet
  <2> QED BY <2>3, <2>4
<1> QED BY <1>1, <1>8, <1>9, <1>11, <1>12, <1>13, <1>14 DEF ChainsFit, BookedUp

-----------------------------------------------------------------------------
\* The four numbers of the indexer, none computed twice.
LEMMA TermsNamed ==
    ASSUME NEW bk
    PROVE  /\ DOMAIN reconcileTerms(bk) = {"creditsPendingRelay", "exitsPendingClaim", "burnedFloat",
                                           "creditableAndDonations"}
           /\ Alarms(bk) \subseteq ReadingWords
<1>1. DOMAIN reconcileTerms(bk) = {"creditsPendingRelay", "exitsPendingClaim", "burnedFloat",
                                   "creditableAndDonations"}
  BY DEF reconcileTerms
<1> QED BY <1>1 DEF Alarms, NegativeTerms, ReadingWords

LEMMA VerdictNamed ==
    ASSUME NEW n, NEW bk
    PROVE  CompareBooks(n, bk) \in ReadingWords
BY DEF CompareBooks, Verdict, ReadingWords

LEMMA ReadersKeep ==
    ASSUME ReconcileInv, EvaluateReconcile \/ RefreshSnapshot
                         \/ (\E who \in {"watchdog", "indexer"} : ReadBalances(who))
                         \/ CheckReconcile \/ ComputeReconcile
    PROVE  ReconcileInv'
<1> USE ReconcileSizes
<1>1. /\ ReconcileTypes /\ ChainsFit /\ ReadingFits /\ VerdictFits
      /\ reading \in Readings /\ bscBlock \in Nat /\ layer \in LayerBooksAtOnce
  BY DEF ReconcileInv, ReconcileTypes
<1>2. ASSUME UNCHANGED <<bscBooks, layerBooks>>, reading' \in Readings PROVE ReconcileTypes' /\ ChainsFit'
  <2>1. ReconcileTypes'
    BY <1>1, <1>2 DEF ReconcileTypes, bscBooks, layerBooks
  <2>2. ChainsFit'
    BY <1>1, <1>2 DEF ChainsFit, DepositFits, CreditFits, ExitFits, ClaimFits, BookedUp, bscBooks, layerBooks
  <2> QED BY <2>1, <2>2
<1>3. ASSUME NEW who \in {"watchdog", "indexer"}, Begins(who) PROVE ReconcileInv'
  <2>1. reading' = [NoReading EXCEPT !.by = who, !.at = bscBlock] /\ UNCHANGED <<bscBooks, layerBooks>>
    BY <1>3 DEF Begins
  <2>2. NoReading \in Readings
    BY ReconcileStart, <1>1 DEF NoReading, Readings, NoBooks, LayerBooksAtOnce
  <2>3. /\ reading' \in Readings /\ reading'.by = who /\ reading'.at = bscBlock /\ ~reading'.balancesRead
        /\ reading'.verdict = {}
    BY <1>1, <2>1, <2>2 DEF Readings, NoReading
  <2>4. ReadingFits' /\ VerdictFits'
    BY <1>1, <2>1, <2>3 DEF ReadingFits, VerdictFits, bscBooks
  <2> QED BY <1>2, <2>1, <2>3, <2>4 DEF ReconcileInv
<1>4. ASSUME NEW who \in {"watchdog", "indexer"}, ReadBalances(who) PROVE ReconcileInv'
  <2>1. /\ reading.by = who /\ ~reading.balancesRead /\ UNCHANGED <<bscBooks, layerBooks>>
        /\ reading' = [reading EXCEPT !.balancesRead = TRUE, !.books = layer]
    BY <1>4 DEF ReadBalances
  <2>2. /\ reading' \in Readings /\ reading'.by = who /\ reading'.at = reading.at /\ reading'.balancesRead
        /\ reading'.books = layer /\ reading'.verdict = reading.verdict /\ reading.at \in Nat
    BY <1>1, <2>1 DEF Readings
  <2>3. reading.at <= bscBlock /\ bscBlock <= reading.at + READ_TIME /\ reading.verdict = {}
    BY <1>1, <2>1 DEF ReadingFits, VerdictFits
  <2>4. ASSUME NEW d \in BridgeDeposits PROVE ReadCreditFits(d)'
    <3>1. CreditFits(d) /\ lockedIn[d] \in Int
      BY <1>1 DEF ChainsFit, ReconcileTypes
    <3> QED BY <1>1, <2>1, <2>2, <2>3, <3>1 DEF ReadCreditFits, CreditFits, bscBooks
  <2>5. ASSUME NEW x \in BurntExits PROVE ReadExitFits(x)'
    <3>1. ExitFits(x)
      BY <1>1 DEF ChainsFit
    <3> QED BY <2>1, <2>2, <3>1 DEF ReadExitFits, ExitFits, NotYet, layerBooks
  <2>6. BookedUp(layer)
    BY <1>1 DEF ChainsFit
  <2>7. ReadingFits' /\ VerdictFits'
    BY <2>1, <2>2, <2>3, <2>4, <2>5, <2>6 DEF ReadingFits, VerdictFits, BookedUp, bscBooks
  <2> QED BY <1>2, <2>1, <2>2, <2>7 DEF ReconcileInv
<1>5. ASSUME NEW who \in {"watchdog", "indexer"}, NEW vd \in SUBSET ReadingWords, Concludes(who, vd),
             /\ who = "watchdog" => vd = {CompareBooks(reading.at - SLOW_DEPTH, reading.books)}
             /\ who = "indexer" => vd = {"read"} \cup Alarms(SnapshotBooks(reading.books))
      PROVE  ReconcileInv'
  <2>1. /\ reading.by = who /\ reading.balancesRead /\ UNCHANGED <<bscBooks, layerBooks>>
        /\ reading' = [reading EXCEPT !.verdict = vd]
    BY <1>5 DEF Concludes
  <2>2. /\ reading' \in Readings /\ reading'.by = who /\ reading'.at = reading.at /\ reading'.balancesRead
        /\ reading'.books = reading.books /\ reading'.verdict = vd
    BY <1>1, <2>1 DEF Readings
  <2>3. /\ \A d \in BridgeDeposits : ReadCreditFits(d)' <=> ReadCreditFits(d)
        /\ \A x \in BurntExits : ReadExitFits(x)' <=> ReadExitFits(x)
        /\ BookedUp(reading.books)' <=> BookedUp(reading.books)
    BY <2>1, <2>2 DEF ReadCreditFits, ReadExitFits, BookedUp, bscBooks, layerBooks
  <2>4. ReadingFits'
    BY <1>1, <2>1, <2>2, <2>3 DEF ReadingFits, bscBooks
  <2>5. /\ CompareBooks(reading.at - SLOW_DEPTH, reading.books)'
             = CompareBooks(reading.at - SLOW_DEPTH, reading.books)
        /\ Alarms(SnapshotBooks(reading.books))' = Alarms(SnapshotBooks(reading.books))
    <3>1. UNCHANGED <<lockedIn, claimedIn, bscBlock, layer>> /\ reading'.at = reading.at
          /\ reading'.books = reading.books
      BY <2>1, <2>2 DEF bscBooks, layerBooks
    <3>2. CompareBooks(reading.at - SLOW_DEPTH, reading.books)'
             = CompareBooks(reading.at - SLOW_DEPTH, reading.books)
      BY <3>1 DEF CompareBooks, Verdict, reconcileDiff, inflightCredits, inflightExits, totalCreditsIssued,
                  totalCreditsExited, By
    <3>3. Alarms(SnapshotBooks(reading.books))' = Alarms(SnapshotBooks(reading.books))
      BY <3>1 DEF Alarms, SnapshotBooks, NegativeTerms, reconcileTerms, totalCreditsIssued, totalCreditsExited, By
    <3> QED BY <3>2, <3>3
  <2>6. VerdictFits'
    BY <1>5, <2>2, <2>5 DEF VerdictFits
  <2> QED BY <1>2, <2>1, <2>2, <2>4, <2>6 DEF ReconcileInv
<1>6. CASE EvaluateReconcile \/ RefreshSnapshot
  BY <1>3, <1>6 DEF EvaluateReconcile, RefreshSnapshot
<1>7. CASE CheckReconcile
  <2>1. {CompareBooks(reading.at - SLOW_DEPTH, reading.books)} \in SUBSET ReadingWords
    BY VerdictNamed
  <2> QED BY <1>5, <1>7, <2>1 DEF CheckReconcile
<1>8. CASE ComputeReconcile
  <2>1. {"read"} \cup Alarms(SnapshotBooks(reading.books)) \in SUBSET ReadingWords
    BY TermsNamed DEF ReadingWords
  <2> QED BY <1>5, <1>8, <2>1 DEF ComputeReconcile
<1> QED BY <1>4, <1>6, <1>7, <1>8

LEMMA ReconcileStep == ASSUME ReconcileInv, [ReconcileNext]_reconcileVars PROVE ReconcileInv'
<1>1. CASE ChainStep
  <2>1. reading.verdict = {}
    BY <1>1 DEF ChainStep, Judged
  <2> QED BY <1>1, <2>1, BscMovesKeep, LayerBooksKeep, ExitOnLayerKeeps DEF ChainStep
<1>2. CASE EvaluateReconcile \/ RefreshSnapshot \/ (\E who \in {"watchdog", "indexer"} : ReadBalances(who))
           \/ CheckReconcile \/ ComputeReconcile
  BY <1>2, ReadersKeep
<1>3. CASE UNCHANGED reconcileVars
  <2>1. UNCHANGED <<bscBlock, lockedIn, claimedIn, layer, exitedIn, reading>>
    BY <1>3 DEF reconcileVars, bscBooks, layerBooks
  <2>2. ReconcileTypes' /\ ChainsFit'
    BY <2>1 DEF ReconcileInv, ReconcileTypes, ChainsFit, DepositFits, CreditFits, ExitFits, ClaimFits, BookedUp
  <2>3. ReadingFits'
    BY <2>1 DEF ReconcileInv, ReadingFits, ReadCreditFits, ReadExitFits, BookedUp
  <2>4. VerdictFits'
    BY <2>1 DEF ReconcileInv, VerdictFits, CompareBooks, Verdict, reconcileDiff, inflightCredits, inflightExits,
                totalCreditsIssued, totalCreditsExited, By, Alarms, SnapshotBooks, NegativeTerms, reconcileTerms
  <2> QED BY <2>2, <2>3, <2>4 DEF ReconcileInv
<1> QED BY <1>1, <1>2, <1>3 DEF ReconcileNext

-----------------------------------------------------------------------------
\* What a round has read, counted against what BSC says up to a block.
LEMMA WhatWasRead ==
    ASSUME ReconcileInv, WaitsOutlastReads, reading.balancesRead
    PROVE  LET n == reading.at - SLOW_DEPTH
               bk == reading.books IN
           /\ reading.at \in Nat /\ bscBlock \in Nat /\ n \in Int
           /\ reading.at <= bscBlock /\ bscBlock <= reading.at + READ_TIME
           /\ bk.credited \subseteq By(lockedIn, n)
           /\ By(claimedIn, bscBlock) \subseteq bk.exited
           /\ By(lockedIn, n) \subseteq By(lockedIn, bscBlock)
           /\ By(claimedIn, n - SKEW_BLOCKS - 1) \subseteq By(claimedIn, n)
           /\ By(claimedIn, n) \subseteq By(claimedIn, bscBlock)
<1> USE ReconcileSizes
<1> DEFINE n == reading.at - SLOW_DEPTH
           bk == reading.books
<1>1. /\ reading.at \in Nat /\ bscBlock \in Nat /\ n \in Int /\ bk \in LayerBooksAtOnce
      /\ lockedIn \in [BridgeDeposits -> Int] /\ claimedIn \in [BurntExits -> Int]
      /\ exitedIn \in [BurntExits -> Int]
  BY DEF ReconcileInv, ReconcileTypes, Readings
<1>2. reading.at <= bscBlock /\ bscBlock <= reading.at + READ_TIME
  BY DEF ReconcileInv, ReadingFits
<1>3. SLOW_DEPTH \in Nat /\ READ_TIME \in Nat /\ CREDIT_WAIT \in Nat /\ CLAIM_WAIT \in Nat /\ SKEW_BLOCKS \in Nat
      /\ SLOW_DEPTH + READ_TIME <= CREDIT_WAIT /\ READ_TIME < CLAIM_WAIT
  BY DEF WaitsOutlastReads
<1>4. ASSUME NEW d \in bk.credited PROVE d \in By(lockedIn, n)
  <2>1. d \in BridgeDeposits /\ lockedIn[d] \in Int
    BY <1>1 DEF LayerBooksAtOnce
  <2>2. 0 <= lockedIn[d] /\ lockedIn[d] + CREDIT_WAIT <= reading.at + READ_TIME
    BY <2>1 DEF ReconcileInv, ReadingFits, ReadCreditFits
  <2>3. lockedIn[d] \in 0..n
    BY <1>1, <1>3, <2>1, <2>2
  <2> QED BY <1>1, <2>1, <2>3 DEF By
<1>5. ASSUME NEW x \in By(claimedIn, bscBlock) PROVE x \in bk.exited
  <2>1. x \in BurntExits /\ claimedIn[x] \in Int /\ exitedIn[x] \in Int /\ 0 <= claimedIn[x] /\ claimedIn[x] <= bscBlock
    BY <1>1 DEF By
  <2>2. ClaimFits(x) /\ ReadExitFits(x)
    BY <2>1 DEF ReconcileInv, ReadingFits, ChainsFit
  <2>3. 0 <= exitedIn[x] /\ exitedIn[x] < reading.at
    BY <1>1, <1>2, <1>3, <2>1, <2>2 DEF ClaimFits, NotYet
  <2> QED BY <2>2, <2>3 DEF ReadExitFits
<1>6. ASSUME NEW when, NEW m1 \in Int, NEW m2 \in Int, m1 <= m2 PROVE By(when, m1) \subseteq By(when, m2)
  <2>1. 0..m1 \subseteq 0..m2
    BY <1>6
  <2> QED BY <2>1 DEF By
<1>7. n <= bscBlock /\ n - SKEW_BLOCKS - 1 <= n /\ n - SKEW_BLOCKS - 1 \in Int
  BY <1>1, <1>2, <1>3
<1>8. By(lockedIn, n) \subseteq By(lockedIn, bscBlock) /\ By(claimedIn, n) \subseteq By(claimedIn, bscBlock)
  BY <1>1, <1>6, <1>7
<1>9. By(claimedIn, n - SKEW_BLOCKS - 1) \subseteq By(claimedIn, n)
  BY <1>1, <1>6, <1>7
<1> QED BY <1>1, <1>2, <1>4, <1>5, <1>8, <1>9

LEMMA SmallerCounts ==
    ASSUME NEW S, IsFiniteSet(S), NEW T \in SUBSET S
    PROVE  Cardinality(T) <= Cardinality(S) /\ Cardinality(T) \in Nat /\ IsFiniteSet(T)
BY FS_Subset, FS_CardinalityType

\* The numbers of both programs, related.
LEMMA NumbersRead ==
    ASSUME ReconcileInv, WaitsOutlastReads, reading.balancesRead
    PROVE  LET n == reading.at - SLOW_DEPTH
               bk == reading.books IN
           /\ totalCreditsIssued(n) \in Nat /\ totalCreditsIssued(bscBlock) \in Nat
           /\ totalCreditsExited(n) \in Nat /\ totalCreditsExited(bscBlock) \in Nat
           /\ totalCreditsExited(n - SKEW_BLOCKS - 1) \in Nat
           /\ Cardinality(bk.credited) \in Nat /\ Cardinality(bk.exited) \in Nat
           /\ Cardinality(bk.credited) <= totalCreditsIssued(n)
           /\ totalCreditsIssued(n) <= totalCreditsIssued(bscBlock)
           /\ totalCreditsExited(n - SKEW_BLOCKS - 1) <= totalCreditsExited(n)
           /\ totalCreditsExited(n) <= totalCreditsExited(bscBlock)
           /\ totalCreditsExited(bscBlock) <= Cardinality(bk.exited)
           /\ {d \in By(lockedIn, n) : d \in bk.credited} = bk.credited
<1> USE ReconcileSizes
<1> DEFINE n == reading.at - SLOW_DEPTH
           bk == reading.books
<1>1. /\ bk.credited \subseteq By(lockedIn, n) /\ By(claimedIn, bscBlock) \subseteq bk.exited
      /\ By(lockedIn, n) \subseteq By(lockedIn, bscBlock)
      /\ By(claimedIn, n - SKEW_BLOCKS - 1) \subseteq By(claimedIn, n)
      /\ By(claimedIn, n) \subseteq By(claimedIn, bscBlock)
  BY WhatWasRead
<1>2. bk \in LayerBooksAtOnce /\ DOMAIN lockedIn = BridgeDeposits
  BY DEF ReconcileInv, ReconcileTypes, Readings
<1>3. bk.exited \in SUBSET BurntExits
  BY <1>2 DEF LayerBooksAtOnce
<1>4. By(lockedIn, bscBlock) \in SUBSET BridgeDeposits
  BY <1>2 DEF By
<1>5. IsFiniteSet(bk.exited) /\ IsFiniteSet(By(lockedIn, bscBlock))
      /\ Cardinality(bk.exited) \in Nat /\ Cardinality(By(lockedIn, bscBlock)) \in Nat
  BY <1>3, <1>4, SmallerCounts
<1>6. /\ IsFiniteSet(By(lockedIn, n)) /\ Cardinality(By(lockedIn, n)) \in Nat
      /\ Cardinality(By(lockedIn, n)) <= Cardinality(By(lockedIn, bscBlock))
  BY <1>1, <1>5, SmallerCounts
<1>7. Cardinality(bk.credited) \in Nat /\ Cardinality(bk.credited) <= Cardinality(By(lockedIn, n))
  BY <1>1, <1>6, SmallerCounts
<1>8. /\ IsFiniteSet(By(claimedIn, bscBlock)) /\ Cardinality(By(claimedIn, bscBlock)) \in Nat
      /\ Cardinality(By(claimedIn, bscBlock)) <= Cardinality(bk.exited)
  BY <1>1, <1>5, SmallerCounts
<1>9. /\ IsFiniteSet(By(claimedIn, n)) /\ Cardinality(By(claimedIn, n)) \in Nat
      /\ Cardinality(By(claimedIn, n)) <= Cardinality(By(claimedIn, bscBlock))
  BY <1>1, <1>8, SmallerCounts
<1>10. /\ Cardinality(By(claimedIn, n - SKEW_BLOCKS - 1)) \in Nat
       /\ Cardinality(By(claimedIn, n - SKEW_BLOCKS - 1)) <= Cardinality(By(claimedIn, n))
  BY <1>1, <1>9, SmallerCounts
<1>11. {d \in By(lockedIn, n) : d \in bk.credited} = bk.credited
  BY <1>1
<1> QED BY <1>5, <1>6, <1>7, <1>8, <1>9, <1>10, <1>11 DEF totalCreditsIssued, totalCreditsExited

\* What is in flight is never less than nothing, so of the two ways to judge a round at most one is open.
LEMMA InflightCounts ==
    ASSUME ReconcileInv, NEW n \in Int, totalCreditsExited(n) \in Nat
    PROVE  inflightCredits(n) \in Nat /\ inflightExits(n) \in Nat
<1> USE ReconcileSizes
<1>1. lockedIn \in [BridgeDeposits -> Int] /\ layer.exited \in SUBSET BurntExits
  BY DEF ReconcileInv, ReconcileTypes, LayerBooksAtOnce
<1>2. {d \in By(lockedIn, n) : lockedIn[d] >= n - INFLIGHT_BLOCKS /\ d \notin layer.credited}
          \in SUBSET BridgeDeposits
  BY <1>1 DEF By
<1>3. Cardinality(layer.exited) \in Nat
  BY <1>1, SmallerCounts
<1>4. ASSUME NEW k \in Int PROVE Max({0, k}) \in Nat
  <2> DEFINE m == IF k > 0 THEN k ELSE 0
  <2>1. m \in {0, k} /\ (\A j \in {0, k} : m >= j)
    OBVIOUS
  <2>2. Max({0, k}) \in {0, k} /\ (\A j \in {0, k} : Max({0, k}) >= j)
    BY <2>1 DEF Max
  <2> QED BY <2>2
<1>5. Cardinality(layer.exited) - totalCreditsExited(n) \in Int
  BY <1>3
<1>6. inflightExits(n) \in Nat
  BY <1>4, <1>5 DEF inflightExits
<1> QED BY <1>2, <1>6, SmallerCounts DEF inflightCredits

LEMMA WhenCritical ==
    ASSUME ReconcileInv, WaitsOutlastReads, reading.balancesRead
    PROVE  LET n == reading.at - SLOW_DEPTH
               diff == reconcileDiff(n, reading.books)
           IN  Verdict(n, reading.books) = "critical"
                   <=> diff < 0 /\ -diff > totalCreditsExited(n) - totalCreditsExited(n - SKEW_BLOCKS - 1)
<1> DEFINE n == reading.at - SLOW_DEPTH
           bk == reading.books
           diff == reconcileDiff(n, bk)
           tooLate == diff < 0 /\ -diff > totalCreditsExited(n) - totalCreditsExited(n - SKEW_BLOCKS - 1)
           much == diff > inflightCredits(n) + inflightExits(n)
<1>1. Verdict(n, bk) = CASE tooLate -> "critical" [] much -> "warn" [] OTHER -> "ok"
  BY DEF Verdict
<1>2. n \in Int /\ totalCreditsExited(n) \in Nat
  BY WhatWasRead, NumbersRead
<1>3. inflightCredits(n) \in Nat /\ inflightExits(n) \in Nat
  BY <1>2, InflightCounts
<1>4. diff \in Int
  <2>1. totalCreditsIssued(n) \in Nat
    BY NumbersRead
  <2>2. bk.bridge \in Int /\ bk.fees["sink"] \in Nat /\ bk.fees["splitter"] \in Nat
    BY DEF ReconcileInv, ReconcileTypes, Readings, LayerBooksAtOnce, FeeTakers
  <2> QED BY <1>2, <2>1, <2>2 DEF reconcileDiff
<1>5. ~(tooLate /\ much)
  <2> HIDE DEF diff, n, bk
  <2> QED BY <1>3, <1>4
<1> SUFFICES Verdict(n, bk) = "critical" <=> tooLate
  OBVIOUS
<1> HIDE DEF tooLate, much
<1>6. CASE tooLate /\ ~much
  BY <1>1, <1>6
<1>7. CASE ~tooLate
  BY <1>1, <1>7
<1> QED BY <1>5, <1>6, <1>7

LEMMA WatchdogHasAReason ==
    ASSUME ReconcileInv, WaitsOutlastReads
    PROVE  NobodyCriesWolf /\ SilenceHasAReason
<1> SUFFICES ASSUME ByWatchdog PROVE NobodyCriesWolf /\ SilenceHasAReason
  BY DEF NobodyCriesWolf, SilenceHasAReason
<1> DEFINE n == reading.at - SLOW_DEPTH
           bk == reading.books
           c == totalCreditsIssued(n)
           e == totalCreditsExited(n)
           e2 == totalCreditsExited(n - SKEW_BLOCKS - 1)
           cr == Cardinality(bk.credited)
           ex == Cardinality(bk.exited)
           diff == reconcileDiff(n, bk)
<1>1. reading.balancesRead /\ reading.verdict = {Verdict(n, bk)}
  BY DEF ByWatchdog, Judged, ReconcileInv, VerdictFits, CompareBooks
<1>2. /\ c \in Nat /\ e \in Nat /\ e2 \in Nat /\ cr \in Nat /\ ex \in Nat
      /\ cr <= c /\ e2 <= e /\ e <= ex
      /\ {d \in By(lockedIn, n) : d \in bk.credited} = bk.credited
  <2>1. /\ totalCreditsExited(bscBlock) \in Nat /\ e \in Nat /\ ex \in Nat
        /\ e <= totalCreditsExited(bscBlock) /\ totalCreditsExited(bscBlock) <= ex
    BY <1>1, NumbersRead
  <2>2. e <= ex
    <3> HIDE DEF e, ex
    <3> QED BY <2>1
  <2> QED BY <1>1, <2>2, NumbersRead
<1>3. bk \in LayerBooksAtOnce /\ BookedUp(bk)
  BY <1>1 DEF ReconcileInv, ReconcileTypes, Readings, ReadingFits
<1>4. /\ bk.bridge \in Int /\ bk.forged \in Nat /\ bk.creditable \in Nat /\ bk.burned \in Nat /\ bk.donated \in Nat
      /\ bk.fees["sink"] \in Nat /\ bk.fees["splitter"] \in Nat /\ bk.fees["producers"] \in Nat
  BY <1>3 DEF LayerBooksAtOnce, FeeTakers
<1>5. bk.bridge = ex + bk.burned + bk.donated + bk.creditable - cr - bk.forged
  BY <1>3 DEF BookedUp
<1>6. diff = (c - e) - (-bk.bridge - bk.fees["sink"] + bk.fees["sink"] + bk.fees["splitter"])
  BY DEF reconcileDiff
<1>7. Verdict(n, bk) = "critical" <=> diff < 0 /\ -diff > e - e2
  BY <1>1, WhenCritical
<1>8. "critical" \in reading.verdict <=> diff < 0 /\ -diff > e - e2
  BY <1>1, <1>7
<1> HIDE DEF bk, c, e, e2, cr, ex, diff, n
<1>9. /\ diff < 0 /\ -diff > e - e2 => bk.forged > 0 \/ bk.fees["splitter"] > 0
      /\ ~(diff < 0 /\ -diff > e - e2) => bk.forged <= (c - cr) + (ex - e2) + bk.creditable + bk.burned + bk.donated
                                + bk.fees["producers"]
  BY <1>2, <1>4, <1>5, <1>6
<1>10. NobodyCriesWolf
  BY <1>8, <1>9 DEF NobodyCriesWolf, bk
<1>11. SilenceHasAReason
  BY <1>2, <1>8, <1>9 DEF SilenceHasAReason, bk, n, c, e2, cr, ex
<1> QED BY <1>10, <1>11

LEMMA IndexerHasAReason ==
    ASSUME ReconcileInv, WaitsOutlastReads
    PROVE  IndexerAlarmsAreTrue /\ OvermintIsSeen
<1> SUFFICES ASSUME ByIndexer PROVE IndexerAlarmsAreTrue /\ OvermintIsSeen
  BY DEF IndexerAlarmsAreTrue, OvermintIsSeen
<1> DEFINE bk == reading.books
           c == totalCreditsIssued(bscBlock)
           e == totalCreditsExited(bscBlock)
           cr == Cardinality(bk.credited)
           ex == Cardinality(bk.exited)
           terms == reconcileTerms(bk)
<1>1. reading.balancesRead /\ reading.verdict = {"read"} \cup Alarms(bk)
  BY DEF ByIndexer, Judged, ReconcileInv, VerdictFits, SnapshotBooks
<1>2. c \in Nat /\ e \in Nat /\ cr \in Nat /\ ex \in Nat /\ cr <= c /\ e <= ex
  <2> DEFINE c2 == totalCreditsIssued(reading.at - SLOW_DEPTH)
  <2>1. /\ c \in Nat /\ e \in Nat /\ cr \in Nat /\ ex \in Nat /\ c2 \in Nat /\ e <= ex
        /\ cr <= c2 /\ c2 <= c
    BY <1>1, NumbersRead
  <2>2. cr <= c
    <3> HIDE DEF c, cr, c2
    <3> QED BY <2>1
  <2> QED BY <2>1, <2>2
<1>3. bk \in LayerBooksAtOnce /\ BookedUp(bk)
  BY <1>1 DEF ReconcileInv, ReconcileTypes, Readings, ReadingFits
<1>4. /\ bk.bridge \in Int /\ bk.forged \in Nat /\ bk.creditable \in Nat /\ bk.burned \in Nat /\ bk.donated \in Nat
  BY <1>3 DEF LayerBooksAtOnce
<1>5. bk.bridge = ex + bk.burned + bk.donated + bk.creditable - cr - bk.forged
  BY <1>3 DEF BookedUp
<1>6. /\ terms["creditsPendingRelay"] = c - (cr + bk.forged)
      /\ terms["exitsPendingClaim"] = ex - e
      /\ terms["burnedFloat"] = bk.burned
      /\ terms["creditableAndDonations"] = bk.bridge - (ex + bk.burned - (cr + bk.forged))
      /\ DOMAIN terms = {"creditsPendingRelay", "exitsPendingClaim", "burnedFloat", "creditableAndDonations"}
  BY DEF reconcileTerms
<1>7. Alarms(bk) = {t \in DOMAIN terms : terms[t] < 0}
  BY DEF Alarms, NegativeTerms
<1>8. reading.at = bscBlock => totalCreditsIssued(reading.at) = c
  OBVIOUS
<1> HIDE DEF bk, c, e, cr, ex, terms
<1>9. /\ ~(terms["exitsPendingClaim"] < 0) /\ ~(terms["burnedFloat"] < 0)
      /\ ~(terms["creditableAndDonations"] < 0)
      /\ terms["creditsPendingRelay"] < 0 <=> bk.forged > c - cr
      /\ bk.forged > c - cr => bk.forged > 0
  BY <1>2, <1>4, <1>5, <1>6
<1>10. /\ Alarms(bk) \subseteq {"creditsPendingRelay"}
       /\ "creditsPendingRelay" \in Alarms(bk) <=> bk.forged > c - cr
  <2>1. \A t \in DOMAIN terms : terms[t] < 0 => t = "creditsPendingRelay"
    BY <1>6, <1>9
  <2> QED BY <1>6, <1>7, <1>9, <2>1
<1>11. IndexerAlarmsAreTrue
  BY <1>1, <1>9, <1>10 DEF IndexerAlarmsAreTrue, bk
<1>12. OvermintIsSeen
  BY <1>1, <1>8, <1>10 DEF OvermintIsSeen, bk, cr
<1> QED BY <1>11, <1>12

(* Of the two programs that compare the books of the two chains (rules/reconcile.mjs, and             *)
(* refreshSnapshot of the indexer) either raises an alarm for a reason and is silent for one, at      *)
(* every pace of the two chains, if a credit waits longer than the watchdog looks back and a round of *)
(* reads takes, and a claim longer than a round of reads.                                             *)
THEOREM VerdictsTrue ==
    ASSUME WaitsOutlastReads
    PROVE  EdgesSpec => []VerdictsHaveAReason
<1>1. EdgesInit => ReconcileInv
  BY ReconcileStart DEF EdgesInit
<1>2. ReconcileInv /\ [EdgesNext]_edgeVars => ReconcileInv'
  <2>1. [EdgesNext]_edgeVars => [ReconcileNext]_reconcileVars
    BY DEF EdgesNext, edgeVars, mathVars
  <2> QED BY <2>1, ReconcileStep
<1>3. ReconcileInv => VerdictsHaveAReason
  BY WaitsOutlastReads, WatchdogHasAReason, IndexerHasAReason DEF VerdictsHaveAReason
<1> QED BY <1>1, <1>2, <1>3, PTL DEF EdgesSpec
-----------------------------------------------------------------------------
(* Indexer *)

\* One event of a chunk.
IngestStep(t, i, from, to) ==
    IF i < from \/ i > to THEN t
    ELSE [OnBscEvent(t, bscLog[i], i \notin t.bscLogs) EXCEPT !.bscLogs = @ \cup {i}]
Numbered == [i \in DOMAIN bscLog |-> i]
IngestRuns(from, to) ==
    CHOOSE g : g = [s \in SUBSET DOMAIN Numbered |->
                       IF s = {} THEN db ELSE IngestStep(g[s \ {Max(s)}], Numbered[Max(s)], from, to)]

LEMMA IngestIsARun ==
    ASSUME NEW from, NEW to PROVE IngestBsc(from, to) = IngestRuns(from, to)[DOMAIN Numbered]
BY Zenon DEF IngestBsc, FoldLeftDomain, FoldLeft, MapThenFoldSet, IngestRuns, IngestStep, Numbered

\* The fold has a value: over the events below any number, and so over all of them.
LEMMA IngestRunsExist ==
    ASSUME NEW from, NEW to, IsFiniteSet(DOMAIN Numbered),
           \A s \in SUBSET DOMAIN Numbered : s # {} => Max(s) \in s
    PROVE  /\ DOMAIN IngestRuns(from, to) = SUBSET DOMAIN Numbered
           /\ \A s \in SUBSET DOMAIN Numbered :
                 IngestRuns(from, to)[s] =
                    IF s = {} THEN db ELSE IngestStep(IngestRuns(from, to)[s \ {Max(s)}], Numbered[Max(s)], from, to)
<1> DEFINE S == DOMAIN Numbered
           Below(k) == {s \in SUBSET S : Cardinality(s) <= k}
           Solved == {k \in Nat : \E g : g = [s \in Below(k) |->
                         IF s = {} THEN db ELSE IngestStep(g[s \ {Max(s)}], Numbered[Max(s)], from, to)]}
           Open == Nat \ Solved
<1>1. ASSUME NEW s \in SUBSET S
      PROVE  IsFiniteSet(s) /\ Cardinality(s) \in Nat /\ (Cardinality(s) = 0 <=> s = {})
  BY FS_Subset, FS_CardinalityType, FS_EmptySet
<1>2. ASSUME NEW s \in SUBSET S, s # {}
      PROVE  s \ {Max(s)} \in SUBSET S /\ Cardinality(s \ {Max(s)}) = Cardinality(s) - 1
  BY <1>1, <1>2, FS_RemoveElement
<1>3. 0 \in Solved
  <2> DEFINE g == [s \in Below(0) |-> db]
  <2>1. \A s \in Below(0) : s = {}
    BY <1>1
  <2>2. g = [s \in Below(0) |-> IF s = {} THEN db ELSE IngestStep(g[s \ {Max(s)}], Numbered[Max(s)], from, to)]
    BY <2>1
  <2> QED BY <2>2
<1>4. ASSUME NEW k \in Solved PROVE k + 1 \in Solved
  <2>1. PICK g : g = [s \in Below(k) |->
                         IF s = {} THEN db ELSE IngestStep(g[s \ {Max(s)}], Numbered[Max(s)], from, to)]
    OBVIOUS
  <2> DEFINE h == [s \in Below(k + 1) |->
                         IF s = {} THEN db ELSE IngestStep(g[s \ {Max(s)}], Numbered[Max(s)], from, to)]
  <2>2. ASSUME NEW s \in Below(k) PROVE h[s] = g[s]
    <3>1. s \in Below(k + 1)
      BY <1>1
    <3>2. g[s] = IF s = {} THEN db ELSE IngestStep(g[s \ {Max(s)}], Numbered[Max(s)], from, to)
      BY <2>1, Zenon
    <3> QED BY <3>1, <3>2
  <2>3. ASSUME NEW s \in Below(k + 1), s # {} PROVE h[s \ {Max(s)}] = g[s \ {Max(s)}]
    <3>1. s \ {Max(s)} \in Below(k)
      BY <1>1, <1>2, <2>3
    <3> QED BY <2>2, <3>1
  <2>4. h = [s \in Below(k + 1) |-> IF s = {} THEN db ELSE IngestStep(h[s \ {Max(s)}], Numbered[Max(s)], from, to)]
    BY <2>3, Zenon
  <2>5. k + 1 \in Nat
    OBVIOUS
  <2> HIDE DEF h
  <2> QED BY <2>4, <2>5
<1>5. Open = {}
  <2>1. SUFFICES ASSUME Open # {} PROVE FALSE
    OBVIOUS
  <2>2. PICK k \in Open : \A j \in Open : k <= j
    <3> HIDE DEF Solved
    <3> QED BY <2>1, LeastMember
  <2>3. k # 0 /\ k \in Nat
    BY <1>3
  <2>4. k - 1 \in Solved
    <3> HIDE DEF Solved
    <3> QED BY <2>2, <2>3
  <2>5. k - 1 + 1 \in Solved
    BY <1>4, <2>4
  <2> HIDE DEF Solved
  <2> QED BY <2>3, <2>5
<1>6. Cardinality(S) \in Solved
  BY <1>1, <1>5
<1>7. Below(Cardinality(S)) = SUBSET S
  BY FS_Subset
<1>8. \E g : g = [s \in SUBSET S |-> IF s = {} THEN db ELSE IngestStep(g[s \ {Max(s)}], Numbered[Max(s)], from, to)]
  BY <1>6, <1>7
<1>9. IngestRuns(from, to) = [s \in SUBSET S |->
          IF s = {} THEN db ELSE IngestStep(IngestRuns(from, to)[s \ {Max(s)}], Numbered[Max(s)], from, to)]
  BY <1>8, Zenon DEF IngestRuns
<1> QED BY <1>9, Zenon

\* What every event keeps, one after the other, a chunk keeps: Q[k] is what holds after k events.
LEMMA IngestKeeps ==
    ASSUME NEW n \in Nat, DOMAIN bscLog = 1..n, NEW from, NEW to, NEW Q, db \in Q[0],
           ASSUME NEW k \in 1..n, NEW t \in Q[k - 1] PROVE IngestStep(t, k, from, to) \in Q[k]
    PROVE  IngestBsc(from, to) \in Q[n]
<1> DEFINE g == IngestRuns(from, to)
           Bad == {k \in 0..n : g[1..k] \notin Q[k]}
<1>1. DOMAIN Numbered = 1..n /\ IsFiniteSet(1..n) /\ \A k \in 1..n : Numbered[k] = k
  BY FS_Interval DEF Numbered
<1>2. ASSUME NEW s \in SUBSET (1..n), s # {} PROVE Max(s) \in s /\ \A j \in s : j <= Max(s)
  <2>1. PICK m \in s : \A j \in s : j <= m
    <3>1. s \in SUBSET (0..n)
      OBVIOUS
    <3> QED BY <1>2, <3>1, GreatestMember
  <2>2. m \in s /\ \A j \in s : m >= j
    BY <2>1
  <2> QED BY <2>2 DEF Max
<1>3. \A s \in SUBSET (1..n) : g[s] = IF s = {} THEN db ELSE IngestStep(g[s \ {Max(s)}], Numbered[Max(s)], from, to)
  BY ZenonT(60), <1>1, <1>2, IngestRunsExist
<1>4. g[1..0] = db
  <2>1. 1..0 = {}
    OBVIOUS
  <2> QED BY <1>3, <2>1
<1>5. ASSUME NEW k \in 1..n PROVE g[1..k] = IngestStep(g[1..k - 1], k, from, to)
  <2>1. 1..k \in SUBSET (1..n) /\ 1..k # {} /\ k \in 1..k
    <3>1. k \in 1..n
      OBVIOUS
    <3> QED BY ONLY <3>1, n \in Nat
  <2>2. Max(1..k) = k
    <3>1. Max(1..k) \in 1..k /\ k <= Max(1..k)
      BY <1>2, <2>1
    <3> QED BY <3>1
  <2>3. (1..k) \ {k} = 1..k - 1
    OBVIOUS
  <2> HIDE DEF g
  <2> QED BY <1>1, <1>3, <2>1, <2>2, <2>3
<1>6. Bad = {}
  <2>1. SUFFICES ASSUME Bad # {} PROVE FALSE
    OBVIOUS
  <2>2. PICK k \in Bad : \A j \in Bad : k <= j
    <3>1. Bad \in SUBSET Nat
      OBVIOUS
    <3> HIDE DEF Bad
    <3> QED BY <2>1, <3>1, LeastMember
  <2>3. k # 0 /\ k \in 1..n
    BY <1>4
  <2>4. k - 1 \in 0..n /\ k - 1 \notin Bad
    <3>1. k - 1 \in 0..n /\ ~(k <= k - 1)
      BY <2>3
    <3> HIDE DEF Bad
    <3> QED BY <2>2, <3>1
  <2>5. g[1..k - 1] \in Q[k - 1]
    BY <2>4
  <2> HIDE DEF g
  <2>6. g[1..k] \in Q[k]
    BY <1>5, <2>3, <2>5
  <2> QED BY <2>2, <2>6
<1>7. g[1..n] \in Q[n]
  BY <1>6
<1> QED BY <1>1, <1>7, IngestIsARun

-----------------------------------------------------------------------------
AnchorStates == {"NONE", "POSTED", "FINAL", "VETOED"}
ExitRow == [seen : BOOLEAN, born : Nat, anchor : Int, claimed : BOOLEAN]
Tables == [layerLogs : SUBSET Nat, bscLogs : SUBSET Nat, txs : SUBSET Nat, deposits : SUBSET Nat,
           filled : SUBSET Nat, exits : [Exits -> ExitRow], state : [IndexedEpochs -> AnchorStates],
           through : [IndexedEpochs -> Nat], agent : BOOLEAN, credited : Nat, exited : Nat, deploys : Nat,
           announces : Nat, feed : SUBSET Nat, anchored : SUBSET Nat]

\* What an event of BSC does to the row of an exit.
RowAfter(r, s, x, ev) ==
    \/ s = r /\ (ev.kind = "vetoed" /\ r.anchor = ev.id => r.claimed)
    \/ ev.kind = "posted" /\ r.anchor = -1 /\ s.anchor = ev.id /\ s.claimed = r.claimed /\ x \in RootOf(ev.id)
    \/ ev.kind = "vetoed" /\ s.anchor = -1 /\ ~r.claimed /\ s.claimed = r.claimed
    \/ ev.kind = "claimed" /\ x = ev.id /\ s.claimed /\ s.anchor = ev.epoch

\* What it does to all the tables.
EventWrites(t, s, ev, fresh) ==
    /\ s \in Tables
    /\ s.layerLogs = t.layerLogs /\ s.bscLogs = t.bscLogs /\ s.txs = t.txs /\ s.filled = t.filled
    /\ s.deploys = t.deploys /\ s.announces = t.announces /\ s.feed = t.feed /\ s.anchored = t.anchored
    /\ s.credited = t.credited + (IF fresh /\ ev.kind = "locked" THEN 1 ELSE 0)
    /\ s.exited = t.exited + (IF fresh /\ ev.kind = "claimed" THEN 1 ELSE 0)
    /\ \A e \in IndexedEpochs : s.state[e] = "FINAL" => t.state[e] = "FINAL" \/ (ev.kind = "final" /\ ev.id = e)
    /\ \A e \in IndexedEpochs : s.through[e] \in {t.through[e], chains.endOf[e]}
    /\ \A x \in Exits : RowAfter(t.exits[x], s.exits[x], x, ev)

LEMMA OneType == ASSUME NEW fresh \in BOOLEAN PROVE One(fresh) = (IF fresh THEN 1 ELSE 0) /\ One(fresh) \in Nat
BY DEF One

LEMMA LockedWrites ==
    ASSUME NEW t \in Tables, NEW ev \in BscEvents, NEW fresh \in BOOLEAN, ev.kind = "locked"
    PROVE  EventWrites(t, OnBscEvent(t, ev, fresh), ev, fresh)
<1> DEFINE n == t.credited + One(fresh)
           ds == t.deposits \cup {ev.id}
           s == [[t EXCEPT !.deposits = ds] EXCEPT !.agent = TRUE, !.credited = n]
<1>1. n \in Nat /\ n = t.credited + (IF fresh THEN 1 ELSE 0)
  BY OneType DEF Tables
<1>2. ds \in SUBSET Nat
  BY DEF Tables, BscEvents, EventsOf
<1>3. OnBscEvent(t, ev, fresh) = s
  BY DEF OnBscEvent, RowUpdated, Tables
<1> HIDE DEF n, ds
<1>4. s \in Tables
  BY <1>1, <1>2 DEF Tables
<1>5. /\ s.layerLogs = t.layerLogs /\ s.bscLogs = t.bscLogs /\ s.txs = t.txs /\ s.filled = t.filled
      /\ s.deploys = t.deploys /\ s.announces = t.announces /\ s.feed = t.feed /\ s.anchored = t.anchored
      /\ s.credited = n /\ s.exited = t.exited /\ s.state = t.state /\ s.through = t.through /\ s.exits = t.exits
  BY DEF Tables
<1>6. t.exited \in Nat
  BY DEF Tables
<1> HIDE DEF s
<1> QED BY <1>1, <1>3, <1>4, <1>5, <1>6 DEF EventWrites, RowAfter

LEMMA FinalWrites ==
    ASSUME NEW t \in Tables, NEW ev \in BscEvents, NEW fresh \in BOOLEAN, ev.kind = "final"
    PROVE  EventWrites(t, OnBscEvent(t, ev, fresh), ev, fresh)
<1> DEFINE st == [t.state EXCEPT ![ev.id] = "FINAL"]
           s == [t EXCEPT !.state = st]
<1>1. t.state \in [IndexedEpochs -> AnchorStates] /\ t.credited \in Nat /\ t.exited \in Nat
  BY DEF Tables
<1>2. st \in [IndexedEpochs -> AnchorStates]
  BY <1>1 DEF AnchorStates
<1>3. OnBscEvent(t, ev, fresh) = s
  BY DEF OnBscEvent
<1>4. \A e \in IndexedEpochs : st[e] = "FINAL" => t.state[e] = "FINAL" \/ ev.id = e
  BY <1>1
<1> HIDE DEF st
<1>5. s \in Tables
  BY <1>2 DEF Tables
<1>6. /\ s.layerLogs = t.layerLogs /\ s.bscLogs = t.bscLogs /\ s.txs = t.txs /\ s.filled = t.filled
      /\ s.deploys = t.deploys /\ s.announces = t.announces /\ s.feed = t.feed /\ s.anchored = t.anchored
      /\ s.credited = t.credited /\ s.exited = t.exited /\ s.state = st /\ s.through = t.through /\ s.exits = t.exits
  BY DEF Tables
<1> HIDE DEF s
<1> QED BY <1>1, <1>3, <1>4, <1>5, <1>6 DEF EventWrites, RowAfter

LEMMA VetoedWrites ==
    ASSUME NEW t \in Tables, NEW ev \in BscEvents, NEW fresh \in BOOLEAN, ev.kind = "vetoed"
    PROVE  EventWrites(t, OnBscEvent(t, ev, fresh), ev, fresh)
<1> DEFINE st == [t.state EXCEPT ![ev.id] = "VETOED"]
           xs == Unfiled(t, ev.id)
           s == [t EXCEPT !.state = st, !.exits = xs]
<1>1. t.state \in [IndexedEpochs -> AnchorStates] /\ t.credited \in Nat /\ t.exited \in Nat /\ t.exits \in [Exits -> ExitRow]
  BY DEF Tables
<1>2. st \in [IndexedEpochs -> AnchorStates]
  BY <1>1 DEF AnchorStates
<1>3. OnBscEvent(t, ev, fresh) = s
  BY DEF OnBscEvent
<1>4. \A e \in IndexedEpochs : st[e] = "FINAL" => t.state[e] = "FINAL"
  BY <1>1
<1>5. xs \in [Exits -> ExitRow]
  BY <1>1 DEF Unfiled, ExitRow
<1>6. ASSUME NEW x \in Exits PROVE RowAfter(t.exits[x], xs[x], x, ev)
  <2>1. t.exits[x] \in ExitRow
    BY <1>1
  <2>2. xs[x] = IF t.exits[x].anchor = ev.id /\ ~t.exits[x].claimed THEN [t.exits[x] EXCEPT !.anchor = -1] ELSE t.exits[x]
    BY DEF Unfiled
  <2>3. CASE t.exits[x].anchor = ev.id /\ ~t.exits[x].claimed
    <3>1. xs[x] = [t.exits[x] EXCEPT !.anchor = -1]
      BY <2>2, <2>3
    <3>2. xs[x].anchor = -1 /\ xs[x].claimed = t.exits[x].claimed
      BY <2>1, <3>1 DEF ExitRow
    <3> QED BY <2>3, <3>2 DEF RowAfter
  <2>4. CASE ~(t.exits[x].anchor = ev.id /\ ~t.exits[x].claimed)
    BY <2>2, <2>4 DEF RowAfter
  <2> QED BY <2>3, <2>4
<1> HIDE DEF st, xs
<1>7. s \in Tables
  BY <1>2, <1>5 DEF Tables
<1>8. /\ s.layerLogs = t.layerLogs /\ s.bscLogs = t.bscLogs /\ s.txs = t.txs /\ s.filled = t.filled
      /\ s.deploys = t.deploys /\ s.announces = t.announces /\ s.feed = t.feed /\ s.anchored = t.anchored
      /\ s.credited = t.credited /\ s.exited = t.exited /\ s.state = st /\ s.through = t.through /\ s.exits = xs
  BY DEF Tables
<1> HIDE DEF s
<1> QED BY <1>1, <1>3, <1>4, <1>6, <1>7, <1>8 DEF EventWrites

LEMMA ClaimedWrites ==
    ASSUME NEW t \in Tables, NEW ev \in BscEvents, NEW fresh \in BOOLEAN, ev.kind = "claimed"
    PROVE  EventWrites(t, OnBscEvent(t, ev, fresh), ev, fresh)
<1> DEFINE r == t.exits[ev.id]
           row == IF r.seen THEN [[r EXCEPT !.claimed = TRUE] EXCEPT !.anchor = ev.epoch] ELSE r
           xs == [t.exits EXCEPT ![ev.id] = row]
           n == t.exited + One(fresh)
           s == [t EXCEPT !.exits = xs, !.exited = n]
<1>1. t.credited \in Nat /\ t.exited \in Nat /\ t.exits \in [Exits -> ExitRow] /\ ev.epoch \in Nat
  BY DEF Tables, BscEvents, EventsOf
<1>2. n \in Nat /\ n = t.exited + (IF fresh THEN 1 ELSE 0)
  BY <1>1, OneType
<1>3. OnBscEvent(t, ev, fresh) = s
  BY DEF OnBscEvent
<1>4. ASSUME ev.id \in Exits PROVE row \in ExitRow /\ RowAfter(r, row, ev.id, ev)
  <2>1. r \in ExitRow
    BY <1>1, <1>4
  <2>2. CASE r.seen
    <3>1. row = [[r EXCEPT !.claimed = TRUE] EXCEPT !.anchor = ev.epoch]
      BY <2>2
    <3> DEFINE mid == [r EXCEPT !.claimed = TRUE]
    <3>2. mid \in ExitRow /\ mid.claimed
      <4> HIDE DEF r
      <4> QED BY <2>1 DEF ExitRow
    <3>3. row = [mid EXCEPT !.anchor = ev.epoch]
      BY <3>1
    <3> HIDE DEF mid, row
    <3>4. row \in ExitRow /\ row.claimed /\ row.anchor = ev.epoch
      BY <1>1, <3>2, <3>3 DEF ExitRow
    <3> QED BY <3>4 DEF RowAfter
  <2>3. CASE ~r.seen
    BY <2>1, <2>3 DEF RowAfter
  <2> QED BY <2>2, <2>3
<1> HIDE DEF row, n
<1>5. xs \in [Exits -> ExitRow]
  BY <1>1, <1>4
<1>6. ASSUME NEW x \in Exits PROVE RowAfter(t.exits[x], xs[x], x, ev)
  <2>1. CASE x = ev.id
    <3>1. xs[x] = row
      BY <1>1, <2>1
    <3> QED BY <1>4, <2>1, <3>1
  <2>2. CASE x # ev.id
    <3>1. xs[x] = t.exits[x]
      BY <1>1, <2>2
    <3> QED BY <3>1 DEF RowAfter
  <2> QED BY <2>1, <2>2
<1> HIDE DEF xs
<1>7. s \in Tables
  BY <1>2, <1>5 DEF Tables
<1>8. /\ s.layerLogs = t.layerLogs /\ s.bscLogs = t.bscLogs /\ s.txs = t.txs /\ s.filled = t.filled
      /\ s.deploys = t.deploys /\ s.announces = t.announces /\ s.feed = t.feed /\ s.anchored = t.anchored
      /\ s.credited = t.credited /\ s.exited = n /\ s.state = t.state /\ s.through = t.through /\ s.exits = xs
  BY DEF Tables
<1> HIDE DEF s
<1> QED BY <1>1, <1>2, <1>3, <1>6, <1>7, <1>8 DEF EventWrites

LEMMA PostedWrites ==
    ASSUME NEW t \in Tables, NEW ev \in BscEvents, NEW fresh \in BOOLEAN, ev.kind = "posted",
           chains.endOf \in [IndexedEpochs -> Nat]
    PROVE  EventWrites(t, OnBscEvent(t, ev, fresh), ev, fresh)
<1> DEFINE e == ev.id
           st == [t.state EXCEPT ![e] = "POSTED"]
           th == [t.through EXCEPT ![e] = chains.endOf[e]]
           mid == [t EXCEPT !.state = st, !.through = th]
           s == OnBscEvent(t, ev, fresh)
<1>1. /\ t.state \in [IndexedEpochs -> AnchorStates] /\ t.through \in [IndexedEpochs -> Nat]
      /\ t.credited \in Nat /\ t.exited \in Nat /\ t.exits \in [Exits -> ExitRow] /\ e \in Nat
  BY DEF Tables, BscEvents, EventsOf
<1>2. st \in [IndexedEpochs -> AnchorStates] /\ \A d \in IndexedEpochs : st[d] = "FINAL" => t.state[d] = "FINAL"
  BY <1>1 DEF AnchorStates
<1>3. th \in [IndexedEpochs -> Nat] /\ \A d \in IndexedEpochs : th[d] \in {t.through[d], chains.endOf[d]}
  BY <1>1
<1>4. s = AssignAnchorEpoch(mid, e)
  BY DEF OnBscEvent
<1> SUFFICES EventWrites(t, s, ev, fresh)
  OBVIOUS
<1> HIDE DEF st, th, s
<1>5. mid \in Tables
  BY <1>2, <1>3 DEF Tables
<1>6. /\ mid.layerLogs = t.layerLogs /\ mid.bscLogs = t.bscLogs /\ mid.txs = t.txs /\ mid.filled = t.filled
      /\ mid.deploys = t.deploys /\ mid.announces = t.announces /\ mid.feed = t.feed /\ mid.anchored = t.anchored
      /\ mid.credited = t.credited /\ mid.exited = t.exited /\ mid.state = st /\ mid.through = th /\ mid.exits = t.exits
  BY DEF Tables
<1> HIDE DEF mid
<1> DEFINE candidates == {x \in Exits : mid.exits[x].seen /\ mid.exits[x].anchor = -1 /\ mid.exits[x].born <= e}
           chosen == {x \in candidates : Cardinality({y \in candidates : y < x}) < Cardinality(RootOf(e))}
           xs == [x \in Exits |-> IF x \in chosen THEN [mid.exits[x] EXCEPT !.anchor = e] ELSE mid.exits[x]]
<1>7. s = mid \/ (chosen = RootOf(e) /\ s = [mid EXCEPT !.exits = xs])
  BY <1>4 DEF AssignAnchorEpoch, RootsMatch
<1>8. CASE s = mid
  <2>1. ev.kind # "vetoed" /\ ev.kind # "locked" /\ ev.kind # "claimed"
    OBVIOUS
  <2>2. \A x \in Exits : RowAfter(t.exits[x], s.exits[x], x, ev)
    BY <1>6, <1>8, <2>1 DEF RowAfter
  <2> QED BY <1>1, <1>2, <1>3, <1>5, <1>6, <1>8, <2>1, <2>2 DEF EventWrites
<1>9. CASE chosen = RootOf(e) /\ s = [mid EXCEPT !.exits = xs]
  <2>1. ASSUME NEW x \in Exits PROVE xs[x] \in ExitRow /\ RowAfter(t.exits[x], xs[x], x, ev)
    <3>1. t.exits[x] \in ExitRow /\ mid.exits[x] = t.exits[x]
      BY <1>1, <1>6
    <3>2. CASE x \in chosen
      <4>1. xs[x] = [t.exits[x] EXCEPT !.anchor = e]
        BY <3>1, <3>2
      <4>2. t.exits[x].anchor = -1
        BY <3>1, <3>2
      <4>3. x \in RootOf(e)
        BY <1>9, <3>2
      <4>4. xs[x] \in ExitRow /\ xs[x].anchor = e /\ xs[x].claimed = t.exits[x].claimed
        <5> HIDE DEF xs
        <5> QED BY <1>1, <3>1, <4>1 DEF ExitRow
      <4> QED BY <4>2, <4>3, <4>4 DEF RowAfter
    <3>3. CASE x \notin chosen
      <4>1. xs[x] = t.exits[x]
        BY <3>1, <3>3
      <4> QED BY <3>1, <4>1 DEF RowAfter
    <3> QED BY <3>2, <3>3
  <2>2. xs \in [Exits -> ExitRow]
    BY <2>1
  <2> HIDE DEF xs
  <2>3. s \in Tables
    BY <1>5, <1>9, <2>2 DEF Tables
  <2>4. /\ s.layerLogs = t.layerLogs /\ s.bscLogs = t.bscLogs /\ s.txs = t.txs /\ s.filled = t.filled
        /\ s.deploys = t.deploys /\ s.announces = t.announces /\ s.feed = t.feed /\ s.anchored = t.anchored
        /\ s.credited = t.credited /\ s.exited = t.exited /\ s.state = st /\ s.through = th /\ s.exits = xs
    BY <1>5, <1>6, <1>9 DEF Tables
  <2>5. ev.kind # "locked" /\ ev.kind # "claimed" /\ ev.kind # "final"
    OBVIOUS
  <2>6. \A x \in Exits : RowAfter(t.exits[x], s.exits[x], x, ev)
    BY <2>1, <2>4
  <2> QED BY <1>1, <1>2, <1>3, <2>3, <2>4, <2>5, <2>6 DEF EventWrites
<1> QED BY <1>7, <1>8, <1>9

LEMMA EventWritesThis ==
    ASSUME NEW t \in Tables, NEW ev \in BscEvents, NEW fresh \in BOOLEAN, chains.endOf \in [IndexedEpochs -> Nat]
    PROVE  EventWrites(t, OnBscEvent(t, ev, fresh), ev, fresh)
<1>1. ev.kind \in {"locked", "posted", "final", "vetoed", "claimed"}
  BY DEF BscEvents, EventsOf
<1> QED BY <1>1, LockedWrites, PostedWrites, FinalWrites, VetoedWrites, ClaimedWrites

-----------------------------------------------------------------------------
Final(h, e) == \E ev \in Range(h.bsc) : ev.kind = "final" /\ ev.id = e
Kinds(h, S, c) == {i \in S : h[i].kind = c}

\* A row of an exit is under an anchor it is a leaf of, and under a final one once it is claimed.
RowFits(h, r, x) ==
    /\ r.anchor # -1 => x \in ItsRoot(h, r.anchor)
    /\ r.claimed => r.anchor # -1 /\ Final(h, r.anchor)

\* The tables say of a history what is in it.
Fits(h, t) ==
    /\ t.bscLogs \subseteq 1..Len(h.bsc)
    /\ t.layerLogs \subseteq 1..Len(h.layer) /\ t.txs \subseteq 1..Len(h.layer) /\ t.feed \subseteq 1..Len(h.layer)
    /\ t.credited = Cardinality(Kinds(h.bsc, t.bscLogs, "locked"))
    /\ t.exited = Cardinality(Kinds(h.bsc, t.bscLogs, "claimed"))
    /\ t.deploys <= Cardinality(Kinds(h.layer, t.txs, "act"))
    /\ t.announces <= Cardinality(Kinds(h.layer, t.layerLogs, "act"))
    /\ \A x \in Exits : RowFits(h, t.exits[x], x)
    /\ \A e \in IndexedEpochs : (t.state[e] = "FINAL" => Final(h, e)) /\ t.through[e] \in {0, h.endOf[e]}
    /\ \A n \in t.anchored : \E e \in IndexedEpochs : Final(h, e) /\ n <= h.endOf[e]

\* The first k events of BSC are in the tables, and what they vetoed holds nothing.
UpTo(h, t, k) ==
    /\ 1..k \subseteq t.bscLogs
    /\ \A x \in Exits, i \in 1..k : h.bsc[i].kind = "vetoed" => t.exits[x].anchor # h.bsc[i].id

\* What was filled or claimed stays so.
Keeps(t, s) == t.filled \subseteq s.filled /\ \A x \in Exits : t.exits[x].claimed => s.exits[x].claimed

\* A log recorded counts once more if it is of the kind and was not recorded before.
LEMMA CountRecorded ==
    ASSUME NEW f, NEW S, IsFiniteSet(S), NEW k, NEW c
    PROVE  /\ Cardinality(Kinds(f, S, c)) \in Nat
           /\ Cardinality(Kinds(f, S \cup {k}, c)) =
                 Cardinality(Kinds(f, S, c)) + (IF k \notin S /\ f[k].kind = c THEN 1 ELSE 0)
<1>1. IsFiniteSet(Kinds(f, S, c))
  <2>1. Kinds(f, S, c) \subseteq S
    BY DEF Kinds
  <2> QED BY <2>1, FS_Subset
<1>2. Cardinality(Kinds(f, S, c)) \in Nat
  BY <1>1, FS_CardinalityType
<1>3. CASE k \notin S /\ f[k].kind = c
  <2>1. Kinds(f, S \cup {k}, c) = Kinds(f, S, c) \cup {k} /\ k \notin Kinds(f, S, c)
    BY <1>3 DEF Kinds
  <2> QED BY <1>1, <1>2, <1>3, <2>1, FS_AddElement
<1>4. CASE ~(k \notin S /\ f[k].kind = c)
  <2>1. Kinds(f, S \cup {k}, c) = Kinds(f, S, c)
    BY <1>4 DEF Kinds
  <2> QED BY <1>2, <1>4, <2>1
<1> QED BY <1>3, <1>4

\* The contracts resolve an epoch once: what is vetoed is never final, and posted only before its veto.
LEMMA VetoedForGood ==
    ASSUME NEW h, Legal(h), NEW i \in DOMAIN h.bsc, h.bsc[i].kind = "vetoed"
    PROVE  /\ ~Final(h, h.bsc[i].id)
           /\ \A j \in DOMAIN h.bsc : h.bsc[j].kind = "posted" /\ h.bsc[j].id = h.bsc[i].id => j < i
<1>1. ASSUME NEW j \in DOMAIN h.bsc, h.bsc[j].kind \in {"posted", "final", "vetoed"}, h.bsc[j].id = h.bsc[i].id, i # j
      PROVE  j < i /\ h.bsc[j].kind = "posted"
  BY <1>1 DEF Legal
<1>2. ASSUME NEW j \in DOMAIN h.bsc, h.bsc[j].kind = "posted", h.bsc[j].id = h.bsc[i].id PROVE j < i
  <2>1. i # j
    BY <1>2
  <2> QED BY <1>1, <1>2, <2>1
<1>3. ASSUME Final(h, h.bsc[i].id) PROVE FALSE
  <2>1. PICK j \in DOMAIN h.bsc : h.bsc[j].kind = "final" /\ h.bsc[j].id = h.bsc[i].id
    BY <1>3 DEF Final, Range
  <2>2. i # j
    BY <2>1
  <2> QED BY <1>1, <2>1, <2>2
<1> QED BY <1>2, <1>3

LEMMA ClaimedIsFinal ==
    ASSUME NEW h, Legal(h), NEW i \in DOMAIN h.bsc, h.bsc[i].kind = "claimed", DOMAIN h.bsc = 1..Len(h.bsc), Len(h.bsc) \in Nat
    PROVE  h.bsc[i].id \in ItsRoot(h, h.bsc[i].epoch) /\ Final(h, h.bsc[i].epoch)
<1>1. h.bsc[i].id \in ItsRoot(h, h.bsc[i].epoch)
  BY DEF Legal
<1>2. \E j \in 1..i : h.bsc[j].kind = "final" /\ h.bsc[j].id = h.bsc[i].epoch
  BY DEF Legal
<1>3. 1..i \subseteq DOMAIN h.bsc
  OBVIOUS
<1> QED BY <1>1, <1>2, <1>3 DEF Final, Range

\* A row an event wrote still fits.
LEMMA RowStillFits ==
    ASSUME NEW h, Legal(h), NEW k \in DOMAIN h.bsc, h.bsc \in Seq(BscEvents), NEW x \in Exits,
           NEW r \in ExitRow, NEW s \in ExitRow, RowFits(h, r, x), RowAfter(r, s, x, h.bsc[k]),
           h = chains
    PROVE  RowFits(h, s, x) /\ (r.claimed => s.claimed)
<1> DEFINE ev == h.bsc[k]
<1>0. DOMAIN h.bsc = 1..Len(h.bsc) /\ Len(h.bsc) \in Nat /\ ev.id \in Nat /\ ev.epoch \in Nat
  <2>1. DOMAIN h.bsc = 1..Len(h.bsc) /\ Len(h.bsc) \in Nat /\ ev \in BscEvents
    OBVIOUS
  <2> QED BY <2>1 DEF BscEvents, EventsOf
<1>1. CASE s = r
  BY <1>1
<1>2. CASE ev.kind = "posted" /\ r.anchor = -1 /\ s.anchor = ev.id /\ s.claimed = r.claimed /\ x \in RootOf(ev.id)
  BY <1>2 DEF RowFits, RootOf
<1>3. CASE ev.kind = "vetoed" /\ s.anchor = -1 /\ ~r.claimed /\ s.claimed = r.claimed
  BY <1>3 DEF RowFits
<1>4. CASE ev.kind = "claimed" /\ x = ev.id /\ s.claimed /\ s.anchor = ev.epoch
  BY <1>0, <1>4, ClaimedIsFinal DEF RowFits
<1> QED BY <1>1, <1>2, <1>3, <1>4 DEF RowAfter

\* Nor is it left under an epoch vetoed so far.
LEMMA RowNotVetoed ==
    ASSUME NEW h, Legal(h), NEW k \in DOMAIN h.bsc, h.bsc \in Seq(BscEvents), NEW x \in Exits,
           NEW r \in ExitRow, NEW s \in ExitRow, RowFits(h, r, x), RowAfter(r, s, x, h.bsc[k]),
           NEW i \in 1..k, h.bsc[i].kind = "vetoed", i # k => r.anchor # h.bsc[i].id
    PROVE  s.anchor # h.bsc[i].id
<1> DEFINE ev == h.bsc[k]
<1>0. /\ DOMAIN h.bsc = 1..Len(h.bsc) /\ Len(h.bsc) \in Nat /\ ev.id \in Nat /\ ev.epoch \in Nat
      /\ i \in DOMAIN h.bsc /\ k \in Nat
  <2>1. DOMAIN h.bsc = 1..Len(h.bsc) /\ Len(h.bsc) \in Nat /\ h.bsc[k] \in BscEvents
    OBVIOUS
  <2>2. i \in 1..Len(h.bsc) /\ k \in Nat
    BY <2>1
  <2> QED BY <2>1, <2>2 DEF BscEvents, EventsOf
<1>1. ~Final(h, h.bsc[i].id) /\ (ev.kind = "posted" /\ ev.id = h.bsc[i].id => k < i)
  BY <1>0, VetoedForGood
<1>2. h.bsc[i].id \in Nat
  <2>1. h.bsc[i] \in BscEvents
    BY <1>0
  <2> QED BY <2>1 DEF BscEvents, EventsOf
<1>3. CASE s = r /\ (ev.kind = "vetoed" /\ r.anchor = ev.id => r.claimed)
  <2>1. CASE i # k
    BY <1>3, <2>1
  <2>2. CASE i = k
    BY <1>1, <1>3, <2>2 DEF RowFits
  <2> QED BY <2>1, <2>2
<1>4. CASE ev.kind = "posted" /\ s.anchor = ev.id
  BY <1>0, <1>1, <1>4
<1>5. CASE s.anchor = -1
  BY <1>2, <1>5
<1>6. CASE ev.kind = "claimed" /\ s.anchor = ev.epoch
  BY <1>0, <1>1, <1>6, ClaimedIsFinal
<1> QED BY <1>3, <1>4, <1>5, <1>6 DEF RowAfter

\* One event of BSC, stored.
LEMMA StoredFits ==
    ASSUME Legal(chains), NEW k \in DOMAIN bscLog, NEW t \in Tables, Fits(chains, t),
           NEW s, s = [OnBscEvent(t, bscLog[k], k \notin t.bscLogs) EXCEPT !.bscLogs = @ \cup {k}]
    PROVE  /\ s \in Tables /\ Fits(chains, s) /\ Keeps(t, s)
           /\ UpTo(chains, t, k - 1) => UpTo(chains, s, k)
<1> DEFINE h == chains
           ev == bscLog[k]
           fresh == k \notin t.bscLogs
           m == OnBscEvent(t, ev, fresh)
           logs == m.bscLogs \cup {k}
<1>1. /\ h.bsc \in Seq(BscEvents) /\ h.layer \in Seq(LayerEvents) /\ h.endOf \in [IndexedEpochs -> Nat]
      /\ bscLog = h.bsc /\ layerLog = h.layer /\ fresh \in BOOLEAN
  BY DEF Legal, bscLog, layerLog
<1>2. DOMAIN h.bsc = 1..Len(h.bsc) /\ Len(h.bsc) \in Nat /\ ev \in BscEvents /\ k \in 1..Len(h.bsc)
  BY <1>1
<1>3. EventWrites(t, m, ev, fresh)
  BY <1>1, <1>2, EventWritesThis
<1>4. s = [m EXCEPT !.bscLogs = logs]
  OBVIOUS
<1> HIDE DEF m, fresh
<1>5. m \in Tables /\ m.bscLogs = t.bscLogs
  BY <1>3 DEF EventWrites
<1>6. logs = t.bscLogs \cup {k} /\ logs \in SUBSET Nat
  BY <1>2, <1>5 DEF Tables
<1> HIDE DEF logs
<1>7. s \in Tables
  BY <1>4, <1>5, <1>6 DEF Tables
<1>8. /\ s.bscLogs = logs /\ s.layerLogs = t.layerLogs /\ s.txs = t.txs /\ s.filled = t.filled
      /\ s.deploys = t.deploys /\ s.announces = t.announces /\ s.feed = t.feed /\ s.anchored = t.anchored
      /\ s.credited = t.credited + (IF fresh /\ ev.kind = "locked" THEN 1 ELSE 0)
      /\ s.exited = t.exited + (IF fresh /\ ev.kind = "claimed" THEN 1 ELSE 0)
      /\ s.state = m.state /\ s.through = m.through /\ s.exits = m.exits
  BY <1>3, <1>4, <1>5 DEF Tables, EventWrites
<1>9. IsFiniteSet(t.bscLogs)
  <2>1. t.bscLogs \subseteq 1..Len(h.bsc)
    BY DEF Fits
  <2>2. IsFiniteSet(1..Len(h.bsc))
    BY <1>2, FS_Interval
  <2> QED BY <2>1, <2>2, FS_Subset
<1>10. /\ s.credited = Cardinality(Kinds(h.bsc, s.bscLogs, "locked"))
       /\ s.exited = Cardinality(Kinds(h.bsc, s.bscLogs, "claimed"))
  <2>1. t.credited = Cardinality(Kinds(h.bsc, t.bscLogs, "locked")) /\ t.exited = Cardinality(Kinds(h.bsc, t.bscLogs, "claimed"))
    BY DEF Fits
  <2>2. /\ Cardinality(Kinds(h.bsc, logs, "locked")) =
              Cardinality(Kinds(h.bsc, t.bscLogs, "locked")) + (IF k \notin t.bscLogs /\ h.bsc[k].kind = "locked" THEN 1 ELSE 0)
        /\ Cardinality(Kinds(h.bsc, logs, "claimed")) =
              Cardinality(Kinds(h.bsc, t.bscLogs, "claimed")) + (IF k \notin t.bscLogs /\ h.bsc[k].kind = "claimed" THEN 1 ELSE 0)
    BY <1>6, <1>9, CountRecorded
  <2> QED BY <1>1, <1>8, <2>1, <2>2 DEF fresh
<1>11. ASSUME NEW x \in Exits
       PROVE  /\ t.exits[x] \in ExitRow /\ s.exits[x] \in ExitRow /\ RowAfter(t.exits[x], s.exits[x], x, h.bsc[k])
              /\ RowFits(h, t.exits[x], x)
  <2>1. t.exits \in [Exits -> ExitRow] /\ s.exits \in [Exits -> ExitRow]
    BY <1>7 DEF Tables
  <2> QED BY <1>1, <1>3, <1>8, <2>1 DEF EventWrites, Fits
<1>12. ASSUME NEW x \in Exits PROVE RowFits(h, s.exits[x], x) /\ (t.exits[x].claimed => s.exits[x].claimed)
  <2> HIDE DEF h
  <2>1. h = chains
    BY DEF h
  <2>2. Legal(h) /\ k \in DOMAIN h.bsc
    BY <1>1, <2>1
  <2> QED BY <1>1, <1>11, <2>1, <2>2, RowStillFits
<1>13. ASSUME NEW e \in IndexedEpochs PROVE (s.state[e] = "FINAL" => Final(h, e)) /\ s.through[e] \in {0, h.endOf[e]}
  <2>1. (t.state[e] = "FINAL" => Final(h, e)) /\ t.through[e] \in {0, h.endOf[e]}
    BY DEF Fits
  <2>2. s.state[e] = "FINAL" => t.state[e] = "FINAL" \/ (ev.kind = "final" /\ ev.id = e)
    BY <1>3, <1>8 DEF EventWrites
  <2>3. s.through[e] \in {t.through[e], h.endOf[e]}
    BY <1>3, <1>8 DEF EventWrites
  <2>4. ev.kind = "final" /\ ev.id = e => Final(h, e)
    BY <1>1 DEF Final, Range
  <2> QED BY <2>1, <2>2, <2>3, <2>4
<1>14. Fits(chains, s)
  <2>1. /\ t.bscLogs \subseteq 1..Len(h.bsc)
        /\ t.layerLogs \subseteq 1..Len(h.layer) /\ t.txs \subseteq 1..Len(h.layer) /\ t.feed \subseteq 1..Len(h.layer)
        /\ t.deploys <= Cardinality(Kinds(h.layer, t.txs, "act"))
        /\ t.announces <= Cardinality(Kinds(h.layer, t.layerLogs, "act"))
        /\ \A n \in t.anchored : \E e \in IndexedEpochs : Final(h, e) /\ n <= h.endOf[e]
    BY DEF Fits
  <2>2. s.bscLogs \subseteq 1..Len(h.bsc)
    BY <1>2, <1>6, <1>8, <2>1
  <2>3. /\ s.layerLogs \subseteq 1..Len(h.layer) /\ s.txs \subseteq 1..Len(h.layer) /\ s.feed \subseteq 1..Len(h.layer)
        /\ s.deploys <= Cardinality(Kinds(h.layer, s.txs, "act"))
        /\ s.announces <= Cardinality(Kinds(h.layer, s.layerLogs, "act"))
        /\ \A n \in s.anchored : \E e \in IndexedEpochs : Final(h, e) /\ n <= h.endOf[e]
    BY <1>8, <2>1
  <2> QED BY <1>10, <1>12, <1>13, <2>2, <2>3 DEF Fits
<1>15. Keeps(t, s)
  BY <1>8, <1>12 DEF Keeps
<1>16. ASSUME UpTo(chains, t, k - 1) PROVE UpTo(chains, s, k)
  <2>1. 1..k \subseteq s.bscLogs
    <3>1. 1..k - 1 \subseteq t.bscLogs
      BY <1>16 DEF UpTo
    <3> QED BY <1>2, <1>6, <1>8, <3>1
  <2>2. ASSUME NEW x \in Exits, NEW i \in 1..k, h.bsc[i].kind = "vetoed" PROVE s.exits[x].anchor # h.bsc[i].id
    <3>1. i # k => t.exits[x].anchor # h.bsc[i].id
      <4>1. i # k => i \in 1..k - 1
        BY <1>2
      <4> QED BY <1>16, <2>2, <4>1 DEF UpTo
    <3>2. k \in DOMAIN h.bsc
      BY <1>1
    <3> HIDE DEF h
    <3>3. Legal(h)
      BY DEF h
    <3> QED BY SMTT(30), <1>1, <1>11, <2>2, <3>1, <3>2, <3>3, RowNotVetoed
  <2> QED BY <2>1, <2>2 DEF UpTo
<1> QED BY <1>7, <1>14, <1>15, <1>16

\* A function with numbers for values has a greatest one over a finite set.
LEMMA FiniteGreatest ==
    ASSUME NEW S, IsFiniteSet(S), S # {}, NEW f, \A x \in S : f[x] \in Nat
    PROVE  \E m \in S : \A j \in S : f[j] <= f[m]
<1> DEFINE Q == {T \in SUBSET S : T # {} => \E m \in T : \A j \in T : f[j] <= f[m]}
<1>1. {} \in Q
  OBVIOUS
<1>2. ASSUME NEW T \in SUBSET S, T \in Q, NEW x \in S \ T PROVE T \cup {x} \in Q
  <2>1. CASE T = {}
    <3>1. T \cup {x} = {x} /\ f[x] <= f[x]
      BY <2>1
    <3> QED BY <3>1
  <2>2. CASE T # {}
    <3>1. PICK m \in T : \A j \in T : f[j] <= f[m]
      BY <1>2, <2>2
    <3>2. f[m] \in Nat /\ f[x] \in Nat /\ \A j \in T : f[j] \in Nat
      OBVIOUS
    <3>3. CASE f[x] <= f[m]
      BY <3>1, <3>3
    <3>4. CASE f[m] <= f[x]
      BY <3>1, <3>2, <3>4
    <3> QED BY <3>2, <3>3, <3>4
  <2> QED BY <2>1, <2>2
<1> HIDE DEF Q
<1>3. S \in Q
  BY <1>1, <1>2, FiniteInduction
<1> QED BY <1>3 DEF Q

\* The loop of the layer, one block: its transaction, then its logs.
LEMMA BlockFits ==
    ASSUME Legal(chains), NEW t \in Tables, Fits(chains, t), NEW n \in DOMAIN layerLog
    PROVE  LET s == IngestLayerBlock(t, n) IN
           /\ s \in Tables /\ Fits(chains, s) /\ Keeps(t, s)
           /\ s.txs = t.txs \cup {n} /\ s.layerLogs = t.layerLogs /\ s.bscLogs = t.bscLogs /\ s.exits = t.exits
<1> DEFINE h == chains
           more == layerLog[n].kind = "act" /\ t.agent
           fresh == n \notin t.txs
           d == IF more THEN t.deploys + One(fresh) ELSE t.deploys
           txs == t.txs \cup {n}
           s == [t EXCEPT !.txs = txs, !.deploys = d]
<1>1. IngestLayerBlock(t, n) = s
  BY DEF IngestLayerBlock
<1>2. h.layer \in Seq(LayerEvents) /\ layerLog = h.layer /\ DOMAIN h.layer = 1..Len(h.layer) /\ n \in 1..Len(h.layer) /\ n \in Nat
      /\ Len(h.layer) \in Nat
  BY DEF Legal, layerLog
<1>3. d \in Nat /\ d <= t.deploys + (IF fresh /\ layerLog[n].kind = "act" THEN 1 ELSE 0)
  <2>1. t.deploys \in Nat /\ fresh \in BOOLEAN
    BY DEF Tables
  <2> HIDE DEF fresh
  <2>2. One(fresh) = (IF fresh THEN 1 ELSE 0) /\ One(fresh) \in Nat
    BY <2>1, OneType
  <2> QED BY <2>1, <2>2
<1>4. txs \in SUBSET Nat /\ IsFiniteSet(t.txs)
  <2>1. t.txs \subseteq 1..Len(h.layer)
    BY DEF Fits
  <2>2. IsFiniteSet(1..Len(h.layer))
    BY <1>2, FS_Interval
  <2> QED BY <1>2, <2>1, <2>2, FS_Subset DEF Tables
<1> HIDE DEF d
<1>5. Cardinality(Kinds(h.layer, txs, "act")) =
         Cardinality(Kinds(h.layer, t.txs, "act")) + (IF n \notin t.txs /\ h.layer[n].kind = "act" THEN 1 ELSE 0)
      /\ Cardinality(Kinds(h.layer, t.txs, "act")) \in Nat
  <2>1. /\ Cardinality(Kinds(layerLog, t.txs, "act")) \in Nat
        /\ Cardinality(Kinds(layerLog, t.txs \cup {n}, "act")) =
              Cardinality(Kinds(layerLog, t.txs, "act")) + (IF n \notin t.txs /\ layerLog[n].kind = "act" THEN 1 ELSE 0)
    <3>1. IsFiniteSet(t.txs)
      BY <1>4
    <3> QED BY <3>1, CountRecorded
  <2> QED BY <1>2, <2>1
<1>6. d <= Cardinality(Kinds(h.layer, txs, "act"))
  <2>1. t.deploys <= Cardinality(Kinds(h.layer, t.txs, "act")) /\ t.deploys \in Nat
    BY DEF Fits, Tables
  <2> QED BY <1>2, <1>3, <1>5, <2>1
<1> HIDE DEF txs
<1>7. s \in Tables
  BY <1>3, <1>4 DEF Tables
<1>8. /\ s.txs = txs /\ s.deploys = d
      /\ s.layerLogs = t.layerLogs /\ s.bscLogs = t.bscLogs /\ s.filled = t.filled
      /\ s.announces = t.announces /\ s.feed = t.feed /\ s.anchored = t.anchored
      /\ s.credited = t.credited /\ s.exited = t.exited /\ s.state = t.state /\ s.through = t.through /\ s.exits = t.exits
  BY DEF Tables
<1>9. txs \subseteq 1..Len(h.layer)
  BY <1>2 DEF txs, Fits
<1> HIDE DEF s, h
<1>10. Fits(h, t)
  BY DEF h
<1>11. Fits(h, s)
  BY <1>6, <1>8, <1>9, <1>10 DEF Fits
<1>12. Keeps(t, s)
  BY <1>8 DEF Keeps
<1> QED BY <1>1, <1>7, <1>8, <1>11, <1>12 DEF h, txs

\* What the marks reach is covered by a final anchor.
LEMMA MarksAreCovered ==
    ASSUME NEW t \in Tables, Fits(chains, t), Legal(chains), NEW n \in Nat, n # 0, n <= anchoredThroughBlock(t)
    PROVE  \E e \in IndexedEpochs : Final(chains, e) /\ n <= chains.endOf[e]
<1> DEFINE finals == {e \in IndexedEpochs : t.state[e] = "FINAL"}
           ends == {t.through[e] : e \in finals}
<1>1. finals # {} /\ anchoredThroughBlock(t) = Max(ends)
  BY DEF anchoredThroughBlock
<1>2. t.through \in [IndexedEpochs -> Nat] /\ chains.endOf \in [IndexedEpochs -> Nat]
  BY DEF Tables, Legal
<1>3. IsFiniteSet(finals)
  <2>1. LastIndexedEpoch \in Nat
    BY IndexerInputs
  <2>2. IsFiniteSet(IndexedEpochs)
    BY <2>1, FS_Interval DEF IndexedEpochs
  <2> QED BY <2>2, FS_Subset
<1>4. PICK m \in finals : \A j \in finals : t.through[j] <= t.through[m]
  <2>1. \A j \in finals : t.through[j] \in Nat
    BY <1>2
  <2> HIDE DEF finals
  <2> QED BY <1>1, <1>3, <2>1, FiniteGreatest
<1>5. Max(ends) \in ends
  <2>1. \A j \in finals : t.through[m] >= t.through[j]
    BY <1>2, <1>4
  <2>2. t.through[m] \in ends /\ \A v0 \in ends : t.through[m] >= v0
    BY <2>1
  <2> HIDE DEF ends
  <2> QED BY <2>2 DEF Max
<1>6. PICK e \in finals : Max(ends) = t.through[e]
  BY <1>5
<1>7. t.through[e] \in {0, chains.endOf[e]} /\ Final(chains, e)
  BY <1>6 DEF Fits
<1> QED BY <1>1, <1>2, <1>6, <1>7

\* The logs of the block, with the feed entry.
LEMMA LogsFit ==
    ASSUME Legal(chains), NEW t \in Tables, Fits(chains, t), NEW n \in DOMAIN layerLog
    PROVE  LET s == OnLayerEvent(t, n) IN
           /\ s \in Tables /\ Fits(chains, s) /\ Keeps(t, s)
           /\ s.layerLogs = t.layerLogs \cup {n} /\ s.txs = t.txs /\ s.bscLogs = t.bscLogs
           /\ \A x \in Exits : s.exits[x].anchor = t.exits[x].anchor
<1> DEFINE h == chains
           ev == layerLog[n]
           fresh == n \notin t.layerLogs
           logs == t.layerLogs \cup {n}
           entries == t.feed \cup {n}
           marks == IF n \notin t.feed /\ n <= anchoredThroughBlock(t) THEN t.anchored \cup {n} ELSE t.anchored
           pushed == [t EXCEPT !.layerLogs = logs, !.feed = entries, !.anchored = marks]
           s == OnLayerEvent(t, n)
<1>1. h.layer \in Seq(LayerEvents) /\ layerLog = h.layer /\ DOMAIN h.layer = 1..Len(h.layer) /\ n \in 1..Len(h.layer) /\ n \in Nat
      /\ Len(h.layer) \in Nat /\ ev \in LayerEvents
  BY DEF Legal, layerLog
<1>2. ev.kind \in {"credited", "exit", "act"} /\ ev.id \in Nat /\ ev.epoch \in Nat
  BY <1>1 DEF LayerEvents, EventsOf
<1>3. s = CASE ev.kind = "credited" ->
                 IF ev.id \in t.deposits THEN [pushed EXCEPT !.filled = @ \cup {ev.id}] ELSE pushed
            [] ev.kind = "exit" -> [pushed EXCEPT !.exits[ev.id] = [@ EXCEPT !.seen = TRUE, !.born = ev.epoch]]
            [] ev.kind = "act" -> IF t.agent THEN [pushed EXCEPT !.announces = @ + One(fresh)] ELSE pushed
  BY DEF OnLayerEvent
<1>4. logs \in SUBSET Nat /\ logs \subseteq 1..Len(h.layer) /\ entries \in SUBSET Nat /\ entries \subseteq 1..Len(h.layer)
  BY <1>1 DEF Tables, Fits
<1>5. marks \in SUBSET Nat /\ \A k \in marks : \E e \in IndexedEpochs : Final(h, e) /\ k <= h.endOf[e]
  <2>1. t.anchored \in SUBSET Nat /\ \A k \in t.anchored : \E e \in IndexedEpochs : Final(h, e) /\ k <= h.endOf[e]
    BY DEF Tables, Fits
  <2>2. n <= anchoredThroughBlock(t) => \E e \in IndexedEpochs : Final(h, e) /\ n <= h.endOf[e]
    BY <1>1, MarksAreCovered
  <2> QED BY <1>1, <2>1, <2>2
<1>6. IsFiniteSet(t.layerLogs)
  <2>1. t.layerLogs \subseteq 1..Len(h.layer)
    BY DEF Fits
  <2>2. IsFiniteSet(1..Len(h.layer))
    BY <1>1, FS_Interval
  <2> QED BY <2>1, <2>2, FS_Subset
<1>7. Cardinality(Kinds(h.layer, logs, "act")) =
         Cardinality(Kinds(h.layer, t.layerLogs, "act")) + (IF fresh /\ ev.kind = "act" THEN 1 ELSE 0)
      /\ Cardinality(Kinds(h.layer, t.layerLogs, "act")) \in Nat
  <2>1. /\ Cardinality(Kinds(layerLog, t.layerLogs, "act")) \in Nat
        /\ Cardinality(Kinds(layerLog, t.layerLogs \cup {n}, "act")) =
              Cardinality(Kinds(layerLog, t.layerLogs, "act")) + (IF n \notin t.layerLogs /\ layerLog[n].kind = "act" THEN 1 ELSE 0)
    BY <1>6, CountRecorded
  <2> QED BY <1>1, <2>1
<1>8. t.announces \in Nat /\ t.announces <= Cardinality(Kinds(h.layer, t.layerLogs, "act")) /\ fresh \in BOOLEAN
  BY DEF Tables, Fits
<1> SUFFICES /\ s \in Tables /\ Fits(chains, s) /\ Keeps(t, s)
             /\ s.layerLogs = t.layerLogs \cup {n} /\ s.txs = t.txs /\ s.bscLogs = t.bscLogs
             /\ \A x \in Exits : s.exits[x].anchor = t.exits[x].anchor
  OBVIOUS
<1> HIDE DEF marks, entries, logs, s, fresh
<1>9. pushed \in Tables
  BY <1>4, <1>5 DEF Tables
<1>10. /\ pushed.layerLogs = logs /\ pushed.feed = entries /\ pushed.anchored = marks /\ pushed.announces = t.announces
       /\ pushed.bscLogs = t.bscLogs /\ pushed.txs = t.txs /\ pushed.filled = t.filled /\ pushed.exits = t.exits
       /\ pushed.deploys = t.deploys /\ pushed.credited = t.credited /\ pushed.exited = t.exited
       /\ pushed.state = t.state /\ pushed.through = t.through
  BY DEF Tables
<1> HIDE DEF pushed
\* What every case writes.
<1> DEFINE Wrote(r) ==
      /\ r \in Tables /\ r.layerLogs = logs /\ r.feed = entries /\ r.anchored = marks
      /\ r.bscLogs = t.bscLogs /\ r.txs = t.txs /\ r.deploys = t.deploys /\ r.credited = t.credited /\ r.exited = t.exited
      /\ r.state = t.state /\ r.through = t.through /\ t.filled \subseteq r.filled
      /\ \A x \in Exits : r.exits[x].anchor = t.exits[x].anchor /\ r.exits[x].claimed = t.exits[x].claimed
      /\ r.announces <= t.announces + (IF fresh /\ ev.kind = "act" THEN 1 ELSE 0)
<1>11. Wrote(pushed)
  BY <1>8, <1>9, <1>10
<1>12. Wrote(s)
  <2>1. CASE ev.kind = "credited" /\ ev.id \in t.deposits
    <3> DEFINE fs == pushed.filled \cup {ev.id}
    <3>1. s = [pushed EXCEPT !.filled = fs]
      BY <1>3, <2>1
    <3>2. fs \in SUBSET Nat /\ t.filled \subseteq fs
      BY <1>2, <1>9, <1>10 DEF Tables
    <3> HIDE DEF fs
    <3>3. s \in Tables
      BY <1>9, <3>1, <3>2 DEF Tables
    <3>4. /\ s.layerLogs = pushed.layerLogs /\ s.feed = pushed.feed /\ s.anchored = pushed.anchored
          /\ s.announces = pushed.announces
          /\ s.bscLogs = pushed.bscLogs /\ s.txs = pushed.txs /\ s.filled = fs /\ s.exits = pushed.exits
          /\ s.deploys = pushed.deploys /\ s.credited = pushed.credited /\ s.exited = pushed.exited
          /\ s.state = pushed.state /\ s.through = pushed.through
      BY <1>9, <3>1 DEF Tables
    <3> QED BY <1>8, <1>10, <3>2, <3>3, <3>4
  <2>2. CASE ev.kind = "exit"
    <3> DEFINE row == [pushed.exits[ev.id] EXCEPT !.seen = TRUE, !.born = ev.epoch]
               xs == [pushed.exits EXCEPT ![ev.id] = row]
    <3>1. s = [pushed EXCEPT !.exits = xs]
      BY <1>3, <2>2
    <3>2. pushed.exits \in [Exits -> ExitRow]
      BY <1>9 DEF Tables
    <3>3. ASSUME ev.id \in Exits
          PROVE  row \in ExitRow /\ row.anchor = pushed.exits[ev.id].anchor /\ row.claimed = pushed.exits[ev.id].claimed
      <4>1. pushed.exits[ev.id] \in ExitRow
        BY <3>2, <3>3
      <4> QED BY <1>2, <4>1 DEF ExitRow
    <3> HIDE DEF row
    <3>4. /\ xs \in [Exits -> ExitRow]
          /\ \A x \in Exits : xs[x].anchor = pushed.exits[x].anchor /\ xs[x].claimed = pushed.exits[x].claimed
      BY <3>2, <3>3
    <3> HIDE DEF xs
    <3>5. s \in Tables
      BY <1>9, <3>1, <3>4 DEF Tables
    <3>6. /\ s.layerLogs = pushed.layerLogs /\ s.feed = pushed.feed /\ s.anchored = pushed.anchored
          /\ s.announces = pushed.announces
          /\ s.bscLogs = pushed.bscLogs /\ s.txs = pushed.txs /\ s.filled = pushed.filled /\ s.exits = xs
          /\ s.deploys = pushed.deploys /\ s.credited = pushed.credited /\ s.exited = pushed.exited
          /\ s.state = pushed.state /\ s.through = pushed.through
      BY <1>9, <3>1 DEF Tables
    <3> QED BY <1>8, <1>10, <3>4, <3>5, <3>6
  <2>3. CASE ev.kind = "act" /\ t.agent
    <3> DEFINE k == pushed.announces + One(fresh)
    <3>1. s = [pushed EXCEPT !.announces = k]
      BY <1>3, <2>3
    <3>2. k \in Nat /\ k <= t.announces + (IF fresh /\ ev.kind = "act" THEN 1 ELSE 0)
      BY <1>8, <1>10, <2>3, OneType
    <3> HIDE DEF k
    <3>3. s \in Tables
      BY <1>9, <3>1, <3>2 DEF Tables
    <3>4. /\ s.layerLogs = pushed.layerLogs /\ s.feed = pushed.feed /\ s.anchored = pushed.anchored
          /\ s.announces = k
          /\ s.bscLogs = pushed.bscLogs /\ s.txs = pushed.txs /\ s.filled = pushed.filled /\ s.exits = pushed.exits
          /\ s.deploys = pushed.deploys /\ s.credited = pushed.credited /\ s.exited = pushed.exited
          /\ s.state = pushed.state /\ s.through = pushed.through
      BY <1>9, <3>1 DEF Tables
    <3> QED BY <1>10, <3>2, <3>3, <3>4
  <2>4. CASE s = pushed
    BY <1>11, <2>4
  <2>5. \/ ev.kind = "credited" /\ ev.id \in t.deposits
        \/ ev.kind = "exit"
        \/ ev.kind = "act" /\ t.agent
        \/ s = pushed
    <3>1. ev.kind = "credited" /\ ev.id \notin t.deposits => s = pushed
      BY <1>3
    <3>2. ev.kind = "act" /\ ~t.agent => s = pushed
      BY <1>3
    <3> QED BY <1>2, <3>1, <3>2
  <2> HIDE DEF Wrote
  <2> QED BY <2>1, <2>2, <2>3, <2>4, <2>5
<1>13. s.announces <= Cardinality(Kinds(h.layer, s.layerLogs, "act"))
  <2>1. s.announces \in Nat
    BY <1>12 DEF Tables
  <2> QED BY <1>7, <1>8, <1>12, <2>1
<1> HIDE DEF h
<1>14. Fits(h, t)
  BY DEF h
<1>15. Fits(h, s)
  <2>1. \A x \in Exits : RowFits(h, s.exits[x], x)
    BY <1>12, <1>14 DEF RowFits, Fits
  <2> QED BY <1>4, <1>5, <1>12, <1>13, <1>14, <2>1 DEF Fits
<1>16. Keeps(t, s)
  BY <1>12 DEF Keeps
<1> QED BY <1>12, <1>15, <1>16 DEF h, logs

\* The marks at the end of a tick of BSC.
LEMMA MarkingFits ==
    ASSUME Legal(chains), db \in Tables, Fits(chains, db)
    PROVE  LET s == [db EXCEPT !.anchored = @ \cup Marked] IN
           /\ s \in Tables /\ Fits(chains, s) /\ Keeps(db, s)
           /\ s.layerLogs = db.layerLogs /\ s.txs = db.txs /\ s.bscLogs = db.bscLogs /\ s.exits = db.exits
<1> DEFINE h == chains
           marks == db.anchored \cup Marked
           s == [db EXCEPT !.anchored = marks]
<1>1. db.feed \in SUBSET Nat /\ db.feed \subseteq 1..Len(h.layer)
  BY DEF Tables, Fits
<1>2. marks \in SUBSET Nat /\ \A k \in marks : \E e \in IndexedEpochs : Final(h, e) /\ k <= h.endOf[e]
  <2>1. db.anchored \in SUBSET Nat /\ \A k \in db.anchored : \E e \in IndexedEpochs : Final(h, e) /\ k <= h.endOf[e]
    BY DEF Tables, Fits
  <2>2. ASSUME NEW k \in Marked PROVE k \in Nat /\ \E e \in IndexedEpochs : Final(h, e) /\ k <= h.endOf[e]
    <3>1. k \in Nat /\ k # 0 /\ k <= anchoredThroughBlock(db)
      BY <1>1 DEF Marked
    <3> QED BY <3>1, MarksAreCovered
  <2> QED BY <2>1, <2>2
<1> SUFFICES /\ s \in Tables /\ Fits(chains, s) /\ Keeps(db, s)
             /\ s.layerLogs = db.layerLogs /\ s.txs = db.txs /\ s.bscLogs = db.bscLogs /\ s.exits = db.exits
  OBVIOUS
<1> HIDE DEF marks
<1>3. s \in Tables
  BY <1>2 DEF Tables
<1>4. /\ s.anchored = marks /\ s.layerLogs = db.layerLogs /\ s.txs = db.txs /\ s.bscLogs = db.bscLogs /\ s.exits = db.exits
      /\ s.filled = db.filled /\ s.feed = db.feed /\ s.announces = db.announces /\ s.deploys = db.deploys
      /\ s.credited = db.credited /\ s.exited = db.exited /\ s.state = db.state /\ s.through = db.through
  BY DEF Tables
<1> HIDE DEF s, h
<1>5. Fits(h, db)
  BY DEF h
<1>6. Fits(h, s)
  BY <1>2, <1>4, <1>5 DEF Fits
<1>7. Keeps(db, s)
  BY <1>4 DEF Keeps
<1> QED BY <1>3, <1>4, <1>6, <1>7 DEF h

\* A chunk of BSC.
LEMMA ChunkFits ==
    ASSUME Legal(chains), db \in Tables, Fits(chains, db), NEW from \in Nat, from # 0, UpTo(chains, db, from - 1),
           NEW to \in from..Len(bscLog)
    PROVE  LET s == IngestBsc(from, to) IN
           s \in Tables /\ Fits(chains, s) /\ Keeps(db, s) /\ UpTo(chains, s, to)
           /\ s.layerLogs = db.layerLogs /\ s.txs = db.txs
<1> DEFINE n == Len(bscLog)
           Reached(k) == IF k < from THEN from - 1 ELSE IF k <= to THEN k ELSE to
           Good(k) == {t \in Tables : /\ Fits(chains, t) /\ Keeps(db, t) /\ UpTo(chains, t, Reached(k))
                                      /\ t.layerLogs = db.layerLogs /\ t.txs = db.txs}
           Q == [k \in 0..n |-> Good(k)]
<1>1. n \in Nat /\ DOMAIN bscLog = 1..n
  BY DEF Legal, bscLog
<1>2. db \in Q[0]
  <2>1. Reached(0) = from - 1
    OBVIOUS
  <2>2. Keeps(db, db)
    BY DEF Keeps
  <2>3. db \in Good(0)
    BY <2>1, <2>2
  <2> HIDE DEF Good
  <2> QED BY <1>1, <2>3
<1>3. ASSUME NEW k \in 1..n, NEW t \in Q[k - 1] PROVE IngestStep(t, k, from, to) \in Q[k]
  <2>1. k \in DOMAIN bscLog /\ k - 1 \in 0..n /\ k \in 0..n /\ k \in Nat /\ from \in Nat /\ to \in Nat
    BY <1>1
  <2>2. t \in Good(k - 1)
    <3> HIDE DEF Good
    <3> QED BY <2>1
  <2>3. /\ t \in Tables /\ Fits(chains, t) /\ Keeps(db, t) /\ UpTo(chains, t, Reached(k - 1))
        /\ t.layerLogs = db.layerLogs /\ t.txs = db.txs
    BY <2>2
  <2> DEFINE s == [OnBscEvent(t, bscLog[k], k \notin t.bscLogs) EXCEPT !.bscLogs = @ \cup {k}]
  <2>4. CASE k < from \/ k > to
    <3>1. IngestStep(t, k, from, to) = t
      BY <2>4 DEF IngestStep
    <3>2. Reached(k) = Reached(k - 1)
      BY <2>1, <2>4
    <3>3. t \in Good(k)
      BY <2>3, <3>2
    <3> HIDE DEF Good
    <3> QED BY <2>1, <3>1, <3>3
  <2>5. CASE ~(k < from \/ k > to)
    <3>1. IngestStep(t, k, from, to) = s
      BY <2>5 DEF IngestStep
    <3>2. Reached(k) = k /\ Reached(k - 1) = k - 1
      BY <2>1, <2>5
    <3> HIDE DEF Reached
    <3>3. UpTo(chains, t, k - 1)
      BY <2>3, <3>2
    <3>4. PICK r : r = s
      OBVIOUS
    <3>5. r \in Tables /\ Fits(chains, r) /\ Keeps(t, r) /\ (UpTo(chains, t, k - 1) => UpTo(chains, r, k))
      BY <2>1, <2>3, <3>4, StoredFits
    <3>6. Keeps(db, r)
      BY <2>3, <3>5 DEF Keeps
    <3>7. r.layerLogs = t.layerLogs /\ r.txs = t.txs
      <4> DEFINE m == OnBscEvent(t, bscLog[k], k \notin t.bscLogs)
                 logs == m.bscLogs \cup {k}
      <4>1. bscLog[k] \in BscEvents /\ chains.endOf \in [IndexedEpochs -> Nat]
        BY <2>1 DEF Legal, bscLog
      <4>2. EventWrites(t, m, bscLog[k], k \notin t.bscLogs)
        BY <2>3, <4>1, EventWritesThis
      <4>3. r = [m EXCEPT !.bscLogs = logs]
        BY <3>4
      <4> HIDE DEF m, logs
      <4>4. m \in Tables /\ m.layerLogs = t.layerLogs /\ m.txs = t.txs
        BY <4>2 DEF EventWrites
      <4> QED BY <4>3, <4>4 DEF Tables
    <3> HIDE DEF s
    <3>8. r \in Good(k)
      BY <2>3, <3>2, <3>3, <3>5, <3>6, <3>7
    <3> HIDE DEF Good
    <3> QED BY <2>1, <3>1, <3>4, <3>8
  <2> QED BY <2>4, <2>5
<1>4. IngestBsc(from, to) \in Q[n]
  <2> HIDE DEF Q, n
  <2> QED BY <1>1, <1>2, <1>3, IngestKeeps
<1>5. Reached(n) = to
  <2>1. to \in Nat /\ from <= to /\ to <= n
    BY <1>1
  <2> HIDE DEF n
  <2> QED BY <1>1, <2>1
<1>6. IngestBsc(from, to) \in Good(n)
  <2> HIDE DEF Good
  <2> QED BY <1>1, <1>4
<1> HIDE DEF Reached
<1> QED BY <1>5, <1>6

-----------------------------------------------------------------------------
IndexTypes ==
    /\ chains \in Histories /\ db \in Tables
    /\ layerCursor \in Nat /\ bscCursor \in Nat /\ chunkEnd \in Nat
    /\ atLayer \in {"idle", "block", "logs"} /\ atBsc \in {"idle", "chunk", "more"}
TablesFit == Fits(chains, db)

\* What the loop of the layer has behind it, or in hand, is in the tables.
LayerReached ==
    /\ layerCursor <= Len(layerLog) /\ 1..layerCursor \subseteq db.layerLogs \cap db.txs
    /\ atLayer # "idle" => layerCursor < Len(layerLog) /\ InHand \in db.txs
    /\ atLayer = "logs" => InHand \in db.layerLogs

\* So is what the loop of BSC has behind it, up to the end of the chunk just stored.
BscReached ==
    /\ bscCursor <= Len(bscLog) /\ UpTo(chains, db, bscCursor)
    /\ atBsc = "chunk" => chunkEnd \in bscCursor + 1..Len(bscLog) /\ UpTo(chains, db, chunkEnd)

IndexInv == IndexTypes /\ TablesFit /\ LayerReached /\ BscReached

LEMMA HistoryIsLegal == ASSUME chains \in Histories PROVE Legal(chains) /\ Len(layerLog) \in Nat /\ Len(bscLog) \in Nat
                                  /\ DOMAIN layerLog = 1..Len(layerLog) /\ DOMAIN bscLog = 1..Len(bscLog)
<1>1. Legal(chains)
  BY IndexerInputs
<1> QED BY <1>1 DEF Legal, layerLog, bscLog

LEMMA IndexStart == ASSUME IndexerInit PROVE IndexInv
<1>1. chains \in Histories /\ db = NoData /\ layerCursor = 0 /\ bscCursor = 0 /\ atLayer = "idle" /\ atBsc = "idle" /\ chunkEnd = 0
  BY DEF IndexerInit
<1>2. Legal(chains) /\ Len(layerLog) \in Nat /\ Len(bscLog) \in Nat
  BY <1>1, HistoryIsLegal
<1>3. NoExit \in ExitRow /\ NoExit.anchor = -1 /\ NoExit.claimed = FALSE
  BY DEF NoExit, ExitRow
<1> DEFINE rows == [x \in Exits |-> NoExit]
           states == [e \in IndexedEpochs |-> "NONE"]
           ends == [e \in IndexedEpochs |-> 0]
<1>4. /\ rows \in [Exits -> ExitRow] /\ states \in [IndexedEpochs -> AnchorStates] /\ ends \in [IndexedEpochs -> Nat]
      /\ \A x \in Exits : rows[x] = NoExit
      /\ \A e \in IndexedEpochs : states[e] # "FINAL" /\ ends[e] = 0
  BY <1>3 DEF AnchorStates
<1>5. /\ db.layerLogs = {} /\ db.bscLogs = {} /\ db.txs = {} /\ db.feed = {} /\ db.anchored = {}
      /\ db.credited = 0 /\ db.exited = 0 /\ db.deploys = 0 /\ db.announces = 0
      /\ db.exits = rows /\ db.state = states /\ db.through = ends
  BY <1>1 DEF NoData
<1> HIDE DEF rows, states, ends
<1>6. db \in Tables
  <2>1. NoData = [layerLogs |-> {}, bscLogs |-> {}, txs |-> {}, deposits |-> {}, filled |-> {}, exits |-> rows,
                  state |-> states, through |-> ends, agent |-> FALSE, credited |-> 0, exited |-> 0, deploys |-> 0,
                  announces |-> 0, feed |-> {}, anchored |-> {}]
    BY DEF NoData, rows, states, ends
  <2> QED BY <1>1, <1>4, <2>1 DEF Tables
<1>7. \A f, c : Kinds(f, {}, c) = {} /\ Cardinality({}) = 0
  BY FS_EmptySet DEF Kinds
<1>8. TablesFit
  <2>1. \A x \in Exits : RowFits(chains, db.exits[x], x)
    BY <1>3, <1>4, <1>5 DEF RowFits
  <2>2. \A e \in IndexedEpochs : (db.state[e] = "FINAL" => Final(chains, e)) /\ db.through[e] \in {0, chains.endOf[e]}
    BY <1>4, <1>5
  <2>3. /\ db.credited = Cardinality(Kinds(chains.bsc, db.bscLogs, "locked"))
        /\ db.exited = Cardinality(Kinds(chains.bsc, db.bscLogs, "claimed"))
        /\ db.deploys <= Cardinality(Kinds(chains.layer, db.txs, "act"))
        /\ db.announces <= Cardinality(Kinds(chains.layer, db.layerLogs, "act"))
    BY <1>5, <1>7
  <2> QED BY <1>5, <2>1, <2>2, <2>3 DEF Fits, TablesFit
<1>9. 1..0 = {}
  OBVIOUS
<1>10. LayerReached
  BY <1>1, <1>2, <1>9 DEF LayerReached
<1>11. BscReached
  BY <1>1, <1>2, <1>9 DEF BscReached, UpTo
<1> QED BY <1>1, <1>6, <1>8, <1>10, <1>11 DEF IndexInv, IndexTypes

\* An anchor of a row unchanged, a log recorded not forgotten.
LEMMA UpToStays ==
    ASSUME NEW h, NEW t, NEW s, NEW k, UpTo(h, t, k), t.bscLogs \subseteq s.bscLogs,
           \A x \in Exits : s.exits[x].anchor = t.exits[x].anchor
    PROVE  UpTo(h, s, k)
BY DEF UpTo

LEMMA IndexStep ==
    ASSUME IndexInv, [IndexerNext]_indexerVars PROVE IndexInv' /\ Keeps(db, db')
<1>1. /\ Legal(chains) /\ Len(layerLog) \in Nat /\ Len(bscLog) \in Nat
      /\ DOMAIN layerLog = 1..Len(layerLog) /\ DOMAIN bscLog = 1..Len(bscLog)
  BY HistoryIsLegal DEF IndexInv, IndexTypes
<1>2. db \in Tables /\ Fits(chains, db) /\ layerCursor \in Nat /\ bscCursor \in Nat /\ chunkEnd \in Nat
  BY DEF IndexInv, IndexTypes, TablesFit
<1>3. Keeps(db, db)
  BY DEF Keeps
\* The tables stay, or change as a loop writes them.
<1>4. ASSUME chains' = chains PROVE layerLog' = layerLog /\ bscLog' = bscLog
  BY <1>4 DEF layerLog, bscLog
<1>5. CASE UNCHANGED indexerVars
  BY <1>3, <1>5 DEF indexerVars, IndexInv, IndexTypes, TablesFit, LayerReached, BscReached, layerLog, bscLog, InHand
<1>6. CASE LayerBlock
  <2>1. /\ atLayer = "idle" /\ layerCursor < Len(layerLog) /\ atLayer' = "block" /\ db' = IngestLayerBlock(db, layerCursor + 1)
        /\ UNCHANGED <<chains, layerCursor, bscCursor, atBsc, chunkEnd>>
    BY <1>6 DEF LayerBlock
  <2>2. layerCursor + 1 \in DOMAIN layerLog
    BY <1>1, <1>2, <2>1
  <2>3. /\ db' \in Tables /\ Fits(chains, db') /\ Keeps(db, db')
        /\ db'.txs = db.txs \cup {layerCursor + 1} /\ db'.layerLogs = db.layerLogs /\ db'.bscLogs = db.bscLogs /\ db'.exits = db.exits
    BY <1>1, <1>2, <2>1, <2>2, BlockFits
  <2>4. LayerReached'
    BY <1>2, <1>4, <2>1, <2>3 DEF IndexInv, LayerReached, InHand
  <2>5. BscReached'
    BY <1>4, <2>1, <2>3, UpToStays DEF IndexInv, BscReached
  <2> QED BY <2>1, <2>3, <2>4, <2>5 DEF IndexInv, IndexTypes, TablesFit
<1>7. CASE LayerLogs
  <2>1. /\ atLayer = "block" /\ atLayer' = "logs" /\ db' = OnLayerEvent(db, InHand)
        /\ UNCHANGED <<chains, layerCursor, bscCursor, atBsc, chunkEnd>>
    BY <1>7 DEF LayerLogs
  <2>2. layerCursor < Len(layerLog) /\ InHand = layerCursor + 1
    BY <2>1 DEF IndexInv, LayerReached, InHand
  <2>3. InHand \in DOMAIN layerLog
    BY <1>1, <1>2, <2>2
  <2>4. /\ db' \in Tables /\ Fits(chains, db') /\ Keeps(db, db')
        /\ db'.layerLogs = db.layerLogs \cup {InHand} /\ db'.txs = db.txs /\ db'.bscLogs = db.bscLogs
        /\ \A x \in Exits : db'.exits[x].anchor = db.exits[x].anchor
    BY <1>1, <1>2, <2>1, <2>3, LogsFit
  <2>5. InHand' = InHand
    BY <2>1 DEF InHand
  <2>6. LayerReached'
    BY <1>4, <2>1, <2>4, <2>5 DEF IndexInv, LayerReached
  <2>7. BscReached'
    BY <1>4, <2>1, <2>4, UpToStays DEF IndexInv, BscReached
  <2> QED BY <2>1, <2>4, <2>6, <2>7 DEF IndexInv, IndexTypes, TablesFit
<1>8. CASE LayerCursor
  <2>1. /\ atLayer = "logs" /\ atLayer' = "idle" /\ layerCursor' = InHand
        /\ UNCHANGED <<chains, db, bscCursor, atBsc, chunkEnd>>
    BY <1>8 DEF LayerCursor
  <2>2. /\ layerCursor < Len(layerLog) /\ InHand = layerCursor + 1 /\ InHand \in db.layerLogs \cap db.txs
        /\ 1..layerCursor \subseteq db.layerLogs \cap db.txs
    BY <2>1 DEF IndexInv, LayerReached, InHand
  <2>3. layerCursor' = layerCursor + 1 /\ 1..layerCursor + 1 \subseteq db.layerLogs \cap db.txs
    BY <1>2, <2>1, <2>2
  <2>4. layerCursor + 1 <= Len(layerLog)
    BY <1>1, <1>2, <2>2
  <2>5. LayerReached'
    BY <1>4, <2>1, <2>3, <2>4 DEF LayerReached
  <2>6. BscReached'
    BY <1>4, <2>1 DEF IndexInv, BscReached
  <2> QED BY <1>2, <1>3, <2>1, <2>3, <2>5, <2>6 DEF IndexInv, IndexTypes, TablesFit
<1>9. ASSUME NEW to \in 1..Len(bscLog), BscChunk(to) PROVE IndexInv' /\ Keeps(db, db')
  <2>1. /\ to \in bscCursor + 1..Len(bscLog) /\ db' = IngestBsc(bscCursor + 1, to) /\ atBsc' = "chunk" /\ chunkEnd' = to
        /\ UNCHANGED <<chains, layerCursor, bscCursor, atLayer>>
    BY <1>9 DEF BscChunk
  <2>2. bscCursor + 1 \in Nat /\ bscCursor + 1 # 0 /\ bscCursor + 1 - 1 = bscCursor
    BY <1>2
  <2>3. UpTo(chains, db, bscCursor)
    BY DEF IndexInv, BscReached
  <2>4. /\ db' \in Tables /\ Fits(chains, db') /\ Keeps(db, db') /\ UpTo(chains, db', to)
        /\ db'.layerLogs = db.layerLogs /\ db'.txs = db.txs
    BY <1>1, <1>2, <2>1, <2>2, <2>3, ChunkFits
  <2>5. UpTo(chains, db', bscCursor)
    <3>1. \A i \in 1..bscCursor : i \in 1..to
      BY <1>1, <1>2, <2>1
    <3> QED BY <2>4, <3>1 DEF UpTo
  <2>6. LayerReached'
    BY <1>4, <2>1, <2>4 DEF IndexInv, LayerReached, InHand
  <2>7. BscReached'
    BY <1>4, <2>1, <2>4, <2>5 DEF IndexInv, BscReached
  <2> QED BY <1>1, <2>1, <2>4, <2>6, <2>7 DEF IndexInv, IndexTypes, TablesFit
<1>10. CASE BscCursor
  <2>1. /\ atBsc = "chunk" /\ bscCursor' = chunkEnd /\ atBsc' = "more" /\ chunkEnd' = 0
        /\ UNCHANGED <<chains, db, layerCursor, atLayer>>
    BY <1>10 DEF BscCursor
  <2>2. chunkEnd <= Len(bscLog) /\ UpTo(chains, db, chunkEnd)
    BY <1>1, <1>2, <2>1 DEF IndexInv, BscReached
  <2>3. BscReached'
    BY <1>4, <2>1, <2>2 DEF BscReached
  <2>4. LayerReached'
    BY <1>4, <2>1 DEF IndexInv, LayerReached, InHand
  <2> QED BY <1>2, <1>3, <2>1, <2>3, <2>4 DEF IndexInv, IndexTypes, TablesFit
<1>11. CASE BscEnd
  <2>1. /\ atBsc' = "idle" /\ db' = [db EXCEPT !.anchored = @ \cup Marked]
        /\ UNCHANGED <<chains, layerCursor, bscCursor, atLayer, chunkEnd>>
    BY <1>11 DEF BscEnd
  <2>2. /\ db' \in Tables /\ Fits(chains, db') /\ Keeps(db, db')
        /\ db'.layerLogs = db.layerLogs /\ db'.txs = db.txs /\ db'.bscLogs = db.bscLogs /\ db'.exits = db.exits
    BY <1>1, <1>2, <2>1, MarkingFits
  <2>3. LayerReached'
    BY <1>4, <2>1, <2>2 DEF IndexInv, LayerReached, InHand
  <2>4. BscReached'
    BY <1>4, <2>1, <2>2, UpToStays DEF IndexInv, BscReached
  <2> QED BY <2>1, <2>2, <2>3, <2>4 DEF IndexInv, IndexTypes, TablesFit
<1>12. CASE LayerFails \/ IndexerCrash
  <2>1. /\ atLayer' = "idle" /\ UNCHANGED <<chains, db, layerCursor, bscCursor>>
        /\ (atBsc' = "idle" /\ chunkEnd' = 0) \/ UNCHANGED <<atBsc, chunkEnd>>
    BY <1>12 DEF LayerFails, IndexerCrash
  <2>2. LayerReached'
    BY <1>4, <2>1 DEF IndexInv, LayerReached
  <2>3. BscReached'
    BY <1>4, <2>1 DEF IndexInv, BscReached
  <2> QED BY <1>2, <1>3, <2>1, <2>2, <2>3 DEF IndexInv, IndexTypes, TablesFit
<1> QED BY <1>5, <1>6, <1>7, <1>8, <1>9, <1>10, <1>11, <1>12 DEF IndexerNext, LayerLoop, BscLoop

LEMMA IndexInvSuffices == ASSUME IndexInv PROVE IndexTellsTheChains
<1>1. Fits(chains, db) /\ bscLog = chains.bsc /\ layerLog = chains.layer
  BY DEF IndexInv, TablesFit, bscLog, layerLog
<1>2. CountersSurviveReplays
  <2>1. 1..bscCursor \subseteq db.bscLogs /\ 1..layerCursor \subseteq db.layerLogs \cap db.txs
    BY DEF IndexInv, BscReached, LayerReached, UpTo
  <2>2. /\ Kinds(chains.bsc, db.bscLogs, "locked") = {i \in db.bscLogs : bscLog[i].kind = "locked"}
        /\ Kinds(chains.bsc, db.bscLogs, "claimed") = {i \in db.bscLogs : bscLog[i].kind = "claimed"}
        /\ Kinds(chains.layer, db.txs, "act") = {i \in db.txs : layerLog[i].kind = "act"}
        /\ Kinds(chains.layer, db.layerLogs, "act") = {i \in db.layerLogs : layerLog[i].kind = "act"}
    BY <1>1 DEF Kinds
  <2> QED BY <1>1, <2>1, <2>2 DEF CountersSurviveReplays, Fits
<1>3. ExitsAreFiledUnderTheirAnchor
  BY <1>1 DEF ExitsAreFiledUnderTheirAnchor, Fits, RowFits, RootOf
<1>4. VetoedAnchorsHoldNothing
  <2>1. UpTo(chains, db, bscCursor)
    BY DEF IndexInv, BscReached
  <2> QED BY <1>1, <2>1 DEF VetoedAnchorsHoldNothing, UpTo
<1>5. AnchoredIsFinal
  BY <1>1 DEF AnchoredIsFinal, Fits, Final, OnBsc
<1> QED BY <1>2, <1>3, <1>4, <1>5 DEF IndexTellsTheChains

LEMMA ReplaysAreHarmless == ASSUME Keeps(db, db') PROVE ReplaysTakeNothingBack
BY DEF Keeps, ReplaysTakeNothingBack

-----------------------------------------------------------------------------
(* BuiltTokens *)

\* The places of all logs of the layer.
Everywhere == {place \in Nat \X Nat : place[1] \in 1..Len(layerBlocks) /\ place[2] \in DOMAIN layerBlocks[place[1]]}
UpToBlock(n) == {place \in Everywhere : place[1] <= n}

LEMMA BlocksAreLogs ==
    ASSUME layerBlocks \in LayerBlocks
    PROVE  /\ \A b \in 1..Len(layerBlocks) : /\ layerBlocks[b] \in Seq(Logs)
                                             /\ Len(layerBlocks[b]) \in Nat
                                             /\ DOMAIN layerBlocks[b] = 1..Len(layerBlocks[b])
           /\ \A place \in Everywhere : At(place) \in Logs
           /\ Len(layerBlocks) \in Nat /\ DOMAIN layerBlocks = 1..Len(layerBlocks)
<1>0. layerBlocks \in Seq(Seq(Logs))
  BY BuiltInputs
<1>1. \A b \in 1..Len(layerBlocks) : layerBlocks[b] \in Seq(Logs)
  BY <1>0
<1>2. ASSUME NEW place \in Everywhere PROVE At(place) \in Logs
  <2>1. layerBlocks[place[1]] \in Seq(Logs) /\ place[2] \in DOMAIN layerBlocks[place[1]]
    BY <1>1 DEF Everywhere
  <2> QED BY <2>1 DEF At
<1> QED BY <1>0, <1>1, <1>2

LEMMA EverywhereIsFinite ==
    ASSUME layerBlocks \in LayerBlocks
    PROVE  IsFiniteSet(Everywhere)
<1>0. layerBlocks \in Seq(Seq(Logs))
  BY BuiltInputs
<1> DEFINE n == Len(layerBlocks)
           f == [b \in 1..n |-> Len(layerBlocks[b])]
<1>1. CASE n = 0
  <2>1. Everywhere = {}
    BY <1>1 DEF Everywhere
  <2> QED BY <2>1, FS_EmptySet
<1>2. CASE n # 0
  <2>1. \A b \in 1..n : f[b] \in Nat
    BY BlocksAreLogs
  <2>2. IsFiniteSet(1..n) /\ 1..n # {}
    <3>1. n \in Nat /\ 1 \in 1..n
      BY <1>0, <1>2
    <3>2. IsFiniteSet(1..n)
      BY <3>1, FS_Interval
    <3> QED BY <3>1, <3>2
  <2>3. PICK m \in 1..n : \A b \in 1..n : f[b] <= f[m]
    <3> HIDE DEF f
    <3> QED BY <2>1, <2>2, FiniteGreatest
  <2>4. IsFiniteSet(1..n) /\ IsFiniteSet(1..f[m])
    BY <1>0, <2>1, FS_Interval
  <2>5. IsFiniteSet((1..n) \X (1..f[m]))
    <3> HIDE DEF f, n
    <3> QED BY <2>4, FS_Product
  <2>6. ASSUME NEW place \in Everywhere PROVE place \in (1..n) \X (1..f[m])
    <3>1. place[1] \in 1..n /\ place[2] \in 1..Len(layerBlocks[place[1]]) /\ place = <<place[1], place[2]>>
      BY BlocksAreLogs DEF Everywhere
    <3>2. Len(layerBlocks[place[1]]) <= f[m] /\ f[m] \in Nat /\ Len(layerBlocks[place[1]]) \in Nat
      BY <2>1, <2>3, <3>1
    <3>3. place[2] \in 1..f[m]
      BY <3>1, <3>2
    <3> QED BY <3>1, <3>3
  <2>7. Everywhere \subseteq (1..n) \X (1..f[m])
    BY <2>6
  <2> QED BY <2>5, <2>7, FS_Subset
<1> QED BY <1>1, <1>2

\* What a log moves to an account of a token, or away from it.
MovedBy(place, a, h) ==
    IF At(place).at # a \/ At(place).type # "transfer" THEN 0
    ELSE (IF At(place).to = h THEN At(place).value ELSE 0) - (IF At(place).from = h THEN At(place).value ELSE 0)

LEMMA MovedByType == ASSUME NEW place, At(place) \in Logs, NEW a, NEW h PROVE MovedBy(place, a, h) \in Int
<1>1. At(place).value \in Nat
  BY DEF Logs
<1> QED BY <1>1 DEF MovedBy

LEMMA IncomingIsASum ==
    ASSUME NEW S, NEW a, NEW h
    PROVE  Incoming(S, a, h) = SumFunctionOnSet([place \in S |-> MovedBy(place, a, h)], S)
BY DEF Incoming, MovedBy, SumFunction

\* Rows stored for the first time add what they move.
LEMMA RowsAddUp ==
    ASSUME NEW S, NEW T, IsFiniteSet(S), IsFiniteSet(T), S \cap T = {}, \A place \in S \cup T : At(place) \in Logs,
           NEW a, NEW h
    PROVE  /\ Incoming(S, a, h) \in Int /\ Incoming(T, a, h) \in Int
           /\ Incoming(S \cup T, a, h) = Incoming(S, a, h) + Incoming(T, a, h)
<1> DEFINE f == [place \in S \cup T |-> MovedBy(place, a, h)]
           fs == [place \in S |-> MovedBy(place, a, h)]
           ft == [place \in T |-> MovedBy(place, a, h)]
<1>1. \A place \in S \cup T : f[place] \in Int
  BY MovedByType
<1>2. (\A place \in S : fs[place] \in Int /\ fs[place] = f[place]) /\ (\A place \in T : ft[place] \in Int /\ ft[place] = f[place])
  BY MovedByType
<1>3. Incoming(S, a, h) = SumFunctionOnSet(fs, S) /\ Incoming(T, a, h) = SumFunctionOnSet(ft, T)
      /\ Incoming(S \cup T, a, h) = SumFunctionOnSet(f, S \cup T)
  BY IncomingIsASum
<1> HIDE DEF f, fs, ft
<1>4. SumFunctionOnSet(fs, S) = SumFunctionOnSet(f, S) /\ SumFunctionOnSet(fs, S) \in Int
  <2>1. \A place \in S : fs[place] \in Int
    BY <1>2
  <2> QED BY <1>2, <2>1, SumSame, SumInt
<1>5. SumFunctionOnSet(ft, T) = SumFunctionOnSet(f, T) /\ SumFunctionOnSet(ft, T) \in Int
  <2>1. \A place \in T : ft[place] \in Int
    BY <1>2
  <2> QED BY <1>2, <2>1, SumSame, SumInt
<1>6. SumFunctionOnSet(f, S \cup T) = SumFunctionOnSet(f, S) + SumFunctionOnSet(f, T)
  BY <1>1, SumOfUnion
<1> QED BY <1>3, <1>4, <1>5, <1>6

\* The rows of one address.
RowsOf(S, a) == {place \in S : At(place).at = a}

\* Rows stored for the first time add as many as they are.
LEMMA RowsAreCounted ==
    ASSUME NEW S, NEW T, IsFiniteSet(S), IsFiniteSet(T), S \cap T = {}, NEW a
    PROVE  /\ Cardinality(RowsOf(S, a)) \in Nat /\ Cardinality(RowsOf(T, a)) \in Nat
           /\ Cardinality(RowsOf(S \cup T, a)) = Cardinality(RowsOf(S, a)) + Cardinality(RowsOf(T, a))
<1>1. IsFiniteSet(RowsOf(S, a)) /\ IsFiniteSet(RowsOf(T, a))
  BY FS_Subset DEF RowsOf
<1>2. RowsOf(S, a) \cap RowsOf(T, a) = {} /\ RowsOf(S \cup T, a) = RowsOf(S, a) \cup RowsOf(T, a)
  BY DEF RowsOf
<1>3. Cardinality({}) = 0
  BY FS_EmptySet
<1>4. Cardinality(RowsOf(S, a) \cup RowsOf(T, a)) =
          Cardinality(RowsOf(S, a)) + Cardinality(RowsOf(T, a)) - Cardinality(RowsOf(S, a) \cap RowsOf(T, a))
  BY <1>1, FS_Union
<1>5. Cardinality(RowsOf(S, a)) \in Nat /\ Cardinality(RowsOf(T, a)) \in Nat
  BY <1>1, FS_CardinalityType
<1>6. Cardinality(RowsOf(S, a) \cap RowsOf(T, a)) = 0
  BY <1>2, <1>3
<1>7. Cardinality(RowsOf(S \cup T, a)) = Cardinality(RowsOf(S, a) \cup RowsOf(T, a))
  BY <1>2
<1> QED BY ONLY <1>4, <1>5, <1>6, <1>7

ProbeStates == {"none", "pending", "token", "not_token", "nft", "pair"}

BuiltTypes ==
    /\ layerBlocks \in LayerBlocks /\ recorded \in 0..Len(layerBlocks) /\ builtCursor \in 0..recorded
    /\ probe \in [Addresses -> ProbeStates] /\ waiting \subseteq DOMAIN SidesOf /\ pairs \subseteq DOMAIN SidesOf
    /\ tokens \subseteq Addresses /\ stored \subseteq Everywhere
    /\ rowCount \in [Addresses -> Nat] /\ holding \in [Addresses -> [Holders -> Int]]
    /\ atBuilt \in {"idle", "probing", "stored"} /\ (atBuilt # "idle" => builtCursor < recorded)

\* The rows are complete up to the cursor, and with the block just stored if its cursor has still to move.
Finished == IF atBuilt = "stored" THEN builtCursor + 1 ELSE builtCursor
OfInterest(l) == (l.type = "transfer" /\ l.at \in tokens \ nft) \/ (l.type = "swap" /\ l.at \in pairs)
RowsAreThere == \A place \in UpToBlock(Finished) : OfInterest(At(place)) => place \in stored

TotalsMatchTheRows ==
    \A a \in Addresses :
        /\ rowCount[a] = Cardinality({place \in stored : At(place).at = a})
        /\ \A h \in Holders : holding[a][h] = Incoming(stored, a, h)

\* Who waits is not a pair yet, and is asked as soon as a side is known, or by the block after.
WaitersAreAsked == NoPairWaitsInVain /\ \A p \in waiting : probe[p] # "pair"

BuiltInv == BuiltTypes /\ RowsAreThere /\ TotalsMatchTheRows /\ WaitersAreAsked

LEMMA BuiltStart == ASSUME BuiltInit PROVE BuiltInv
<1>1. /\ layerBlocks \in LayerBlocks /\ recorded = 0 /\ builtCursor = 0 /\ atBuilt = "idle"
      /\ tokens = {} /\ waiting = {} /\ pairs = {} /\ stored = {}
      /\ probe = [a \in Addresses |-> "none"] /\ rowCount = [a \in Addresses |-> 0]
      /\ holding = [a \in Addresses |-> [h \in Holders |-> 0]]
  BY DEF BuiltInit
<1>2. Len(layerBlocks) \in Nat
  BY <1>1, BlocksAreLogs
<1>3. BuiltTypes
  BY <1>1, <1>2 DEF BuiltTypes, ProbeStates
<1>4. RowsAreThere
  <2>1. UpToBlock(Finished) = {}
    BY <1>1 DEF UpToBlock, Finished, Everywhere
  <2> QED BY <2>1 DEF RowsAreThere
<1>5. TotalsMatchTheRows
  <2>1. IsFiniteSet({}) /\ Cardinality({}) = 0
    BY FS_EmptySet
  <2>2. ASSUME NEW a, NEW h PROVE Incoming({}, a, h) = 0
    BY IncomingIsASum, SumEmpty
  <2>3. \A a : {place \in stored : At(place).at = a} = {}
    BY <1>1
  <2> QED BY <1>1, <2>1, <2>2, <2>3 DEF TotalsMatchTheRows
<1>6. WaitersAreAsked
  BY <1>1 DEF WaitersAreAsked, NoPairWaitsInVain
<1> QED BY <1>3, <1>4, <1>5, <1>6 DEF BuiltInv

\* What a block finds, by the names processBuiltLogs gives it.
FreshTokens(failed) == {a \in TokensAsked \ failed : Probed(a) /\ a \in Erc20 /\ a \in AddressesOf({"transfer"})}
PairsProbed(failed) == PairsAsked(KnownTokens(FreshTokens(failed)))
PairsFound(failed) == {p \in (PairsProbed(failed) \ failed) \cap DOMAIN SidesOf : SideKnown(p, KnownTokens(FreshTokens(failed)))}
PairsThatWait(failed) == {p \in (PairsProbed(failed) \ failed) \cap DOMAIN SidesOf : ~SideKnown(p, KnownTokens(FreshTokens(failed)))}
TokensShown(failed) == ((tokens \ nft) \cup FreshTokens(failed)) \ Demoted
RowPlaces(failed) ==
    {place \in ReadBack(FreshTokens(failed) \cup PairsFound(failed)) :
        Recognised(At(place).at, TokensShown(failed), PairsFound(failed), At(place).type)}

NewRows(failed) == FirstTime(RowPlaces(failed))
Refused(failed) ==
    (TokensAsked \cup PairsProbed(failed))
        \ (failed \cup PairsFound(failed) \cup PairsThatWait(failed) \cup (FreshTokens(failed) \ PairsProbed(failed)))

LEMMA StoreBuiltWrites ==
    ASSUME NEW failed, StoreBuilt(failed)
    PROVE  /\ atBuilt = "probing" /\ atBuilt' = "stored"
           /\ failed \subseteq {a \in TokensAsked : Probed(a)} \cup PairsProbed(failed)
           /\ probe' = [a \in Addresses |->
                    CASE a \in PairsFound(failed) -> "pair"
                      [] a \in PairsThatWait(failed) \cup failed -> "pending"
                      [] a \in FreshTokens(failed) \ PairsProbed(failed) -> "token"
                      [] a \in Refused(failed) -> "not_token"
                      [] a \in Demoted \ PairsProbed(failed) -> "nft"
                      [] OTHER -> probe[a]]
           /\ tokens' = tokens \cup FreshTokens(failed) /\ nft' = nft \cup (Demoted \cap tokens)
           /\ pairs' = pairs \cup PairsFound(failed)
           /\ waiting' = (waiting \cup PairsThatWait(failed)) \ PairsFound(failed)
           /\ stored' = stored \cup RowPlaces(failed)
           /\ rowCount' = [a \in Addresses |->
                              rowCount[a] + Cardinality(RowsOf(NewRows(failed), a))]
           /\ holding' = [a \in Addresses |->
                              [h \in Holders |-> holding[a][h] + Incoming(NewRows(failed), a, h)]]
           /\ unprobed' = (unprobed \cup (failed \cap waiting)) \ (PairsProbed(failed) \ failed)
           /\ UNCHANGED <<layerBlocks, recorded, builtCursor>>
BY Zenon DEF StoreBuilt, FreshTokens, PairsProbed, PairsFound, PairsThatWait, TokensShown, RowPlaces, NewRows, RowsOf, Refused

LEMMA BlockInHand ==
    ASSUME BuiltInv, atBuilt = "probing"
    PROVE  /\ builtCursor + 1 \in 1..Len(layerBlocks) /\ builtCursor + 1 <= recorded
           /\ Block \in Seq(Logs) /\ DOMAIN Block = DOMAIN layerBlocks[builtCursor + 1]
           /\ \A T : AddressesOf(T) \subseteq Addresses
<1>1. /\ layerBlocks \in LayerBlocks /\ builtCursor \in 0..recorded /\ recorded \in 0..Len(layerBlocks) /\ builtCursor < recorded
  BY DEF BuiltInv, BuiltTypes
<1>2. Len(layerBlocks) \in Nat /\ \A b \in 1..Len(layerBlocks) : layerBlocks[b] \in Seq(Logs)
  BY <1>1, BlocksAreLogs
<1>3. builtCursor + 1 \in 1..Len(layerBlocks) /\ builtCursor + 1 <= recorded
  BY <1>1, <1>2
<1>4. Block \in Seq(Logs)
  BY <1>2, <1>3 DEF Block
<1>5. ASSUME NEW T, NEW a \in AddressesOf(T) PROVE a \in Addresses
  <2>1. PICK l \in Range(Block) : a = l.at
    BY <1>5 DEF AddressesOf
  <2>2. l \in Logs
    BY <1>4, <2>1 DEF Range
  <2> QED BY <2>1, <2>2 DEF Logs
<1> QED BY <1>3, <1>4, <1>5 DEF Block

LEMMA ReadBackIsOfTheLayer ==
    ASSUME BuiltInv, atBuilt = "probing", NEW S PROVE ReadBack(S) \subseteq Everywhere
<1>1. builtCursor + 1 \in 1..Len(layerBlocks) /\ recorded \in 0..Len(layerBlocks) /\ Len(layerBlocks) \in Nat
      /\ \A b \in 1..Len(layerBlocks) : DOMAIN layerBlocks[b] = 1..Len(layerBlocks[b]) /\ Len(layerBlocks[b]) \in Nat
  BY BlockInHand, BlocksAreLogs DEF BuiltInv, BuiltTypes
<1>2. ASSUME NEW b \in 1..Len(layerBlocks), NEW i \in DOMAIN layerBlocks[b] PROVE <<b, i>> \in Everywhere
  <2>1. b \in Nat /\ i \in Nat
    BY <1>1, <1>2
  <2> QED BY <2>1 DEF Everywhere
<1>3. OnlyThisBlock(S) \subseteq Everywhere
  BY <1>1, <1>2, BlockInHand DEF OnlyThisBlock
<1>4. ASSUME NEW b \in 1..recorded, NEW i \in DOMAIN layerBlocks[b] PROVE <<b, i>> \in Everywhere
  BY <1>1, <1>2
<1> QED BY <1>3, <1>4 DEF ReadBack

\* What is read back holds this block, and all that was recorded of an address just recognised.
LEMMA ReadBackReaches ==
    ASSUME BuiltInv, atBuilt = "probing", NEW S, NEW place \in Everywhere,
           place[1] = builtCursor + 1 \/ (place[1] <= builtCursor /\ At(place).at \in S)
    PROVE  place \in ReadBack(S)
<1>1. place = <<place[1], place[2]>> /\ place[1] \in 1..Len(layerBlocks) /\ place[2] \in DOMAIN layerBlocks[place[1]]
  BY DEF Everywhere
<1>2. builtCursor + 1 <= recorded /\ recorded \in Nat /\ builtCursor \in Nat /\ Len(layerBlocks) \in Nat
  BY BlockInHand, BlocksAreLogs DEF BuiltInv, BuiltTypes
<1>3. CASE place[1] = builtCursor + 1
  <2>1. place[2] \in DOMAIN Block
    BY <1>1, <1>3 DEF Block
  <2>2. place = <<builtCursor + 1, place[2]>>
    BY <1>1, <1>3
  <2> QED BY <2>1, <2>2 DEF ReadBack, OnlyThisBlock
<1>4. CASE place[1] <= builtCursor /\ At(place).at \in S
  <2>1. place[1] \in 1..recorded
    BY <1>1, <1>2, <1>4
  <2>2. layerBlocks[place[1]][place[2]].at \in S
    BY <1>4 DEF At
  <2>3. \E b \in 1..recorded : \E i \in {j \in DOMAIN layerBlocks[b] : layerBlocks[b][j].at \in S} : place = <<b, i>>
    BY <1>1, <2>1, <2>2
  <2> QED BY <2>3 DEF ReadBack
<1> QED BY <1>3, <1>4

LEMMA RowsStayComplete ==
    ASSUME BuiltInv, NEW failed, StoreBuilt(failed) PROVE RowsAreThere' /\ stored' \subseteq Everywhere
<1>1. /\ atBuilt = "probing" /\ atBuilt' = "stored"
      /\ tokens' = tokens \cup FreshTokens(failed) /\ nft' = nft \cup (Demoted \cap tokens)
      /\ pairs' = pairs \cup PairsFound(failed) /\ stored' = stored \cup RowPlaces(failed)
      /\ layerBlocks' = layerBlocks /\ builtCursor' = builtCursor
  BY StoreBuiltWrites
<1>2. Finished = builtCursor /\ Finished' = builtCursor + 1 /\ builtCursor \in Nat
  BY <1>1 DEF Finished, BuiltInv, BuiltTypes
<1>3. UpToBlock(Finished)' = UpToBlock(builtCursor + 1)
  BY <1>1, <1>2 DEF UpToBlock, Everywhere
<1>4. tokens' \ nft' \subseteq TokensShown(failed)
  <2>1. FreshTokens(failed) \cap Demoted = {}
    BY DEF FreshTokens, TokensAsked
  <2> QED BY <1>1, <2>1 DEF TokensShown
<1>5. ASSUME NEW place \in UpToBlock(builtCursor + 1), OfInterest(At(place))' PROVE place \in stored'
  <2>1. place \in Everywhere /\ place[1] <= builtCursor + 1 /\ place[1] \in Nat
    BY DEF UpToBlock, Everywhere
  <2>2. At(place)' = At(place)
    BY <1>1 DEF At
  <2>3. \/ At(place).type = "transfer" /\ At(place).at \in tokens' \ nft'
        \/ At(place).type = "swap" /\ At(place).at \in pairs'
    BY <1>5, <2>2 DEF OfInterest
  <2>4. Recognised(At(place).at, TokensShown(failed), PairsFound(failed), At(place).type)
    BY <1>1, <1>4, <2>3 DEF Recognised
  <2>5. CASE place[1] = builtCursor + 1
    <3>1. place \in ReadBack(FreshTokens(failed) \cup PairsFound(failed))
      BY <1>1, <2>1, <2>5, ReadBackReaches
    <3> QED BY <1>1, <2>4, <3>1 DEF RowPlaces
  <2>6. CASE place[1] # builtCursor + 1
    <3>1. place[1] <= builtCursor
      BY <1>2, <2>1, <2>6
    <3>2. CASE OfInterest(At(place))
      BY <1>1, <1>2, <2>1, <3>1, <3>2 DEF BuiltInv, RowsAreThere, UpToBlock
    <3>3. CASE ~OfInterest(At(place))
      <4>1. At(place).at \in FreshTokens(failed) \cup PairsFound(failed)
        BY <1>1, <2>3, <3>3 DEF OfInterest
      <4>2. place \in ReadBack(FreshTokens(failed) \cup PairsFound(failed))
        BY <1>1, <2>1, <3>1, <4>1, ReadBackReaches
      <4> QED BY <1>1, <2>4, <4>2 DEF RowPlaces
    <3> QED BY <3>2, <3>3
  <2> QED BY <2>5, <2>6
<1>6. RowsAreThere'
  BY <1>3, <1>5 DEF RowsAreThere
<1>7. stored' \subseteq Everywhere
  <2>1. RowPlaces(failed) \subseteq Everywhere
    BY <1>1, ReadBackIsOfTheLayer DEF RowPlaces
  <2> QED BY <1>1, <2>1 DEF BuiltInv, BuiltTypes
<1> QED BY <1>6, <1>7

LEMMA TotalsStayTrue ==
    ASSUME BuiltInv, NEW failed, StoreBuilt(failed)
    PROVE  TotalsMatchTheRows' /\ rowCount' \in [Addresses -> Nat] /\ holding' \in [Addresses -> [Holders -> Int]]
<1>1. /\ stored' = stored \cup RowPlaces(failed) /\ layerBlocks' = layerBlocks /\ atBuilt = "probing"
      /\ rowCount' = [a \in Addresses |-> rowCount[a] + Cardinality(RowsOf(NewRows(failed), a))]
      /\ holding' = [a \in Addresses |-> [h \in Holders |-> holding[a][h] + Incoming(NewRows(failed), a, h)]]
  BY StoreBuiltWrites
<1>2. PICK rows : rows = NewRows(failed)
  OBVIOUS
<1>3. stored' = stored \cup rows /\ stored \cap rows = {} /\ rows \subseteq Everywhere /\ stored \subseteq Everywhere
  <2>1. RowPlaces(failed) \subseteq Everywhere
    BY <1>1, ReadBackIsOfTheLayer DEF RowPlaces
  <2> QED BY <1>1, <1>2, <2>1 DEF NewRows, FirstTime, BuiltInv, BuiltTypes
<1>4. layerBlocks \in LayerBlocks /\ rowCount \in [Addresses -> Nat] /\ holding \in [Addresses -> [Holders -> Int]]
  BY DEF BuiltInv, BuiltTypes
<1>5. IsFiniteSet(stored) /\ IsFiniteSet(rows)
  BY <1>3, <1>4, EverywhereIsFinite, FS_Subset
<1>6. \A place \in stored \cup rows : At(place) \in Logs
  BY <1>3, <1>4, BlocksAreLogs
<1>7. \A a, h : /\ Incoming(stored, a, h) \in Int /\ Incoming(rows, a, h) \in Int
                /\ Incoming(stored \cup rows, a, h) = Incoming(stored, a, h) + Incoming(rows, a, h)
  BY <1>3, <1>5, <1>6, RowsAddUp
<1>8. \A a : /\ Cardinality(RowsOf(stored, a)) \in Nat /\ Cardinality(RowsOf(rows, a)) \in Nat
             /\ Cardinality(RowsOf(stored \cup rows, a)) = Cardinality(RowsOf(stored, a)) + Cardinality(RowsOf(rows, a))
  BY <1>3, <1>5, RowsAreCounted
<1>9. \A a \in Addresses :
          rowCount[a] = Cardinality(RowsOf(stored, a)) /\ \A h \in Holders : holding[a][h] = Incoming(stored, a, h)
  BY DEF BuiltInv, TotalsMatchTheRows, RowsOf
<1>10. \A a \in Addresses : rowCount'[a] = Cardinality(RowsOf(stored \cup rows, a)) /\ rowCount'[a] \in Nat
  <2> TAKE a \in Addresses
  <2>1. rowCount'[a] = rowCount[a] + Cardinality(RowsOf(rows, a))
    BY <1>1, <1>2
  <2>2. rowCount[a] = Cardinality(RowsOf(stored, a))
    BY <1>9
  <2>3. /\ Cardinality(RowsOf(stored, a)) \in Nat /\ Cardinality(RowsOf(rows, a)) \in Nat
        /\ Cardinality(RowsOf(stored \cup rows, a)) = Cardinality(RowsOf(stored, a)) + Cardinality(RowsOf(rows, a))
    BY <1>8
  <2> QED BY ONLY <2>1, <2>2, <2>3
<1>11. \A a \in Addresses : \A h \in Holders : holding'[a][h] = Incoming(stored \cup rows, a, h) /\ holding'[a][h] \in Int
  <2> TAKE a \in Addresses
  <2> TAKE h \in Holders
  <2>1. holding'[a][h] = holding[a][h] + Incoming(rows, a, h)
    BY <1>1, <1>2
  <2>2. holding[a][h] = Incoming(stored, a, h)
    BY <1>9
  <2>3. /\ Incoming(stored, a, h) \in Int /\ Incoming(rows, a, h) \in Int
        /\ Incoming(stored \cup rows, a, h) = Incoming(stored, a, h) + Incoming(rows, a, h)
    BY <1>7
  <2> QED BY ONLY <2>1, <2>2, <2>3
<1>12. rowCount' \in [Addresses -> Nat] /\ holding' \in [Addresses -> [Holders -> Int]]
  <2>1. \A a \in Addresses : holding'[a] \in [Holders -> Int]
    BY <1>1, <1>11
  <2> QED BY <1>1, <1>10, <2>1
<1>13. ASSUME NEW a \in Addresses
       PROVE  /\ rowCount'[a] = Cardinality({place \in stored' : At(place)'.at = a})
              /\ \A h \in Holders : holding'[a][h] = Incoming(stored, a, h)'
  <2>1. \A place : At(place)' = At(place)
    BY <1>1 DEF At
  <2>2. {place \in stored' : At(place)'.at = a} = RowsOf(stored \cup rows, a)
    BY <1>3, <2>1 DEF RowsOf
  <2>3. \A h : Incoming(stored, a, h)' = Incoming(stored \cup rows, a, h)
    BY <1>1, <1>3 DEF Incoming, At
  <2> QED BY <1>10, <1>11, <2>2, <2>3
<1>14. TotalsMatchTheRows'
  BY <1>13 DEF TotalsMatchTheRows
<1> QED BY <1>12, <1>14

\* A pair that waits with a side known was asked, unless it passed for a token when the block began.
LEMMA WaitersStayAsked ==
    ASSUME BuiltInv, NEW failed, StoreBuilt(failed)
    PROVE  WaitersAreAsked' /\ probe' \in [Addresses -> ProbeStates]
<1> DEFINE found == PairsFound(failed)
           waits == PairsThatWait(failed)
           asked == PairsProbed(failed)
           fresh == FreshTokens(failed)
           known == KnownTokens(fresh)
<1>1. /\ atBuilt = "probing" /\ atBuilt' = "stored"
      /\ failed \subseteq {a \in TokensAsked : Probed(a)} \cup asked
      /\ probe' = [a \in Addresses |->
                    CASE a \in found -> "pair"
                      [] a \in waits \cup failed -> "pending"
                      [] a \in fresh \ asked -> "token"
                      [] a \in Refused(failed) -> "not_token"
                      [] a \in Demoted \ asked -> "nft"
                      [] OTHER -> probe[a]]
      /\ tokens' = tokens \cup fresh /\ nft' = nft \cup (Demoted \cap tokens)
      /\ waiting' = (waiting \cup waits) \ found
      /\ unprobed' = (unprobed \cup (failed \cap waiting)) \ (asked \ failed)
  BY StoreBuiltWrites
<1>2. /\ probe \in [Addresses -> ProbeStates] /\ waiting \subseteq DOMAIN SidesOf /\ DOMAIN SidesOf \subseteq Addresses
      /\ \A p \in waiting : probe[p] # "pair"
  BY BuiltInputs DEF BuiltInv, BuiltTypes, WaitersAreAsked
<1>3. /\ found = {p \in (asked \ failed) \cap DOMAIN SidesOf : SideKnown(p, known)}
      /\ waits = {p \in (asked \ failed) \cap DOMAIN SidesOf : ~SideKnown(p, known)}
  BY DEF PairsFound, PairsThatWait, PairsProbed
<1>4. /\ fresh \subseteq TokensAsked \ failed /\ TokensAsked \cap Demoted = {}
      /\ \A a \in TokensAsked : Unsettled(a)
  BY DEF FreshTokens, TokensAsked
<1>5. \A p \in waiting : SideKnown(p, known) /\ probe[p] \notin {"pair", "token"} => p \in asked
  BY DEF PairsProbed, PairsAsked
<1>6. \A p \in asked : Unsettled(p) \/ probe[p] \notin {"pair", "token"}
  BY DEF PairsProbed, PairsAsked
<1>7. tokens' \ nft' \subseteq known
  BY <1>1 DEF KnownTokens
<1>8. Refused(failed) = (TokensAsked \cup asked) \ (failed \cup found \cup waits \cup (fresh \ asked))
  BY DEF Refused
<1> HIDE DEF found, waits, asked, fresh, known
<1>9. \A a \in Addresses :
          /\ a \notin found => probe'[a] \in {"pending", "token", "not_token", "nft"} \/ probe'[a] = probe[a]
          /\ a \in waits => probe'[a] = "pending"
          /\ a \notin found \cup waits \cup failed \cup asked \cup TokensAsked => probe'[a] \in {"nft", probe[a]}
  <2> TAKE a \in Addresses
  <2>1. probe'[a] = CASE a \in found -> "pair"
                      [] a \in waits \cup failed -> "pending"
                      [] a \in fresh \ asked -> "token"
                      [] a \in Refused(failed) -> "not_token"
                      [] a \in Demoted \ asked -> "nft"
                      [] OTHER -> probe[a]
    BY <1>1
  <2>2. a \in waits => a \in asked /\ a \notin found
    BY <1>3
  <2> QED BY <1>4, <1>8, <2>1, <2>2
<1>10. probe' \in [Addresses -> ProbeStates]
  <2>1. \A a \in Addresses : probe'[a] \in ProbeStates
    <3> TAKE a \in Addresses
    <3>1. CASE a \in found
      <4>1. a \notin waits \cup failed /\ a \notin Refused(failed) /\ a \in asked
        BY <1>3, <1>8, <3>1
      <4> QED BY <1>1, <3>1, <4>1 DEF ProbeStates
    <3>2. CASE a \notin found
      BY <1>2, <1>9, <3>2 DEF ProbeStates
    <3> QED BY <3>1, <3>2
  <2> QED BY <1>1, <2>1
<1>11. ASSUME NEW p \in waiting' PROVE p \in Addresses /\ p \notin found /\ (p \in waiting \/ p \in waits)
  BY <1>1, <1>2, <1>3
<1>12. ASSUME NEW p \in waiting' PROVE probe'[p] # "pair"
  BY <1>2, <1>9, <1>11
<1>13. ASSUME NEW p \in waiting', SideKnown(p, tokens' \ nft')
       PROVE  p \in unprobed' \/ probe'[p] \in {"token", "nft"}
  <2>1. SideKnown(p, known)
    BY <1>7, <1>13 DEF SideKnown
  <2>2. p \in waiting /\ p \notin waits /\ p \notin found /\ p \in DOMAIN SidesOf /\ p \in Addresses
    BY <1>2, <1>3, <1>11, <2>1
  <2>3. CASE probe[p] = "token"
    <3>1. ~Unsettled(p)
      BY <2>3 DEF Unsettled
    <3>2. p \notin asked /\ p \notin TokensAsked
      BY <1>4, <1>6, <2>3, <3>1
    <3>3. p \notin failed
      BY <1>1, <3>2
    <3> QED BY <1>9, <2>2, <2>3, <3>2, <3>3
  <2>4. CASE probe[p] # "token"
    <3>1. p \in asked
      BY <1>2, <1>5, <2>1, <2>2, <2>4
    <3>2. p \in failed
      BY <1>3, <2>1, <2>2, <3>1
    <3> QED BY <1>1, <2>2, <3>2
  <2> QED BY <2>3, <2>4
<1>14. WaitersAreAsked'
  <2>1. \A p \in waiting' : SideKnown(p, tokens' \ nft') => p \in unprobed' \/ probe'[p] \in {"token", "nft"}
    BY <1>13
  <2> QED BY <1>12, <2>1 DEF WaitersAreAsked, NoPairWaitsInVain, SideKnown
<1> QED BY <1>10, <1>14

LEMMA BuiltStep ==
    ASSUME BuiltInv, [BuiltNext]_builtVars PROVE BuiltInv'
<1>1. ASSUME RecordLogs \/ MoveCursor \/ BuiltCrash \/ UNCHANGED builtVars PROVE BuiltInv'
  <2>1. UNCHANGED <<layerBlocks, probe, tokens, nft, waiting, pairs, stored, rowCount, holding, unprobed>>
    BY <1>1 DEF RecordLogs, MoveCursor, BuiltCrash, builtVars, tables
  <2>2. /\ layerBlocks \in LayerBlocks /\ recorded \in 0..Len(layerBlocks) /\ builtCursor \in 0..recorded
        /\ atBuilt # "idle" => builtCursor < recorded
    BY DEF BuiltInv, BuiltTypes
  <2>3. Len(layerBlocks) \in Nat
    BY <2>2, BlocksAreLogs
  <2>4. /\ recorded' \in 0..Len(layerBlocks) /\ builtCursor' \in 0..recorded'
        /\ atBuilt' \in {"idle", "probing", "stored"} /\ (atBuilt' # "idle" => builtCursor' < recorded')
        /\ Finished' <= Finished /\ Finished' \in Nat /\ Finished \in Nat
    <3>1. CASE RecordLogs
      BY <2>2, <2>3, <3>1 DEF RecordLogs, Finished
    <3>2. CASE MoveCursor
      BY <2>2, <2>3, <3>2 DEF MoveCursor, tables, Finished
    <3>3. CASE BuiltCrash
      BY <2>2, <2>3, <3>3 DEF BuiltCrash, tables, Finished
    <3>4. CASE UNCHANGED builtVars
      BY <2>2, <2>3, <3>4 DEF builtVars, tables, Finished, BuiltInv, BuiltTypes
    <3> QED BY <1>1, <3>1, <3>2, <3>3, <3>4
  <2>5. Everywhere' = Everywhere
    BY <2>1 DEF Everywhere
  <2>6. BuiltTypes'
    BY <2>1, <2>4, <2>5 DEF BuiltInv, BuiltTypes
  <2>7. RowsAreThere'
    <3>1. ASSUME NEW place \in UpToBlock(Finished)', OfInterest(At(place))' PROVE place \in stored'
      <4>1. place \in Everywhere /\ place[1] <= Finished' /\ place[1] \in Nat
        BY <2>5, <3>1 DEF UpToBlock, Everywhere
      <4>2. place \in UpToBlock(Finished)
        BY <2>4, <4>1 DEF UpToBlock
      <4>3. OfInterest(At(place))
        BY <2>1, <3>1 DEF OfInterest, At
      <4> QED BY <2>1, <4>2, <4>3 DEF BuiltInv, RowsAreThere
    <3> QED BY <3>1 DEF RowsAreThere
  <2>8. TotalsMatchTheRows'
    BY <2>1 DEF BuiltInv, TotalsMatchTheRows, At, Incoming
  <2>9. WaitersAreAsked'
    BY <2>1 DEF BuiltInv, WaitersAreAsked, NoPairWaitsInVain, SideKnown
  <2> QED BY <2>6, <2>7, <2>8, <2>9 DEF BuiltInv
<1>2. ASSUME NEW failed, StoreBuilt(failed) PROVE BuiltInv'
  <2>1. /\ atBuilt = "probing" /\ atBuilt' = "stored" /\ UNCHANGED <<layerBlocks, recorded, builtCursor>>
        /\ tokens' = tokens \cup FreshTokens(failed) /\ pairs' = pairs \cup PairsFound(failed)
        /\ waiting' = (waiting \cup PairsThatWait(failed)) \ PairsFound(failed)
    BY <1>2, StoreBuiltWrites
  <2>2. FreshTokens(failed) \subseteq Addresses
    BY <2>1, BlockInHand DEF FreshTokens
  <2>3. PairsFound(failed) \subseteq DOMAIN SidesOf /\ PairsThatWait(failed) \subseteq DOMAIN SidesOf
    BY DEF PairsFound, PairsThatWait
  <2>4. stored' \subseteq Everywhere /\ Everywhere' = Everywhere
    BY <1>2, <2>1, RowsStayComplete DEF Everywhere
  <2>5. /\ probe' \in [Addresses -> ProbeStates] /\ rowCount' \in [Addresses -> Nat]
        /\ holding' \in [Addresses -> [Holders -> Int]]
    BY <1>2, WaitersStayAsked, TotalsStayTrue
  <2>6. BuiltTypes'
    BY <2>1, <2>2, <2>3, <2>4, <2>5 DEF BuiltInv, BuiltTypes
  <2> QED BY <1>2, <2>6, RowsStayComplete, TotalsStayTrue, WaitersStayAsked DEF BuiltInv
<1> QED BY <1>1, <1>2 DEF BuiltNext

LEMMA BuiltInvSuffices == ASSUME BuiltInv PROVE LateIsAsGoodAsEarly
<1>1. /\ layerBlocks \in LayerBlocks /\ recorded \in 0..Len(layerBlocks) /\ builtCursor \in 0..recorded
      /\ Len(layerBlocks) \in Nat /\ Finished >= builtCursor /\ Finished \in Nat
  BY BlocksAreLogs DEF BuiltInv, BuiltTypes, Finished
<1>2. ASSUME NEW place \in Places, OfInterest(At(place)) PROVE place \in stored
  <2>1. PICK b \in 1..builtCursor : place \in {<<b, i>> : i \in DOMAIN layerBlocks[b]}
    BY <1>2 DEF Places
  <2>2. PICK i \in DOMAIN layerBlocks[b] : place = <<b, i>>
    BY <2>1
  <2>3. b \in 1..Len(layerBlocks) /\ b <= Finished
    BY <1>1
  <2>4. i \in Nat
    BY <1>1, <2>3, BlocksAreLogs
  <2>5. place \in UpToBlock(Finished)
    BY <2>2, <2>3, <2>4 DEF UpToBlock, Everywhere
  <2> QED BY <1>2, <2>5 DEF BuiltInv, RowsAreThere
<1>3. HoldingsMatchTheLogs
  BY <1>2 DEF HoldingsMatchTheLogs, OfInterest, BuiltInv, TotalsMatchTheRows
<1> QED BY <1>3 DEF LateIsAsGoodAsEarly, BuiltInv, WaitersAreAsked

LEMMA IndexerMoves == ASSUME [EdgesNext]_edgeVars PROVE [IndexerNext]_indexerVars
BY DEF EdgesNext, edgeVars

LEMMA BuiltMoves == ASSUME [EdgesNext]_edgeVars PROVE [BuiltNext]_builtVars
BY DEF EdgesNext, edgeVars

\* The indexer's tables are what the two chains say, up to the cursors and whichever loop was first,
\* cut off or repeated; and what an agent's token or pair did before it was recognised is in the
\* explorer's tables as completely as what it did afterwards.
THEOREM IndexTrue == EdgesSpec => []IndexIsTrue
<1>1. EdgesInit => IndexInv /\ BuiltInv
  BY IndexStart, BuiltStart DEF EdgesInit
<1>2. IndexInv /\ BuiltInv /\ [EdgesNext]_edgeVars => (IndexInv /\ BuiltInv)'
  BY IndexerMoves, BuiltMoves, IndexStep, BuiltStep
<1>3. IndexInv /\ BuiltInv => IndexIsTrue
  BY IndexInvSuffices, BuiltInvSuffices DEF IndexIsTrue
<1> QED BY <1>1, <1>2, <1>3, PTL DEF EdgesSpec

\* No late, repeated or old message takes back what it finds done: a node struck out stays out or is
\* registered anew, the gate's row of an agent never goes back to an older block, a rotation works once,
\* and what one loop of the indexer completed the other does not take away.
THEOREM NothingUndone == EdgesSpec => NothingIsTakenBack
<1>1. EdgesInit => RegistryInv /\ GateInv /\ IndexInv
  BY EdgesStart, RegistryStart, GateStart, IndexStart DEF EdgesInit
<1>2. RegistryInv /\ GateInv /\ IndexInv /\ [EdgesNext]_edgeVars => (RegistryInv /\ GateInv /\ IndexInv)'
  BY RegistryMoves, LayerMoves, IndexerMoves, RegistryStep, GateStep, IndexStep
<1>3. RegistryInv /\ GateInv /\ IndexInv /\ [EdgesNext]_edgeVars =>
          [StruckOutStaysOut /\ TheGateNeverGoesBack /\ RotationsAreNotReplayed /\ ReplaysTakeNothingBack]_edgeVars
  BY RegistryMoves, LayerMoves, IndexerMoves, OutStaysOut, RowsOnlyAdvance, RotationsOnlyAdvance,
     IndexStep, ReplaysAreHarmless
<1> QED BY <1>1, <1>2, <1>3, PTL DEF EdgesSpec, NothingIsTakenBack
=============================================================================
