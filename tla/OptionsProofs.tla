---------------------------- MODULE OptionsProofs ----------------------------
(***************************************************************************)
(* Theorems about the way from the command line to a session, for every    *)
(* limit, width and size, and whatever is asked for.                       *)
(***************************************************************************)
EXTENDS Options, SharedLemmas

-----------------------------------------------------------------------------
(* The sizes of buffers *)

LEMMA DivMod ==
  ASSUME NEW a \in Nat, NEW b \in Nat \ {0}
  PROVE  /\ a \div b \in Nat /\ (a \div b) * b <= a
         /\ a % b \in 0 .. b - 1
BY SMT

LEMMA RoundDownType ==
  ASSUME NEW a \in Nat, NEW b \in Nat \ {0}
  PROVE  RoundDown(a, b) \in Nat /\ RoundDown(a, b) <= a
<1>1. a \div b \in Nat /\ (a \div b) * b <= a
  BY DivMod
<1>2. (a \div b) * b \in Nat
  BY <1>1, SMT
<1> QED
  BY <1>1, <1>2 DEF RoundDown

LEMMA ActualSizeType ==
  ASSUME NEW m \in Nat, NEW t \in Nat
  PROVE  ActualSize(m, t) \in Nat
<1>1. DwordMod \in Nat \ {0} /\ Granularity \in Nat \ {0}
  BY BufferAssumption
<1>2. m * t \in Nat
  BY SMT
<1>3. DesiredSize(m, t) \in Nat
  BY <1>1, <1>2, DivMod DEF DesiredSize
<1>4. RoundUp(DesiredSize(m, t), Granularity) \in Nat
  BY <1>1, <1>3, RoundDownType DEF RoundUp
<1>5. RoundDown(DwordMod - 1, Granularity) \in Nat
  <2>1. DwordMod - 1 \in Nat
    BY <1>1
  <2> QED
    BY <1>1, <2>1, RoundDownType
<1> QED
  BY <1>4, <1>5 DEF ActualSize

(* Nothing is allocated for no messages.                                   *)
LEMMA NothingForNone ==
  ASSUME NEW m \in Nat
  PROVE  ActualSize(m, 0) = 0
<1>1. DwordMod \in Nat \ {0} /\ Granularity \in Nat \ {0}
  BY BufferAssumption
<1>2. m * 0 = 0
  BY SMT
<1>3. \A b \in Nat \ {0} : 0 % b = 0 /\ 0 \div b = 0
  BY SMT
<1>4. DesiredSize(m, 0) = 0
  BY <1>1, <1>2, <1>3 DEF DesiredSize
<1>5. RoundUp(0, Granularity) = 0
  <2>1. 0 % Granularity = 0 /\ 0 \div Granularity = 0
    BY <1>1, <1>3
  <2>2. RoundDown(0, Granularity) = 0 * Granularity
    BY <2>1 DEF RoundDown
  <2>3. 0 * Granularity = 0
    BY <1>1, SMT
  <2> QED
    BY <2>1, <2>2, <2>3 DEF RoundUp
<1> QED
  BY <1>1, <1>4, <1>5 DEF ActualSize

(* A buffer that is accepted has a place for every message, although its   *)
(* size is computed modulo 2^32.                                           *)
LEMMA AllocatesHasRoom ==
  ASSUME NEW m \in Nat \ {0}, NEW t \in Nat, Allocates(m, t)
  PROVE  HasRoom(m, t)
<1> DEFINE a == ActualSize(m, t)
<1>1. a \in Nat /\ a > 0
  BY ActualSizeType DEF Allocates
<1> HIDE DEF a
<1>2. a \div m \in Nat /\ (a \div m) * m <= a
  BY <1>1, DivMod
<1>3. t <= a \div m
  <2>1. Min({t, a \div m}) = t
    BY DEF Allocates, BuffersAllocated, a
  <2>2. \E x \in {t, a \div m} : \A y \in {t, a \div m} : x <= y
    BY <1>2
  <2>3. \A y \in {t, a \div m} : Min({t, a \div m}) <= y
    BY <2>2 DEF Min
  <2> QED
    BY <2>1, <2>3
<1>4. m * t <= a
  <2>1. m * t <= m * (a \div m)
    BY <1>2, <1>3, SMT
  <2>2. m * t \in Nat /\ m * (a \div m) = (a \div m) * m
    BY <1>2, SMT
  <2> QED
    BY <1>1, <1>2, <2>1, <2>2, SMT
<1>5. t # 0
  BY NothingForNone DEF Allocates
<1> QED
  BY <1>4, <1>5 DEF HasRoom, a

-----------------------------------------------------------------------------
(* The way to a session *)

(* What each step has made sure of.                                        *)
Inv ==
  /\ asked.pps \in Int
  /\ \E S : ip_vec \in Seq(S)
  /\ pc \in {"locate", "construct", "started"} => asked.pps >= 1
  /\ pc = "started" => \A b \in Buffers : Allocates(b[1], b[2])

LEMMA Initially == Init => Inv
<1> SUFFICES ASSUME Init PROVE Inv
  OBVIOUS
<1>1. asked.pps \in Rates
  BY DEF Init
<1>2. asked.pps \in Int
  BY <1>1, OptionsAssumption
<1>3. ip_vec \in Seq(Int)
  BY DEF Init
<1> QED
  BY <1>2, <1>3 DEF Init, Inv

LEMMA PushBackKeeps == ASSUME Inv, PushBack PROVE Inv'
<1>1. PICK S : ip_vec \in Seq(S)
  BY DEF Inv
<1>2. ip_vec' \in Seq(S \cup {current})
  <2>1. ip_vec \in Seq(S \cup {current})
    BY <1>1
  <2> QED
    BY <2>1 DEF PushBack
<1>3. UNCHANGED <<asked, pc, interface>> /\ pc = "expand"
  BY DEF PushBack
<1> QED
  BY <1>2, <1>3 DEF Inv

LEMMA CheckKeeps == ASSUME Inv, Check PROVE Inv'
<1>1. pc' = "locate" => asked.pps >= 1
  BY DEF Check, Acceptable
<1>2. pc' \in {"locate", "rejected"} /\ UNCHANGED <<asked, ip_vec>>
  BY DEF Check
<1> QED
  BY <1>1, <1>2 DEF Inv

LEMMA LocateAdapterKeeps == ASSUME Inv, LocateAdapter PROVE Inv'
<1>1. UNCHANGED <<asked, ip_vec>> /\ pc = "locate" /\ pc' \in {"construct", "rejected"}
  BY DEF LocateAdapter
<1> QED
  BY <1>1 DEF Inv

LEMMA ConstructKeeps == ASSUME Inv, Construct PROVE Inv'
<1>1. UNCHANGED <<asked, ip_vec, interface>> /\ pc = "construct"
  BY DEF Construct
<1>2. pc' \in {"started", "failed"}
  BY DEF Construct
<1>3. Buffers' = Buffers
  BY <1>1 DEF Buffers
<1>4. pc' = "started" => \A b \in Buffers : Allocates(b[1], b[2])
  BY DEF Construct
<1> QED
  BY <1>1, <1>2, <1>3, <1>4
     DEF Inv, Allocates, BuffersAllocated, ActualSize, DesiredSize

(* What is checked on the way stays true until the session starts.         *)
THEOREM OptionsInvariance == Spec => []Inv
<1>1. Inv /\ [Next]_vars => Inv'
  <2> SUFFICES ASSUME Inv, [Next]_vars PROVE Inv'
    OBVIOUS
  <2>1. CASE MakeIpv4Range
    BY <2>1 DEF MakeIpv4Range, Inv
  <2>2. CASE PushBack
    BY <2>2, PushBackKeeps
  <2>3. CASE EndOfRange
    BY <2>3 DEF EndOfRange, Inv
  <2>4. CASE Check
    BY <2>4, CheckKeeps
  <2>5. CASE LocateAdapter
    BY <2>5, LocateAdapterKeeps
  <2>6. CASE Construct
    BY <2>6, ConstructKeeps
  <2>7. CASE UNCHANGED vars
    <3>1. UNCHANGED <<asked, pc, ip_vec, interface>>
      BY <2>7 DEF vars
    <3> QED
      BY <3>1 DEF Inv, Buffers
  <2> QED
    BY <2>1, <2>2, <2>3, <2>4, <2>5, <2>6, <2>7 DEF Next
<1> QED
  BY Initially, <1>1, PTL DEF Spec

(* A session that starts has room for every message, for every message     *)
(* size, rate and number of groups, although 32 bits may not hold the      *)
(* product (RioSession.cpp:95-119, :138).                                  *)
THEOREM RoomForAll == Spec => []SessionHasRoom
<1>1. Inv => SessionHasRoom
  <2> SUFFICES ASSUME Inv, pc = "started", NEW b \in Buffers PROVE HasRoom(b[1], b[2])
    BY DEF SessionHasRoom
  <2>1. Allocates(b[1], b[2])
    BY DEF Inv
  <2>2. asked.pps \in Nat
    BY DEF Inv
  <2>3. Len(ip_vec) \in Nat
    BY DEF Inv
  <2>4. b[1] \in Nat \ {0} /\ b[2] \in Nat
    BY <2>2, <2>3, OptionsAssumption DEF Buffers
  <2> QED
    BY <2>1, <2>4, AllocatesHasRoom
<1> QED
  BY OptionsInvariance, <1>1, PTL

-----------------------------------------------------------------------------
(* Addresses and their octets *)

\* g starts with b and goes from each value to the next by F.
Iterates(g, n, b, F) == \A k \in 0 .. n : g[k] = IF k = 0 THEN b ELSE F[k][g[k - 1]]

\* There is a function that is defined by recursion over an interval.
LEMMA RecursionExists ==
  ASSUME NEW n \in Nat, NEW D, NEW b \in D, NEW F \in [1 .. n -> [D -> D]]
  PROVE  \E g \in [0 .. n -> D] : Iterates(g, n, b, F)
<1> DEFINE Follows(g, k) == g[k] = IF k = 0 THEN b ELSE F[k][g[k - 1]]
           Known(g, m) == g \in [0 .. n -> D] /\ \A k \in 0 .. n : k <= m => Follows(g, k)
           X == {m \in Nat : \E g : Known(g, m)}
<1>1. 0 \in X
  <2> DEFINE g == [k \in 0 .. n |-> b]
  <2>1. Known(g, 0)
    OBVIOUS
  <2> QED
    BY <2>1
<1>2. ASSUME NEW m \in Nat, m \in X PROVE m + 1 \in X
  <2>1. PICK g : Known(g, m)
    BY <1>2
  <2> DEFINE h == [k \in 0 .. n |-> IF k = 0 THEN b ELSE F[k][g[k - 1]]]
  <2>2. h \in [0 .. n -> D]
    <3>1. ASSUME NEW k \in 0 .. n PROVE h[k] \in D
      <4>1. CASE k = 0
        BY <4>1
      <4>2. CASE k # 0
        <5>1. k \in 1 .. n /\ k - 1 \in 0 .. n
          BY <4>2
        <5>2. g[k - 1] \in D /\ F[k] \in [D -> D]
          BY <2>1, <5>1
        <5> QED
          BY <4>2, <5>2
      <4> QED
        BY <4>1, <4>2
    <3> QED
      BY <3>1
  <2>3. ASSUME NEW k \in 0 .. n, k <= m + 1 PROVE Follows(h, k)
    <3>1. CASE k = 0
      BY <3>1
    <3>2. CASE k # 0
      <4>1. k - 1 \in 0 .. n /\ k - 1 <= m
        BY <2>3, <3>2
      <4>2. h[k - 1] = g[k - 1]
        BY <2>1, <4>1
      <4> QED
        BY <3>2, <4>2
    <3> QED
      BY <3>1, <3>2
  <2>4. Known(h, m + 1)
    BY <2>2, <2>3
  <2> HIDE DEF h, Known
  <2> QED
    BY <2>4
<1>3. n \in X
  BY <1>1, <1>2, NatSet
<1>4. PICK g : Known(g, n)
  BY <1>3
<1> QED
  BY <1>4 DEF Iterates

\* Each weight is the base times the one before.
LEMMA WeightStep ==
  /\ Weight \in [0 .. Octets -> Nat \ {0}] /\ Weight[0] = 1
  /\ \A k \in 1 .. Octets : Weight[k] = Weight[k - 1] * OctetBase
<1> DEFINE D == Nat \ {0}
           F == [k \in 1 .. Octets |-> [x \in D |-> x * OctetBase]]
           Rec(g) == g = [k \in 0 .. Octets |-> IF k = 0 THEN 1 ELSE g[k - 1] * OctetBase]
<1>1. Octets \in Nat \ {0} /\ OctetBase \in Nat \ {0, 1}
  BY AddressAssumption
<1>2. F \in [1 .. Octets -> [D -> D]]
  <2>1. \A x \in D : x * OctetBase \in D
    BY <1>1, SMT
  <2> QED
    BY <2>1
<1>3. PICK g \in [0 .. Octets -> D] : Iterates(g, Octets, 1, F)
  <2>1. 1 \in D
    OBVIOUS
  <2> HIDE DEF F, D
  <2> QED
    BY <1>1, <1>2, <2>1, RecursionExists
<1>4. Rec(g)
  <2>1. ASSUME NEW k \in 0 .. Octets, k # 0 PROVE F[k][g[k - 1]] = g[k - 1] * OctetBase
    <3>1. k \in 1 .. Octets /\ g[k - 1] \in D
      BY <1>1, <2>1
    <3> QED
      BY <3>1
  <2> HIDE DEF F, D
  <2> QED
    BY <1>3, <2>1 DEF Iterates
<1>5. Rec(Weight)
  BY <1>4 DEF Weight
<1>6. Weight[0] = 1 /\ \A k \in 1 .. Octets : Weight[k] = Weight[k - 1] * OctetBase
  <2>1. ASSUME NEW k \in 0 .. Octets
        PROVE  Weight[k] = IF k = 0 THEN 1 ELSE Weight[k - 1] * OctetBase
    BY <1>5
  <2> QED
    BY <1>1, <2>1
<1>7. \A k \in 0 .. Octets : Weight[k] \in D
  <2> DEFINE X == {k \in Nat : k \in 0 .. Octets => Weight[k] \in D}
  <2>1. 0 \in X
    BY <1>6
  <2>2. ASSUME NEW k \in Nat, k \in X PROVE k + 1 \in X
    <3>1. CASE k + 1 \in 0 .. Octets
      <4>1. k \in 0 .. Octets /\ k + 1 \in 1 .. Octets /\ (k + 1) - 1 = k
        BY <1>1, <3>1
      <4>2. Weight[k] \in D /\ Weight[k + 1] = Weight[k] * OctetBase
        BY <1>6, <2>2, <4>1
      <4>3. Weight[k] * OctetBase \in D
        <5>1. ASSUME NEW w \in D PROVE w * OctetBase \in D
          BY <1>1, SMT
        <5> QED
          BY <4>2, <5>1
      <4> QED
        BY <4>2, <4>3
    <3> QED
      BY <3>1
  <2>3. Nat \subseteq X
    BY <2>1, <2>2, NatSet
  <2> QED
    BY <1>1, <2>3
<1>8. Weight = [k \in 0 .. Octets |-> Weight[k]]
  BY <1>5
<1> QED
  BY <1>6, <1>7, <1>8

Texts == [1 .. Octets -> OctetValues]

\* The value of the first k octets of a text, for every k.
UpTo(text) ==
  CHOOSE upTo : upTo = [k \in 0 .. Octets |->
                          IF k = 0 THEN 0 ELSE upTo[k - 1] * OctetBase + text[k]]

LEMMA UpToStep ==
  ASSUME NEW text \in Texts
  PROVE  /\ Ipv4Addr(text) = UpTo(text)[Octets] /\ UpTo(text)[0] = 0
         /\ \A k \in 0 .. Octets : UpTo(text)[k] \in Nat
         /\ \A k \in 1 .. Octets : UpTo(text)[k] = UpTo(text)[k - 1] * OctetBase + text[k]
<1> DEFINE F == [k \in 1 .. Octets |-> [x \in Nat |-> x * OctetBase + text[k]]]
           Rec(g) == g = [k \in 0 .. Octets |-> IF k = 0 THEN 0 ELSE g[k - 1] * OctetBase + text[k]]
           u == UpTo(text)
<1>1. Octets \in Nat \ {0} /\ OctetBase \in Nat \ {0, 1} /\ \A k \in 1 .. Octets : text[k] \in Nat
  BY AddressAssumption DEF Texts, OctetValues
<1>2. \A x \in Nat, t \in Nat : x * OctetBase + t \in Nat
  <2>1. \A x \in Nat : x * OctetBase \in Nat
    BY <1>1, SMT
  <2> QED
    BY <2>1
<1>3. F \in [1 .. Octets -> [Nat -> Nat]]
  BY <1>1, <1>2
<1>4. PICK g \in [0 .. Octets -> Nat] : Iterates(g, Octets, 0, F)
  <2> HIDE DEF F
  <2> QED
    BY <1>1, <1>3, RecursionExists
<1>5. Rec(g)
  <2>1. ASSUME NEW k \in 0 .. Octets, k # 0 PROVE F[k][g[k - 1]] = g[k - 1] * OctetBase + text[k]
    <3>1. k \in 1 .. Octets /\ g[k - 1] \in Nat
      BY <1>1, <2>1
    <3> QED
      BY <3>1
  <2> HIDE DEF F
  <2> QED
    BY <1>4, <2>1 DEF Iterates
<1>6. Rec(u)
  BY <1>5 DEF UpTo
<1>7. Ipv4Addr(text) = u[Octets]
  BY DEF Ipv4Addr, UpTo
<1> HIDE DEF u
<1>8. u[0] = 0 /\ \A k \in 1 .. Octets : u[k] = u[k - 1] * OctetBase + text[k]
  <2>1. ASSUME NEW k \in 0 .. Octets
        PROVE  u[k] = IF k = 0 THEN 0 ELSE u[k - 1] * OctetBase + text[k]
    BY <1>6
  <2> QED
    BY <1>1, <2>1
<1>9. \A k \in 0 .. Octets : u[k] \in Nat
  <2> DEFINE X == {k \in Nat : k \in 0 .. Octets => u[k] \in Nat}
  <2>1. 0 \in X
    BY <1>8
  <2>2. ASSUME NEW k \in Nat, k \in X PROVE k + 1 \in X
    <3>1. CASE k + 1 \in 0 .. Octets
      <4>1. k \in 0 .. Octets /\ k + 1 \in 1 .. Octets /\ (k + 1) - 1 = k
        BY <1>1, <3>1
      <4>2. u[k] \in Nat /\ u[k + 1] = u[k] * OctetBase + text[k + 1]
        BY <1>8, <2>2, <4>1
      <4>3. u[k] * OctetBase + text[k + 1] \in Nat
        BY <1>1, <1>2, <4>1, <4>2
      <4> QED
        BY <4>2, <4>3
    <3> QED
      BY <3>1
  <2>3. Nat \subseteq X
    BY <2>1, <2>2, NatSet
  <2> QED
    BY <1>1, <2>3
<1> QED
  BY <1>7, <1>8, <1>9 DEF u


LEMMA DivDiv ==
  ASSUME NEW a \in Nat, NEW m \in Nat \ {0}, NEW b \in Nat \ {0}
  PROVE  a \div (m * b) = (a \div m) \div b
<1> DEFINE q == a \div m
           r == a % m
           p == q \div b
           s == q % b
<1>1. q \in Nat /\ r \in 0 .. m - 1 /\ a = m * q + r
  BY SMT
<1>2. p \in Nat /\ s \in 0 .. b - 1 /\ q = b * p + s
  BY <1>1, SMT
<1> HIDE DEF q, r, p, s
<1>3. m * q = (m * b) * p + m * s
  BY <1>1, <1>2, SMT
<1>4. m * s + r \in 0 .. m * b - 1
  <2>1. m * s <= m * (b - 1) /\ m * s \in Nat
    BY <1>2, SMT
  <2>2. m * (b - 1) = m * b - m
    BY SMT
  <2>3. m * b \in Nat
    BY SMT
  <2> QED
    BY <1>1, <2>1, <2>2, <2>3
<1>5. m * b \in Nat \ {0}
  BY SMT
<1>6. a = (m * b) * p + (m * s + r)
  <2>1. m * s \in Nat /\ (m * b) * p \in Nat
    BY <1>2, SMT
  <2> QED
    BY <1>1, <1>3, <2>1
<1>7. ((m * b) * p + (m * s + r)) \div (m * b) = p
  BY <1>2, <1>4, <1>5, DivOf
<1> QED
  BY <1>6, <1>7 DEF p, q

\* One more octet keeps a value below the next weight, and the order of values.
LEMMA OctetAppended ==
  ASSUME NEW x \in Nat, NEW w \in Nat \ {0}, NEW b \in Nat \ {0}, NEW t \in 0 .. b - 1
  PROVE  /\ x < w => x * b + t < w * b
         /\ x * b + t > w * b + t <=> x > w
<1>1. \A y \in Nat, z \in Nat : y < z => y * b + b <= z * b
  <2>1. ASSUME NEW y \in Nat, NEW z \in Nat, y < z PROVE y * b + b <= z * b
    <3>1. (y + 1) * b <= z * b
      BY <2>1, SMT
    <3>2. (y + 1) * b = y * b + b
      BY SMT
    <3> QED
      BY <3>1, <3>2
  <2> QED
    BY <2>1
<1>2. x * b \in Nat /\ w * b \in Nat
  BY SMT
<1>3. x < w => x * b + b <= w * b
  BY <1>1
<1>4. w < x => w * b + b <= x * b
  BY <1>1
<1> QED
  BY <1>2, <1>3, <1>4

\* What the lemmas below take from the assumption.
LEMMA OctetsAndBase ==
  /\ Octets \in Nat \ {0} /\ OctetBase \in Nat \ {0, 1}
  /\ \A text \in Texts, k \in 1 .. Octets : text[k] \in 0 .. OctetBase - 1
  BY AddressAssumption DEF Texts, OctetValues

\* The first k octets make a number below the k-th weight, so that a text
\* stands for an address.
LEMMA AddressOfText ==
  ASSUME NEW text \in Texts
  PROVE  Ipv4Addr(text) \in Addresses
<1> DEFINE u == UpTo(text)
           w == Weight
           X == {k \in Nat : k \in 0 .. Octets => u[k] < w[k]}
<1>1. /\ u[0] = 0
      /\ \A k \in 0 .. Octets : u[k] \in Nat
      /\ \A k \in 1 .. Octets : u[k] = u[k - 1] * OctetBase + text[k]
      /\ Ipv4Addr(text) = u[Octets]
  BY UpToStep
<1>2. /\ w[0] = 1 /\ \A k \in 0 .. Octets : w[k] \in Nat \ {0}
      /\ \A k \in 1 .. Octets : w[k] = w[k - 1] * OctetBase
  BY WeightStep
<1>3. Size = w[Octets]
  BY DEF Size
<1> HIDE DEF u, w
<1>4. 0 \in X
  BY <1>1, <1>2
<1>5. ASSUME NEW k \in Nat, k \in X PROVE k + 1 \in X
  <2>1. SUFFICES ASSUME k + 1 \in 0 .. Octets PROVE u[k + 1] < w[k + 1]
    OBVIOUS
  <2>2. k \in 0 .. Octets /\ k + 1 \in 1 .. Octets /\ (k + 1) - 1 = k
    BY <2>1, OctetsAndBase
  <2>3. u[k] \in Nat /\ w[k] \in Nat \ {0} /\ u[k] < w[k]
    BY <1>1, <1>2, <1>5, <2>2
  <2>4. u[k + 1] = u[k] * OctetBase + text[k + 1] /\ w[k + 1] = w[k] * OctetBase
    BY <1>1, <1>2, <2>2
  <2>5. text[k + 1] \in 0 .. OctetBase - 1 /\ OctetBase \in Nat \ {0}
    BY <2>2, OctetsAndBase
  <2>6. u[k] * OctetBase + text[k + 1] < w[k] * OctetBase
    BY <2>3, <2>5, OctetAppended
  <2> QED
    BY <2>4, <2>6
<1>6. Nat \subseteq X
  <2> HIDE DEF X
  <2> QED
    BY <1>4, <1>5, NatSet
<1>7. Octets \in Nat /\ Octets \in 0 .. Octets
  BY OctetsAndBase
<1> QED
  BY <1>1, <1>2, <1>3, <1>6, <1>7 DEF Addresses

LEMMA SizeType == Size \in Nat \ {0}
<1>1. Octets \in 0 .. Octets
  BY OctetsAndBase
<1> QED
  BY <1>1, WeightStep DEF Size

\* An address is written with octets.
LEMMA TextOfAddress ==
  ASSUME NEW a \in Addresses
  PROVE  Str(a) \in Texts
<1>1. a \in Nat
  BY SizeType DEF Addresses
<1>2. ASSUME NEW i \in 1 .. Octets PROVE (a \div Weight[Octets - i]) % OctetBase \in OctetValues
  <2>1. Octets - i \in 0 .. Octets
    BY OctetsAndBase
  <2>2. Weight[Octets - i] \in Nat \ {0}
    BY <2>1, WeightStep
  <2>3. a \div Weight[Octets - i] \in Nat
    BY <1>1, <2>2, DivMod
  <2>4. OctetBase \in Nat \ {0}
    BY OctetsAndBase
  <2> QED
    BY <2>3, <2>4, ModRange DEF OctetValues
<1> QED
  BY <1>2 DEF Str, Texts

\* What is written for the address of a text is the text.
LEMMA TextOfText ==
  ASSUME NEW text \in Texts
  PROVE  Str(Ipv4Addr(text)) = text
<1> DEFINE u == UpTo(text)
           a == Ipv4Addr(text)
           w == Weight
           X == {j \in Nat : j \in 0 .. Octets => a \div w[j] = u[Octets - j]}
<1>1. /\ \A k \in 0 .. Octets : u[k] \in Nat
      /\ \A k \in 1 .. Octets : u[k] = u[k - 1] * OctetBase + text[k]
      /\ a = u[Octets]
  BY UpToStep
<1>2. /\ w[0] = 1 /\ \A k \in 0 .. Octets : w[k] \in Nat \ {0}
      /\ \A k \in 1 .. Octets : w[k] = w[k - 1] * OctetBase
  BY WeightStep
<1>3. Str(a) = [i \in 1 .. Octets |-> (a \div w[Octets - i]) % OctetBase]
  BY DEF Str
<1> HIDE DEF u, w, a
<1>4. a \in Nat
  BY <1>1, OctetsAndBase
<1>5. 0 \in X
  <2>1. a \div 1 = a /\ Octets - 0 = Octets
    BY <1>4, OctetsAndBase
  <2> QED
    BY <1>1, <1>2, <2>1
<1>6. ASSUME NEW j \in Nat, j \in X PROVE j + 1 \in X
  <2>1. SUFFICES ASSUME j + 1 \in 0 .. Octets PROVE a \div w[j + 1] = u[Octets - (j + 1)]
    OBVIOUS
  <2> DEFINE k == Octets - j
  <2>2. /\ j \in 0 .. Octets /\ j + 1 \in 1 .. Octets /\ (j + 1) - 1 = j
        /\ k \in 1 .. Octets /\ k - 1 \in 0 .. Octets /\ Octets - (j + 1) = k - 1
    BY <2>1, OctetsAndBase
  <2>3. a \div w[j] = u[k]
    BY <1>6, <2>2
  <2> HIDE DEF k
  <2>4. w[j + 1] = w[j] * OctetBase /\ w[j] \in Nat \ {0} /\ OctetBase \in Nat \ {0}
    BY <1>2, <2>2, OctetsAndBase
  <2>5. a \div w[j + 1] = u[k] \div OctetBase
    BY <1>4, <2>3, <2>4, DivDiv
  <2>6. u[k] = u[k - 1] * OctetBase + text[k] /\ u[k - 1] \in Nat
    BY <1>1, <2>2
  <2>7. text[k] \in 0 .. OctetBase - 1
    BY <2>2, OctetsAndBase
  <2>8. u[k - 1] * OctetBase = OctetBase * u[k - 1]
    BY <2>4, <2>6, SMT
  <2>9. (OctetBase * u[k - 1] + text[k]) \div OctetBase = u[k - 1]
    BY <2>4, <2>6, <2>7, DivOf
  <2> QED
    BY <2>2, <2>5, <2>6, <2>8, <2>9
<1>7. Nat \subseteq X
  <2> HIDE DEF X
  <2> QED
    BY <1>5, <1>6, NatSet
<1>8. ASSUME NEW i \in 1 .. Octets PROVE (a \div w[Octets - i]) % OctetBase = text[i]
  <2>1. Octets - i \in Nat /\ Octets - i \in 0 .. Octets /\ Octets - (Octets - i) = i
    BY OctetsAndBase
  <2>2. a \div w[Octets - i] = u[i]
    BY <1>7, <2>1
  <2>3. u[i] = u[i - 1] * OctetBase + text[i] /\ u[i - 1] \in Nat
    <3>1. i - 1 \in 0 .. Octets
      BY OctetsAndBase
    <3> QED
      BY <1>1, <3>1
  <2>4. text[i] \in 0 .. OctetBase - 1 /\ OctetBase \in Nat \ {0}
    BY OctetsAndBase
  <2>5. u[i - 1] * OctetBase = OctetBase * u[i - 1]
    BY <2>3, <2>4, SMT
  <2>6. (OctetBase * u[i - 1] + text[i]) % OctetBase = text[i]
    BY <2>3, <2>4, ModOf
  <2> QED
    BY <2>2, <2>3, <2>5, <2>6
<1>9. text = [i \in 1 .. Octets |-> text[i]]
  BY DEF Texts
<1> QED
  BY <1>3, <1>8, <1>9 DEF a

\* The address of what is written for an address is the address.
LEMMA AddressOfAddress ==
  ASSUME NEW a \in Addresses
  PROVE  Ipv4Addr(Str(a)) = a
<1> DEFINE u == UpTo(Str(a))
           w == Weight
           X == {k \in Nat : k \in 0 .. Octets => u[k] = a \div w[Octets - k]}
<1>1. /\ u[0] = 0
      /\ \A k \in 1 .. Octets : u[k] = u[k - 1] * OctetBase + Str(a)[k]
      /\ Ipv4Addr(Str(a)) = u[Octets]
  BY TextOfAddress, UpToStep
<1>2. /\ w[0] = 1 /\ \A k \in 0 .. Octets : w[k] \in Nat \ {0}
      /\ \A k \in 1 .. Octets : w[k] = w[k - 1] * OctetBase
  BY WeightStep
<1>3. \A i \in 1 .. Octets : Str(a)[i] = (a \div w[Octets - i]) % OctetBase
  BY DEF Str
<1>4. a \in Nat /\ a < w[Octets]
  BY SizeType DEF Addresses, Size
<1> HIDE DEF u, w
<1>5. 0 \in X
  <2>1. Octets - 0 = Octets /\ w[Octets] \in Nat \ {0}
    BY <1>2, OctetsAndBase
  <2>2. ASSUME NEW v \in Nat \ {0}, a < v PROVE a \div v = 0
    BY <1>4, <2>2, SMT
  <2> QED
    BY <1>1, <1>4, <2>1, <2>2
<1>6. ASSUME NEW k \in Nat, k \in X PROVE k + 1 \in X
  <2>1. SUFFICES ASSUME k + 1 \in 0 .. Octets PROVE u[k + 1] = a \div w[Octets - (k + 1)]
    OBVIOUS
  <2> DEFINE j == Octets - (k + 1)
             q == a \div w[j]
  <2>2. /\ k \in 0 .. Octets /\ k + 1 \in 1 .. Octets /\ (k + 1) - 1 = k
        /\ j \in 0 .. Octets /\ j + 1 \in 1 .. Octets /\ (j + 1) - 1 = j /\ Octets - k = j + 1
    BY <2>1, OctetsAndBase
  <2> HIDE DEF j
  <2>3. w[j + 1] = w[j] * OctetBase /\ w[j] \in Nat \ {0} /\ OctetBase \in Nat \ {0}
    BY <1>2, <2>2, OctetsAndBase
  <2>4. u[k] = q \div OctetBase
    <3>1. a \div (w[j] * OctetBase) = (a \div w[j]) \div OctetBase
      BY <1>4, <2>3, DivDiv
    <3> QED
      BY <1>6, <2>2, <2>3, <3>1
  <2>5. u[k + 1] = u[k] * OctetBase + Str(a)[k + 1]
    BY <1>1, <2>2
  <2>6. Str(a)[k + 1] = q % OctetBase
    BY <1>3, <2>2 DEF j
  <2>7. q \in Nat
    BY <1>4, <2>3, DivMod
  <2> HIDE DEF q
  <2>8. (q \div OctetBase) * OctetBase + (q % OctetBase) = q
    BY <2>3, <2>7, SMT
  <2> QED
    BY <2>4, <2>5, <2>6, <2>8 DEF q, j
<1>7. Nat \subseteq X
  <2> HIDE DEF X
  <2> QED
    BY <1>5, <1>6, NatSet
<1>8. Octets \in Nat /\ Octets \in 0 .. Octets /\ Octets - Octets = 0
  BY OctetsAndBase
<1>9. u[Octets] = a \div w[0]
  BY <1>7, <1>8
<1> QED
  BY <1>1, <1>2, <1>4, <1>9


\* Texts that differ in their last octet only are ordered by it.
LEMMA LastOctetDecides ==
  ASSUME NEW s \in Texts, NEW t \in Texts, \A i \in 1 .. Octets - 1 : s[i] = t[i]
  PROVE  Ipv4Addr(s) > Ipv4Addr(t) <=> s[Octets] > t[Octets]
<1> DEFINE u == UpTo(s)
           v == UpTo(t)
           X == {k \in Nat : k \in 0 .. Octets - 1 => u[k] = v[k]}
<1>1. /\ u[0] = 0 /\ \A k \in 0 .. Octets : u[k] \in Nat
      /\ \A k \in 1 .. Octets : u[k] = u[k - 1] * OctetBase + s[k]
      /\ Ipv4Addr(s) = u[Octets]
  BY UpToStep
<1>2. /\ v[0] = 0 /\ \A k \in 0 .. Octets : v[k] \in Nat
      /\ \A k \in 1 .. Octets : v[k] = v[k - 1] * OctetBase + t[k]
      /\ Ipv4Addr(t) = v[Octets]
  BY UpToStep
<1> HIDE DEF u, v
<1>3. 0 \in X
  BY <1>1, <1>2
<1>4. ASSUME NEW k \in Nat, k \in X PROVE k + 1 \in X
  <2>1. SUFFICES ASSUME k + 1 \in 0 .. Octets - 1 PROVE u[k + 1] = v[k + 1]
    OBVIOUS
  <2>2. /\ k \in 0 .. Octets - 1 /\ k + 1 \in 1 .. Octets /\ (k + 1) - 1 = k
        /\ k + 1 \in 1 .. Octets - 1
    BY <2>1, OctetsAndBase
  <2>3. u[k] = v[k] /\ s[k + 1] = t[k + 1]
    BY <1>4, <2>2
  <2> QED
    BY <1>1, <1>2, <2>2, <2>3
<1>5. Nat \subseteq X
  <2> HIDE DEF X
  <2> QED
    BY <1>3, <1>4, NatSet
<1> DEFINE k == Octets - 1
<1>6. /\ k \in Nat /\ k \in 0 .. Octets - 1 /\ k \in 0 .. Octets
      /\ Octets \in 1 .. Octets
  BY OctetsAndBase
<1>7. u[k] = v[k] /\ v[k] \in Nat
  BY <1>2, <1>5, <1>6
<1>8. u[Octets] = u[k] * OctetBase + s[Octets] /\ v[Octets] = v[k] * OctetBase + t[Octets]
  BY <1>1, <1>2, <1>6
<1> HIDE DEF k
<1>9. s[Octets] \in Nat /\ t[Octets] \in Nat /\ v[k] * OctetBase \in Nat
  <2>1. OctetBase \in Nat /\ s[Octets] \in Nat /\ t[Octets] \in Nat
    BY <1>6, OctetsAndBase
  <2> QED
    BY <1>7, <2>1, SMT
<1> QED
  BY <1>1, <1>2, <1>7, <1>8, <1>9

\* Texts that differ in their first octet only are ordered by it.
LEMMA FirstOctetDecides ==
  ASSUME NEW s \in Texts, NEW t \in Texts, \A i \in 2 .. Octets : s[i] = t[i]
  PROVE  Ipv4Addr(s) > Ipv4Addr(t) <=> s[1] > t[1]
<1> DEFINE u == UpTo(s)
           v == UpTo(t)
           X == {k \in Nat : k + 1 \in 1 .. Octets => (u[k + 1] > v[k + 1] <=> s[1] > t[1])}
<1>1. /\ u[0] = 0 /\ \A k \in 0 .. Octets : u[k] \in Nat
      /\ \A k \in 1 .. Octets : u[k] = u[k - 1] * OctetBase + s[k]
      /\ Ipv4Addr(s) = u[Octets]
  BY UpToStep
<1>2. /\ v[0] = 0 /\ \A k \in 0 .. Octets : v[k] \in Nat
      /\ \A k \in 1 .. Octets : v[k] = v[k - 1] * OctetBase + t[k]
      /\ Ipv4Addr(t) = v[Octets]
  BY UpToStep
<1> HIDE DEF u, v
<1>3. 0 \in X
  <2>1. 1 \in 1 .. Octets /\ 1 - 1 = 0 /\ OctetBase \in Nat
    BY OctetsAndBase
  <2>2. u[1] = 0 * OctetBase + s[1] /\ v[1] = 0 * OctetBase + t[1]
    BY <1>1, <1>2, <2>1
  <2>3. s[1] \in Nat /\ t[1] \in Nat
    BY <2>1, OctetsAndBase
  <2>4. 0 * OctetBase = 0
    BY <2>1, SMT
  <2> QED
    BY <2>2, <2>3, <2>4
<1>4. ASSUME NEW k \in Nat, k \in X PROVE k + 1 \in X
  <2> DEFINE j == k + 1
  <2>1. SUFFICES ASSUME j + 1 \in 1 .. Octets PROVE u[j + 1] > v[j + 1] <=> s[1] > t[1]
    OBVIOUS
  <2>2. /\ j \in 1 .. Octets /\ j \in 0 .. Octets /\ (j + 1) - 1 = j
        /\ j + 1 \in 2 .. Octets
    BY <2>1, OctetsAndBase
  <2>3. u[j] > v[j] <=> s[1] > t[1]
    BY <1>4, <2>2
  <2> HIDE DEF j
  <2>4. s[j + 1] = t[j + 1] /\ t[j + 1] \in 0 .. OctetBase - 1 /\ OctetBase \in Nat \ {0}
    BY <2>1, <2>2, OctetsAndBase
  <2>5. u[j] \in Nat /\ v[j] \in Nat
    BY <1>1, <1>2, <2>2
  <2>6. u[j + 1] = u[j] * OctetBase + s[j + 1] /\ v[j + 1] = v[j] * OctetBase + t[j + 1]
    BY <1>1, <1>2, <2>1, <2>2
  <2>7. u[j] * OctetBase + t[j + 1] > v[j] * OctetBase + t[j + 1] <=> u[j] > v[j]
    BY <2>4, <2>5, OctetAppended
  <2> QED
    BY <2>3, <2>4, <2>6, <2>7
<1>5. Nat \subseteq X
  <2> HIDE DEF X
  <2> QED
    BY <1>3, <1>4, NatSet
<1>6. Octets - 1 \in Nat /\ (Octets - 1) + 1 = Octets /\ Octets \in 1 .. Octets
  BY OctetsAndBase
<1>7. u[Octets] > v[Octets] <=> s[1] > t[1]
  BY <1>5, <1>6
<1> QED
  BY <1>1, <1>2, <1>7

\* A completed text has all octets; one of a single octet takes the others over.
LEMMA CompletedText ==
  ASSUME NEW from \in Texts, NEW till \in TillTexts
  PROVE  /\ CompleteIp(from, till) \in Texts
         /\ Len(till) = 1 =>
              \A i \in 1 .. Octets - 1 : CompleteIp(from, till)[i] = from[i]
<1>1. PICK n \in 1 .. Octets : till \in [1 .. n -> OctetValues]
  BY DEF TillTexts
<1>2. till \in Seq(OctetValues) /\ Len(till) = n
  BY <1>1, OctetsAndBase
<1>3. from \in Seq(OctetValues) /\ Len(from) = Octets
  BY OctetsAndBase DEF Texts
<1> DEFINE m == Octets - n
           s == SubSeq(from, 1, m)
<1>4. m \in 0 .. Octets /\ n \in Nat /\ m + n = Octets
  BY OctetsAndBase
<1>5. s \in Seq(OctetValues) /\ Len(s) = m /\ \A i \in 1 .. m : s[i] = from[i]
  <2> HIDE DEF m
  <2>1. m \in 0 .. Len(from)
    BY <1>3, <1>4
  <2> QED
    BY <1>3, <2>1, QueueCut
<1> HIDE DEF s, m
<1>6. /\ s \o till \in Seq(OctetValues) /\ Len(s \o till) = Octets
      /\ \A i \in 1 .. m : (s \o till)[i] = s[i]
  <2>1. /\ s \o till \in Seq(OctetValues) /\ Len(s \o till) = Len(s) + Len(till)
        /\ \A i \in 1 .. Len(s) + Len(till) :
             (s \o till)[i] = IF i <= Len(s) THEN s[i] ELSE till[i - Len(s)]
    BY <1>2, <1>5, ConcatProperties
  <2> QED
    BY <1>2, <1>4, <1>5, <2>1
<1>7. CompleteIp(from, till) = s \o till
  BY <1>2 DEF CompleteIp, s, m
<1>8. s \o till \in Texts
  <2>1. \A x \in Seq(OctetValues) : Len(x) = Octets => x \in Texts
    BY OctetsAndBase DEF Texts
  <2> QED
    BY <1>6, <2>1
<1>9. Len(till) = 1 => \A i \in 1 .. Octets - 1 : (s \o till)[i] = from[i]
  BY <1>2, <1>4, <1>5, <1>6 DEF m
<1> QED
  BY <1>7, <1>8, <1>9


LEMMA AddressesGiven ==
  ASSUME asked.from \in Addresses, asked.till \in TillTexts
  PROVE  From \in Addresses /\ Till \in Addresses
<1>1. CompleteIp(Str(From), asked.till) \in Texts
  BY TextOfAddress, CompletedText DEF From
<1> QED
  BY <1>1, AddressOfText DEF From, Till

\* For a range of the last octet the order in network byte order, which starts
\* with the last octet, is the order of the addresses.
LEMMA LastOctetOrder ==
  ASSUME asked.from \in Addresses, asked.till \in TillTexts, Len(asked.till) = 1
  PROVE  IsGreater(From, Till) <=> From > Till
<1> DEFINE s == Str(From)
           t == CompleteIp(s, asked.till)
           r(x) == [i \in 1 .. Octets |-> x[Octets + 1 - i]]
<1>1. s \in Texts /\ Ipv4Addr(s) = From
  BY TextOfAddress, AddressOfAddress DEF From
<1>2. t \in Texts /\ \A i \in 1 .. Octets - 1 : t[i] = s[i]
  <2> HIDE DEF s
  <2> QED
    BY <1>1, CompletedText
<1>3. Till = Ipv4Addr(t)
  BY DEF Till
<1> HIDE DEF s, t
<1>4. Str(Till) = t
  BY <1>2, <1>3, TextOfText
<1>5. From > Till <=> s[Octets] > t[Octets]
  BY <1>1, <1>2, <1>3, LastOctetDecides
<1>6. NetOrder(From) = Ipv4Addr(r(s)) /\ NetOrder(Till) = Ipv4Addr(r(t))
  BY <1>4 DEF NetOrder, s
<1>7. /\ r(s) \in Texts /\ r(t) \in Texts
      /\ \A i \in 2 .. Octets : r(s)[i] = r(t)[i]
      /\ r(s)[1] = s[Octets] /\ r(t)[1] = t[Octets]
  <2>1. \A i \in 1 .. Octets : Octets + 1 - i \in 1 .. Octets
    BY OctetsAndBase
  <2>2. \A i \in 2 .. Octets : Octets + 1 - i \in 1 .. Octets - 1 /\ i \in 1 .. Octets
    BY OctetsAndBase
  <2>3. r(s) \in Texts /\ r(t) \in Texts
    BY <1>1, <1>2, <2>1 DEF Texts
  <2>4. \A i \in 2 .. Octets : r(s)[i] = r(t)[i]
    BY <1>2, <2>2
  <2>5. 1 \in 1 .. Octets /\ Octets + 1 - 1 = Octets
    BY OctetsAndBase
  <2>6. r(s)[1] = s[Octets] /\ r(t)[1] = t[Octets]
    BY <2>5
  <2> QED
    BY <2>3, <2>4, <2>6
<1>8. Ipv4Addr(r(s)) > Ipv4Addr(r(t)) <=> r(s)[1] > r(t)[1]
  <2> HIDE DEF r
  <2> QED
    BY <1>7, FirstOctetDecides
<1> QED
  BY <1>5, <1>6, <1>7, <1>8 DEF IsGreater

-----------------------------------------------------------------------------
(* Expanding a range *)

\* The number of steps from f to the address after t, around n addresses.
Around(n, f, t) == (t + 1 - f) % n

LEMMA StepsAround ==
  ASSUME NEW n \in Nat \ {0}, NEW f \in 0 .. n - 1, NEW t \in 0 .. n - 1
  PROVE  /\ Around(n, f, t) \in 0 .. n - 1 /\ (f + Around(n, f, t)) % n = (t + 1) % n
         /\ f > t + 1 => Around(n, f, t) = t + 1 - f + n
         /\ f = t + 1 => Around(n, f, t) = 0
<1> DEFINE d == Around(n, f, t)
           x == t + 1 - f
           q == x \div n
<1>1. x \in Int /\ x <= n /\ x > -n
  OBVIOUS
<1>2. q \in Int /\ d \in 0 .. n - 1 /\ x = n * q + d
  BY <1>1, SMT DEF Around
<1> SUFFICES /\ d \in 0 .. n - 1 /\ (f + d) % n = (t + 1) % n
             /\ f > t + 1 => d = t + 1 - f + n
             /\ f = t + 1 => d = 0
  OBVIOUS
<1> HIDE DEF d
<1>3. q \in {-1, 0, 1}
  <2> HIDE DEF x, q
  <2>1. ASSUME q >= 2 PROVE FALSE
    <3>1. n * q >= n * 2
      BY <1>2, <2>1, SMT
    <3> QED
      BY <1>1, <1>2, <3>1
  <2>2. ASSUME q <= -2 PROVE FALSE
    <3>1. n * q <= n * (-2)
      BY <1>2, <2>2, SMT
    <3> QED
      BY <1>1, <1>2, <3>1
  <2> QED
    BY <1>2, <2>1, <2>2
<1>4. CASE q = 0
  <2>1. d = x
    BY <1>1, <1>2, <1>4
  <2> QED
    BY <1>2, <2>1
<1>5. CASE q = 1
  <2>1. d = x - n
    BY <1>1, <1>2, <1>5
  <2>2. f = 0 /\ t + 1 = n /\ d = 0
    BY <1>1, <1>2, <2>1
  <2>3. n % n = 0 /\ 0 % n = 0
    <3>1. 0 % n = 0
      BY ModSmall
    <3>2. (n + 0) % n = 0 % n
      BY ModShift
    <3> QED
      BY <3>1, <3>2
  <2> QED
    BY <1>2, <2>2, <2>3
<1>6. CASE q = -1
  <2>1. d = x + n
    BY <1>1, <1>2, <1>6
  <2>2. f + d = n + (t + 1)
    BY <2>1
  <2>3. (n + (t + 1)) % n = (t + 1) % n
    <3>1. t + 1 \in Nat
      OBVIOUS
    <3> QED
      BY <3>1, ModShift
  <2>4. f > t + 1
    BY <1>2, <2>1
  <2> QED
    BY <1>2, <2>1, <2>2, <2>3, <2>4
<1> QED
  BY <1>3, <1>4, <1>5, <1>6

\* How many addresses there are from the first to the last, around the space.
Span == Around(Size, From, Till)

LEMMA SpanOf ==
  ASSUME asked.from \in Addresses, asked.till \in TillTexts
  PROVE  /\ Span \in 0 .. Size - 1 /\ (From + Span) % Size = RangeEnd(Till)
         /\ From > Till + 1 => Span = Till + 1 - From + Size
         /\ From = Till + 1 => Span = 0
<1>1. From \in 0 .. Size - 1 /\ Till \in 0 .. Size - 1 /\ Size \in Nat \ {0}
  BY AddressesGiven, SizeType DEF Addresses
<1>2. RangeEnd(Till) = (Till + 1) % Size
  BY DEF RangeEnd, Successor
<1> QED
  BY <1>1, <1>2, StepsAround DEF Span

Expanded == \A i \in 1 .. Len(ip_vec) : ip_vec[i] = (From + i - 1) % Size

\* While the range is expanded the iterator is as far from its start as there
\* are addresses, and has not passed the end.
RangeInv ==
  /\ asked.from \in Addresses /\ asked.till \in TillTexts
  /\ ip_vec \in Seq(Addresses)
  /\ pc = "range" => ip_vec = <<>>
  /\ pc # "range" => (pc = "terminated" <=> IsGreater(From, Till))
  /\ pc = "expand" => current = (From + Len(ip_vec)) % Size
  /\ Len(ip_vec) <= Span /\ Expanded
  /\ pc \notin {"range", "expand", "terminated"} => Len(ip_vec) = Span
  /\ pc \in {"locate", "construct", "started"} => IsValidMulticastIp(ip_vec)

LEMMA RangeInitially == Init => RangeInv
<1> SUFFICES ASSUME Init PROVE RangeInv
  OBVIOUS
<1>1. asked.from \in Addresses /\ asked.till \in TillTexts /\ pc = "range" /\ ip_vec = <<>>
  BY DEF Init
<1>2. Span \in Nat
  BY <1>1, SpanOf, SizeType
<1>3. ip_vec \in Seq(Addresses) /\ Len(ip_vec) = 0
  BY <1>1
<1> QED
  BY <1>1, <1>2, <1>3 DEF RangeInv, Expanded

LEMMA MakeKeepsRange == ASSUME RangeInv, MakeIpv4Range PROVE RangeInv'
<1>1. pc = "range" /\ UNCHANGED <<asked, ip_vec>> /\ ip_vec = <<>>
  BY DEF MakeIpv4Range, RangeInv
<1>2. From' = From /\ Till' = Till /\ Span' = Span
  BY <1>1 DEF From, Till, Span
<1>3. \/ IsGreater(From, Till) /\ pc' = "terminated"
      \/ ~IsGreater(From, Till) /\ pc' = "expand" /\ current' = From
  BY DEF MakeIpv4Range
<1>4. From % Size = From
  <2>1. From \in Nat /\ From < Size /\ Size \in Nat
    BY SizeType DEF RangeInv, From, Addresses
  <2> QED
    BY <2>1, ModSmall
<1>5. Len(ip_vec) = 0 /\ From + 0 = From
  <2>1. From \in Nat
    BY SizeType DEF RangeInv, From, Addresses
  <2> QED
    BY <1>1, <2>1
<1>6. current' = From => current' = (From + Len(ip_vec)) % Size
  BY <1>4, <1>5
<1>7. IsGreater(From, Till)' <=> IsGreater(From, Till)
  BY <1>1 DEF From, Till, IsGreater
<1> QED
  BY <1>1, <1>2, <1>3, <1>6, <1>7 DEF RangeInv, Expanded

LEMMA PushBackKeepsRange == ASSUME RangeInv, PushBack PROVE RangeInv'
<1> DEFINE n == Size
           f == From
           k == Len(ip_vec)
<1>1. /\ pc = "expand" /\ UNCHANGED <<asked, pc>>
      /\ current = (f + k) % n /\ current # RangeEnd(Till)
      /\ ip_vec' = Append(ip_vec, current) /\ current' = (current + 1) % n
  BY DEF PushBack, RangeInv, Successor
<1>2. From' = From /\ Till' = Till /\ Span' = Span
      /\ (IsGreater(From, Till)' <=> IsGreater(From, Till))
  BY <1>1 DEF From, Till, Span, IsGreater
<1>3. /\ Span \in 0 .. n - 1 /\ (f + Span) % n = RangeEnd(Till)
      /\ k <= Span /\ ip_vec \in Seq(Addresses) /\ k \in Nat
  BY SpanOf DEF RangeInv
<1>4. n \in Nat \ {0} /\ f \in Nat
  BY SizeType DEF RangeInv, From, Addresses
<1>5. k + 1 <= Span
  BY <1>1, <1>3
<1>6. f + k \in Nat /\ f + (k + 1) = (f + k) + 1 /\ f + (k + 1) - 1 = f + k
  BY <1>3, <1>4
<1>7. current \in Addresses
  <2> HIDE DEF f, k, n
  <2>1. (f + k) % n \in 0 .. n - 1
    BY <1>4, <1>6, ModRange
  <2> QED
    BY <1>1, <2>1 DEF Addresses, n
<1>8. current' = (f + (k + 1)) % n
  <2> HIDE DEF f, k, n
  <2>1. (((f + k) % n) + 1) % n = ((f + k) + 1) % n
    BY <1>4, <1>6, ModIncrement
  <2> QED
    BY <1>1, <1>6, <2>1
<1>9. /\ ip_vec' \in Seq(Addresses) /\ Len(ip_vec') = k + 1
      /\ \A i \in 1 .. k : ip_vec'[i] = ip_vec[i]
      /\ ip_vec'[k + 1] = current
  BY <1>1, <1>3, <1>7
<1>10. ASSUME NEW i \in 1 .. k + 1 PROVE ip_vec'[i] = (f + i - 1) % n
  <2>1. CASE i \in 1 .. k
    BY <1>9, <2>1 DEF RangeInv, Expanded
  <2>2. CASE i = k + 1
    BY <1>1, <1>6, <1>9, <2>2
  <2> QED
    BY <1>3, <2>1, <2>2
<1>11. Expanded'
  BY <1>2, <1>9, <1>10 DEF Expanded
<1>12. current' = (From' + Len(ip_vec')) % Size
  BY <1>2, <1>8, <1>9
<1>13. Len(ip_vec') <= Span'
  BY <1>2, <1>5, <1>9
<1>14. /\ asked.from \in Addresses /\ asked.till \in TillTexts
       /\ pc # "range" => (pc = "terminated" <=> IsGreater(From, Till))
  BY DEF RangeInv
<1> QED
  BY <1>1, <1>2, <1>9, <1>11, <1>12, <1>13, <1>14 DEF RangeInv

LEMMA EndKeepsRange == ASSUME RangeInv, EndOfRange PROVE RangeInv'
<1> DEFINE n == Size
           f == From
           k == Len(ip_vec)
<1>1. /\ pc = "expand" /\ pc' = "check" /\ UNCHANGED <<asked, ip_vec>>
      /\ current = (f + k) % n /\ current = RangeEnd(Till)
  BY DEF EndOfRange, RangeInv
<1>2. From' = From /\ Till' = Till /\ Span' = Span
      /\ (IsGreater(From, Till)' <=> IsGreater(From, Till))
  BY <1>1 DEF From, Till, Span, IsGreater
<1>3. /\ Span \in 0 .. n - 1 /\ (f + Span) % n = RangeEnd(Till)
      /\ k <= Span /\ k \in Nat
  BY SpanOf DEF RangeInv
<1>4. n \in Nat \ {0} /\ f \in Nat
  BY SizeType DEF RangeInv, From, Addresses
<1>5. k = Span
  <2> DEFINE d == Span
  <2>1. SUFFICES ASSUME k < d PROVE FALSE
    BY <1>3
  <2>2. d \in 0 .. n - 1 /\ (f + k) % n = (f + d) % n
    BY <1>1, <1>3
  <2> HIDE DEF f, k, n, d
  <2>3. f + k \in Nat /\ f + d \in Nat /\ f + k < f + d /\ (f + d) - (f + k) < n
    BY <1>3, <1>4, <2>1, <2>2
  <2> QED
    BY <1>4, <2>2, <2>3, ModDistinct
<1> QED
  BY <1>1, <1>2, <1>5 DEF RangeInv, Expanded

THEOREM RangeInvariance == Spec => []RangeInv
<1>1. RangeInv /\ [Next]_vars => RangeInv'
  <2> SUFFICES ASSUME RangeInv, [Next]_vars PROVE RangeInv'
    OBVIOUS
  <2>1. CASE MakeIpv4Range
    BY <2>1, MakeKeepsRange
  <2>2. CASE PushBack
    BY <2>2, PushBackKeepsRange
  <2>3. CASE EndOfRange
    BY <2>3, EndKeepsRange
  <2>4. ASSUME UNCHANGED <<asked, ip_vec>>,
               \/ UNCHANGED <<pc, current>>
               \/ /\ pc \in {"check", "locate", "construct"}
                  /\ pc' \in {"locate", "construct", "started", "rejected", "failed"}
                  /\ pc' = "locate" => IsValidMulticastIp(ip_vec)
                  /\ pc' \in {"construct", "started"} => pc # "check"
        PROVE  RangeInv'
    <3>1. From' = From /\ Till' = Till /\ Span' = Span
          /\ (IsGreater(From, Till)' <=> IsGreater(From, Till))
          /\ (Expanded' <=> Expanded)
      BY <2>4 DEF From, Till, Span, IsGreater, Expanded
    <3>2. IsValidMulticastIp(ip_vec)' <=> IsValidMulticastIp(ip_vec)
      BY <2>4 DEF IsValidMulticastIp
    <3> QED
      BY <2>4, <3>1, <3>2 DEF RangeInv
  <2>5. CASE Check
    BY <2>4, <2>5 DEF Check, Acceptable
  <2>6. CASE LocateAdapter
    BY <2>4, <2>6 DEF LocateAdapter
  <2>7. CASE Construct
    BY <2>4, <2>7 DEF Construct
  <2>8. CASE UNCHANGED vars
    BY <2>4, <2>8 DEF vars
  <2> QED
    BY <2>1, <2>2, <2>3, <2>5, <2>6, <2>7, <2>8 DEF Next
<1> QED
  BY RangeInitially, <1>1, PTL DEF Spec

\* What is expanded is exactly the range, for every size of the octets and
\* however the range was written (Range.hpp:24-56).
THEOREM RangeIsExpanded == Spec => []RangeExpanded
<1>1. RangeInv => RangeExpanded
  BY DEF RangeInv, Expanded, RangeExpanded, Span, Around
<1> QED
  BY RangeInvariance, <1>1, PTL

\* How many steps main has before it at most: what is left of the range, and
\* one for each place it still comes to.
PlacesLeft ==
  CASE pc = "range" -> 5 [] pc = "expand" -> 4 [] pc = "check" -> 3
    [] pc = "locate" -> 2 [] pc = "construct" -> 1 [] OTHER -> 0
StepsLeft ==
  PlacesLeft + (IF pc \in {"range", "expand"} THEN Span - Len(ip_vec) ELSE 0)

\* What StartsOrEnds needs besides fairness: no step is without progress, and
\* there are never more to come than there are addresses, and four.
StepsRunOut == [][StepsLeft' < StepsLeft]_vars
StepsBounded == StepsLeft \in 0 .. Size + 4

LEMMA StepsAreBounded == RangeInv => StepsBounded
<1> SUFFICES ASSUME RangeInv PROVE StepsBounded
  OBVIOUS
<1>1. Span \in 0 .. Size - 1 /\ Len(ip_vec) \in Nat /\ Len(ip_vec) <= Span /\ Size \in Nat
  BY SpanOf, SizeType DEF RangeInv
<1>2. PlacesLeft \in 0 .. 5
  BY DEF PlacesLeft
<1> QED
  BY <1>1, <1>2 DEF StepsBounded, StepsLeft

LEMMA StepsRunOutNext == ASSUME RangeInv, RangeInv', Next PROVE StepsLeft' < StepsLeft
<1>1. Span \in Nat /\ Len(ip_vec) \in Nat /\ Len(ip_vec) <= Span
  BY SpanOf, SizeType DEF RangeInv
<1>2. Span' = Span
  BY DEF Next, MakeIpv4Range, PushBack, EndOfRange, Check, LocateAdapter, Construct,
         From, Till, Span
<1>3. CASE MakeIpv4Range
  <2>1. pc = "range" /\ pc' \in {"expand", "terminated"} /\ ip_vec' = ip_vec
    BY <1>3 DEF MakeIpv4Range
  <2> QED
    BY <1>1, <1>2, <2>1 DEF StepsLeft, PlacesLeft
<1>4. CASE PushBack
  <2>1. pc = "expand" /\ pc' = "expand" /\ ip_vec' = Append(ip_vec, current)
    BY <1>4 DEF PushBack
  <2>2. ip_vec \in Seq(Addresses) /\ ip_vec' \in Seq(Addresses) /\ Len(ip_vec') <= Span
    BY <1>2 DEF RangeInv
  <2>3. Len(ip_vec') = Len(ip_vec) + 1
    BY <2>1, <2>2
  <2> QED
    BY <1>1, <1>2, <2>1, <2>2, <2>3 DEF StepsLeft, PlacesLeft
<1>5. CASE EndOfRange
  <2>1. pc = "expand" /\ pc' = "check"
    BY <1>5 DEF EndOfRange
  <2> QED
    BY <1>1, <1>2, <2>1 DEF StepsLeft, PlacesLeft
<1>6. CASE Check \/ LocateAdapter \/ Construct
  <2>1. \/ pc = "check" /\ pc' \in {"locate", "rejected"}
        \/ pc = "locate" /\ pc' \in {"construct", "rejected"}
        \/ pc = "construct" /\ pc' \in {"started", "failed"}
    BY <1>6 DEF Check, LocateAdapter, Construct
  <2> QED
    BY <2>1 DEF StepsLeft, PlacesLeft
<1> QED
  BY <1>3, <1>4, <1>5, <1>6 DEF Next

\* Whatever was asked for, also a range around the whole address space, every
\* step brings the end of the expansion or a later check nearer
\* (Range.hpp:21-30, :55, args.cpp:31-33).
THEOREM StepsToTheEnd == Spec => StepsRunOut /\ []StepsBounded
<1> DEFINE Less == StepsLeft' < StepsLeft
<1>1. RangeInv /\ RangeInv' /\ [Next]_vars => [Less]_vars
  BY StepsRunOutNext
<1>2. QED
  BY RangeInvariance, StepsAreBounded, <1>1, PTL DEF Spec, StepsRunOut

\* A range written the wrong way round holds the last address of all, so that
\* Check refuses it when it holds any (Range.hpp:60, args.cpp:142).
THEOREM WrongOrderRefused == Spec => []WrongOrderNeverStarts
<1>1. RangeInv => WrongOrderNeverStarts
  <2> SUFFICES ASSUME RangeInv, pc = "started", ip_vec # <<>>, ~(From <= Till) PROVE FALSE
    BY DEF WrongOrderNeverStarts
  <2> DEFINE n == Size
             k == Len(ip_vec)
             i == n - From
  <2>1. From \in 0 .. n - 1 /\ Till \in 0 .. n - 1 /\ n \in Nat \ {0}
    BY AddressesGiven, SizeType DEF RangeInv, Addresses
  <2>2. k = Span /\ k # 0
    BY DEF RangeInv
  <2>3. k = Till + 1 - From + n
    <3>1. /\ From > Till + 1 => Span = Till + 1 - From + n
          /\ From = Till + 1 => Span = 0
      BY SpanOf DEF RangeInv
    <3> QED
      BY <2>1, <2>2, <3>1
  <2>4. i \in 1 .. k /\ From + i - 1 = n - 1
    BY <2>1, <2>3
  <2>5. ip_vec[i] = (From + i - 1) % n
    BY <2>4 DEF RangeInv, Expanded
  <2>6. (n - 1) % n = n - 1
    <3> HIDE DEF n
    <3>1. n - 1 \in Nat /\ n - 1 < n /\ n \in Nat
      BY <2>1
    <3> QED
      BY <3>1, ModSmall
  <2>7. ip_vec[i] \in MinMcIp .. MaxMcIp
    BY <2>4 DEF RangeInv, IsValidMulticastIp
  <2>8. MaxMcIp < n - 1 /\ MaxMcIp \in Int
    BY <2>1, OptionsAssumption DEF Addresses
  <2> HIDE DEF i, k, n
  <2> QED
    BY <2>1, <2>4, <2>5, <2>6, <2>7, <2>8
<1> QED
  BY RangeInvariance, <1>1, PTL

\* The order in network byte order is the right one for the documented form of
\* a range, for every number and size of octets (README.md:84, Range.hpp:60).
THEOREM LastOctetRefused == Spec => []LastOctetRanges
<1>1. RangeInv => LastOctetRanges
  BY LastOctetOrder DEF RangeInv, LastOctetRanges
<1> QED
  BY RangeInvariance, <1>1, PTL
=============================================================================
