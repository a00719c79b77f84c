------------------------- MODULE SampledLoopProofs -------------------------
(***************************************************************************)
(* For any number of steps, any clocks, delays, latencies, dropouts and    *)
(* changes of wind or command: the export of the three programs is the run *)
(* the study declares, and every tick of the controller works with the     *)
(* measurement its sensor owes it. The run declared is a recursion over    *)
(* the boundaries, so the argument is that of a loop: what the program     *)
(* holds at a boundary is what the recursion says of it, the slots of the  *)
(* delay line are the ticks of the last periods, and what waits in the     *)
(* sensor is the samples of the last boundaries they were due at.          *)
(***************************************************************************)
EXTENDS SampledLoop, FiniteSetTheorems, SequenceTheorems, TLAPS

-----------------------------------------------------------------------------
(* Natural numbers                                                         *)

(* A set of them has a least element.                                      *)
LEMMA LeastNatural ==
  ASSUME NEW S, S \subseteq Nat, S # {}
  PROVE  \E n \in S : \A m \in S : n <= m
<1> DEFINE R == {p \in Nat \X Nat : p[1] < p[2]}
<1>1. IsWellFoundedOn(R, Nat)
  BY NatLessThanWellFounded DEF OpToRel
<1>2. PICK n \in S : \A m \in S : <<m, n>> \notin R
  <2> HIDE DEF R
  <2> QED
    BY <1>1, WFMin
<1>3. ASSUME NEW m \in S
      PROVE  n <= m
  <2>1. m \in Nat /\ n \in Nat /\ ~ (m < n)
    BY <1>2
  <2> QED
    BY <2>1
<1> QED
  BY <1>3

(* So one that has 0, and n + 1 with n, has them all.                      *)
LEMMA AllNaturals ==
  ASSUME NEW S, 0 \in S, \A n \in Nat : n \in S => n + 1 \in S
  PROVE  \A n \in Nat : n \in S
<1> SUFFICES ASSUME Nat \ S # {}
             PROVE  FALSE
  OBVIOUS
<1>1. PICK n \in Nat \ S : \A m \in Nat \ S : n <= m
  BY LeastNatural
<1>2. n - 1 \in Nat /\ n - 1 \in S
  BY <1>1
<1>3. (n - 1) + 1 \in S
  BY <1>2
<1> QED
  BY <1>1, <1>2, <1>3

(* A set of numbers up to n has a greatest one, and Max names it.          *)
LEMMA Greatest ==
  ASSUME NEW n \in Int, NEW S, S \subseteq 0..n, S # {}
  PROVE  Max(S) \in S /\ \A m \in S : m <= Max(S)
<1> DEFINE Bound == {b \in Nat : \A m \in S : m <= b}
<1>a. \A m \in S : m \in Nat /\ m <= n
  <2>1. \A m \in 0..n : m \in Nat /\ m <= n
    OBVIOUS
  <2> QED
    BY <2>1
<1>0. PICK m0 \in S : m0 \in Nat /\ m0 <= n
  BY <1>a
<1>1. n \in Nat /\ n \in Bound
  BY <1>0, <1>a
<1>2. PICK b \in Bound : \A c \in Bound : b <= c
  BY <1>1, LeastNatural
<1>3. b \in S
  <2> SUFFICES ASSUME b \notin S
               PROVE  FALSE
    OBVIOUS
  <2>1. \A m \in S : m <= b - 1
    BY <1>2, <1>a
  <2>2. b - 1 \in Nat
    BY <1>0, <1>2, <2>1
  <2>3. b - 1 \in Bound
    BY <2>1, <2>2
  <2> QED
    BY <1>2, <2>3
<1>4. \E x \in S : \A y \in S : x >= y
  BY <1>2, <1>3
<1>5. Max(S) \in S /\ \A y \in S : Max(S) >= y
  BY <1>4 DEF Max
<1> QED
  BY <1>5

(* Likewise the least one.                                                 *)
LEMMA Smallest ==
  ASSUME NEW S, S \subseteq Nat, S # {}
  PROVE  Min(S) \in S /\ \A m \in S : Min(S) <= m
<1>1. \E x \in S : \A y \in S : x =< y
  BY LeastNatural
<1> QED
  BY <1>1 DEF Min

-----------------------------------------------------------------------------
(* Quotients and remainders                                                *)

(* One more of what is multiplied.                                         *)
LEMMA OneMore ==
  ASSUME NEW p \in Nat, NEW q \in Nat
  PROVE  p * (q + 1) = p * q + p /\ p * q \in Nat /\ (q + 1) * p = p * q + p
OBVIOUS

(* What quotient and remainder are.                                        *)
LEMMA Division ==
  ASSUME NEW p \in Nat \ {0}, NEW q \in Nat, NEW m \in Nat, m = p * q,
         NEW r \in 0..(p - 1)
  PROVE  (m + r) \div p = q /\ (m + r) % p = r
OBVIOUS

(* Every number has them.                                                  *)
LEMMA Divided ==
  ASSUME NEW n \in Nat, NEW p \in Nat \ {0}
  PROVE  \E m \in Nat, q \in Nat, r \in 0..(p - 1) :
           m = p * q /\ n = m + r /\ n \div p = q /\ n % p = r
<1> DEFINE S == {n0 \in Nat : \E m \in Nat, q \in Nat, r \in 0..(p - 1) : m = p * q /\ n0 = m + r}
<1>1. 0 \in S
  <2>1. 0 = p * 0 /\ 0 = 0 + 0 /\ 0 \in 0..(p - 1)
    OBVIOUS
  <2> QED
    BY <2>1
<1>2. ASSUME NEW k \in Nat, k \in S
      PROVE  k + 1 \in S
  <2>1. PICK m \in Nat, q \in Nat, r \in 0..(p - 1) : m = p * q /\ k = m + r
    BY <1>2
  <2>2. CASE r + 1 \in 0..(p - 1)
    <3>1. k + 1 = m + (r + 1) /\ k + 1 \in Nat
      BY <2>1
    <3> QED
      BY <2>1, <2>2, <3>1, Zenon
  <2>3. CASE r + 1 = p
    <3>1. m + p = p * (q + 1) /\ m + p \in Nat /\ q + 1 \in Nat
      BY <2>1, OneMore
    <3>2. k + 1 = (m + p) + 0 /\ 0 \in 0..(p - 1) /\ k + 1 \in Nat
      BY <2>1, <2>3
    <3> QED
      BY <3>1, <3>2, Zenon
  <2> QED
    BY <2>2, <2>3
<1> HIDE DEF S
<1>3. n \in S
  BY <1>1, <1>2, AllNaturals
<1>4. PICK m \in Nat, q \in Nat, r \in 0..(p - 1) : m = p * q /\ n = m + r
  BY <1>3 DEF S
<1>5. n \div p = q /\ n % p = r
  BY <1>4, Division
<1> QED
  BY <1>4, <1>5

(* They are numbers.                                                       *)
LEMMA QuotientType ==
  ASSUME NEW n \in Nat, NEW p \in Nat \ {0}
  PROVE  n \div p \in Nat /\ n % p \in 0..(p - 1)
OBVIOUS

(* The next number's.                                                      *)
LEMMA NextDivided ==
  ASSUME NEW n \in Nat, NEW p \in Nat \ {0}
  PROVE  /\ (n + 1) % p = 0 => (n + 1) \div p = n \div p + 1
         /\ (n + 1) % p # 0 => (n + 1) \div p = n \div p
<1>1. CASE (n + 1) % p = 0
  BY <1>1
<1>2. CASE (n + 1) % p # 0
  BY <1>2
<1> QED
  BY <1>1, <1>2

(* A multiple.                                                             *)
LEMMA Multiple ==
  ASSUME NEW q \in Nat, NEW p \in Nat \ {0}
  PROVE  q * p \in Nat /\ (q * p) \div p = q /\ (q * p) % p = 0
<1>1. PICK m \in Nat : m = p * q /\ m = q * p
  OBVIOUS
<1>2. (m + 0) \div p = q /\ (m + 0) % p = 0
  BY <1>1, Division
<1> QED
  BY <1>1, <1>2

(* Numbers closer than p have different remainders, and those p apart the  *)
(* same one.                                                               *)
LEMMA Wrapped ==
  ASSUME NEW n \in Nat, NEW p \in Nat \ {0}
  PROVE  /\ (n + p) % p = n % p
         /\ \A j \in 1..(p - 1) : (n + j) % p # n % p
         /\ n < p => n % p = n
<1>1. PICK m \in Nat, q \in Nat, r \in 0..(p - 1) :
        m = p * q /\ n = m + r /\ n \div p = q /\ n % p = r
  BY Divided
<1>2. m + p = p * (q + 1) /\ m + p \in Nat /\ q + 1 \in Nat
  BY <1>1, OneMore
<1>3. (n + p) % p = r
  <2>1. ((m + p) + r) % p = r
    BY <1>2, Division
  <2>2. n + p = (m + p) + r
    BY <1>1
  <2> QED
    BY <2>1, <2>2
<1>4. ASSUME NEW j \in 1..(p - 1)
      PROVE  (n + j) % p # r
  <2>1. CASE r + j \in 0..(p - 1)
    <3>1. (m + (r + j)) % p = r + j
      BY <1>1, <2>1, Division
    <3>2. n + j = m + (r + j) /\ r + j # r
      BY <1>1
    <3> QED
      BY <3>1, <3>2
  <2>2. CASE r + j >= p
    <3>1. r + j - p \in 0..(p - 1) /\ r + j - p # r
      BY <2>2
    <3>2. PICK k \in 0..(p - 1) : k = r + j - p /\ k # r
      BY <3>1
    <3>3. ((m + p) + k) % p = k
      BY <1>2, Division
    <3>4. n + j = (m + p) + k
      BY <1>1, <3>2
    <3> QED
      BY <3>2, <3>3, <3>4
  <2> QED
    BY <2>1, <2>2
<1>5. n < p => n % p = n
  OBVIOUS
<1> QED
  BY <1>1, <1>3, <1>4, <1>5

(* Counting on from a remainder is counting on from the number.            *)
LEMMA CountedOn ==
  ASSUME NEW n \in Nat, NEW p \in Nat \ {0}
  PROVE  ((n % p) + 1) % p = (n + 1) % p
<1>1. PICK m \in Nat, q \in Nat, r \in 0..(p - 1) :
        m = p * q /\ n = m + r /\ n \div p = q /\ n % p = r
  BY Divided
<1>2. CASE r + 1 \in 0..(p - 1)
  <2>1. PICK l \in 0..(p - 1) : l = r + 1
    BY <1>2
  <2>2. (m + l) % p = l
    BY <1>1, Division
  <2>3. l \in Nat /\ l < p
    OBVIOUS
  <2>4. l % p = l
    BY <2>3, Wrapped
  <2>5. n + 1 = m + l
    BY <1>1, <2>1
  <2> QED
    BY <1>1, <2>1, <2>2, <2>4, <2>5
<1>3. CASE r + 1 = p
  <2>1. m + p = p * (q + 1) /\ m + p \in Nat /\ q + 1 \in Nat /\ 0 \in 0..(p - 1)
    BY <1>1, OneMore
  <2>2. ((m + p) + 0) % p = 0
    BY <2>1, Division
  <2>3. n + 1 = (m + p) + 0
    BY <1>1, <1>3
  <2>4. p % p = 0
    <3>1. p = p * 1 /\ 1 \in Nat /\ 0 \in 0..(p - 1) /\ p \in Nat
      OBVIOUS
    <3>2. (p + 0) % p = 0
      BY <3>1, Division
    <3> QED
      BY <3>2
  <2> QED
    BY <1>1, <1>3, <2>2, <2>3, <2>4
<1> QED
  BY <1>2, <1>3

(* So with the slots of a ring.                                            *)
Slot(d, t) == t % (d + 1)

(* Ticks as near as the ring is long have different slots, and those a     *)
(* whole ring apart the same one.                                          *)
LEMMA Slots ==
  ASSUME NEW d \in Nat, NEW t \in Nat, NEW u \in Nat
  PROVE  /\ Slot(d, t) \in 0..d
         /\ t < u /\ u <= t + d => Slot(d, t) # Slot(d, u)
         /\ u = t + d + 1 => Slot(d, u) = Slot(d, t)
         /\ t <= d => Slot(d, t) = t
<1>1. PICK p \in Nat \ {0} : p = d + 1 /\ p - 1 = d
  OBVIOUS
<1>2. t % p \in 0..d /\ (t <= d => t % p = t)
  <2>1. t % p \in 0..(p - 1) /\ (t < p => t % p = t)
    BY QuotientType, Wrapped
  <2> QED
    BY <1>1, <2>1
<1>3. ASSUME t < u, u <= t + d
      PROVE  t % p # u % p
  <2>1. PICK j \in 1..(p - 1) : u = t + j
    <3>1. u - t \in 1..(p - 1) /\ u = t + (u - t)
      BY <1>1, <1>3
    <3> QED
      BY <3>1
  <2>2. (t + j) % p # t % p
    BY Wrapped
  <2> QED
    BY <2>1, <2>2
<1>4. ASSUME u = t + d + 1
      PROVE  u % p = t % p
  <2>1. u = t + p
    BY <1>1, <1>4
  <2>2. (t + p) % p = t % p
    BY Wrapped
  <2> QED
    BY <2>1, <2>2
<1>5. Slot(d, t) = t % p /\ Slot(d, u) = u % p
  BY <1>1 DEF Slot
<1> QED
  BY <1>2, <1>3, <1>4, <1>5

(* The next multiple after n.                                              *)
PeriodEnd(n, p) == (n \div p + 1) * p

(* The numbers before the next multiple have n's quotient, and none of     *)
(* them is a multiple.                                                     *)
LEMMA PeriodEnds ==
  ASSUME NEW n \in Nat, NEW p \in Nat \ {0}
  PROVE  /\ PeriodEnd(n, p) \in Nat /\ n < PeriodEnd(n, p)
         /\ PeriodEnd(n, p) % p = 0 /\ PeriodEnd(n, p) \div p = n \div p + 1
         /\ \A k \in n..(PeriodEnd(n, p) - 1) : k \div p = n \div p
         /\ \A k \in (n + 1)..(PeriodEnd(n, p) - 1) : k % p # 0
         /\ \A s \in Nat : s % p = 0 /\ n < s => PeriodEnd(n, p) <= s
<1>0. PICK end : end = PeriodEnd(n, p) /\ end = (n \div p + 1) * p
  BY DEF PeriodEnd
<1>1. PICK m \in Nat, q \in Nat, r \in 0..(p - 1) :
        m = p * q /\ n = m + r /\ n \div p = q /\ n % p = r
  BY Divided
<1>2. end \in Nat /\ end % p = 0 /\ end \div p = q + 1
  BY <1>0, <1>1, Multiple
<1>3. end = m + p
  BY <1>0, <1>1, OneMore
<1>4. ASSUME NEW k \in n..(end - 1)
      PROVE  k \div p = q /\ k % p = k - m
  <2>1. PICK j \in 0..(p - 1) : k = m + j /\ j = k - m
    <3>1. k = m + (k - m) /\ k - m \in 0..(p - 1)
      BY <1>1, <1>3
    <3> QED
      BY <3>1
  <2>2. m = p * q
    BY <1>1
  <2>3. (m + j) \div p = q /\ (m + j) % p = j
    BY <2>2, Division
  <2> QED
    BY <2>1, <2>3
<1>5. ASSUME NEW k \in (n + 1)..(end - 1)
      PROVE  k % p # 0
  <2>1. k \in n..(end - 1) /\ k - m # 0
    BY <1>1
  <2> QED
    BY <1>4, <2>1
<1>6. ASSUME NEW s \in Nat, s % p = 0, n < s
      PROVE  end <= s
  <2> SUFFICES ASSUME s < end
               PROVE  FALSE
    BY <1>2
  <2>1. s \in (n + 1)..(end - 1)
    BY <1>2, <1>6
  <2> QED
    BY <1>5, <1>6, <2>1
<1>7. n < end
  BY <1>1, <1>3
<1>8. end % p = 0 /\ end \div p = n \div p + 1
  BY <1>1, <1>2
<1>9. \A k \in n..(end - 1) : k \div p = n \div p
  BY <1>1, <1>4
<1> QED
  BY <1>0, <1>2, <1>5, <1>6, <1>7, <1>8, <1>9

-----------------------------------------------------------------------------
(* Recursion over the natural numbers                                      *)

(* The first n + 1 values of a recursion.                                  *)
Begun(X, base, next, n, g) ==
  /\ g \in [0..n -> X]
  /\ g[0] = base
  /\ \A k \in 0..(n - 1) : g[k + 1] = next[<<k, g[k]>>]

(* All of them.                                                            *)
Follows(X, base, next, f) ==
  /\ f \in [Nat -> X]
  /\ f[0] = base
  /\ \A n \in Nat : f[n + 1] = next[<<n, f[n]>>]

(* Every recursion can be carried on as far as one wants.                  *)
LEMMA BeginningsExist ==
  ASSUME NEW X, NEW base \in X, NEW next \in [Nat \X X -> X]
  PROVE  \A n \in Nat : \E g : Begun(X, base, next, n, g)
<1> DEFINE S == {n \in Nat : \E g : Begun(X, base, next, n, g)}
<1>1. 0 \in S
  <2> DEFINE g == [k \in 0..0 |-> base]
  <2>1. Begun(X, base, next, 0, g)
    BY DEF Begun
  <2> QED
    BY <2>1
<1>2. ASSUME NEW n \in Nat, n \in S
      PROVE  n + 1 \in S
  <2>1. PICK g : Begun(X, base, next, n, g)
    BY <1>2
  <2> DEFINE h == [k \in 0..(n + 1) |-> IF k = n + 1 THEN next[<<n, g[n]>>] ELSE g[k]]
  <2>2. g[n] \in X /\ next[<<n, g[n]>>] \in X
    BY <2>1 DEF Begun
  <2>3. h \in [0..(n + 1) -> X] /\ h[0] = base
    BY <2>1, <2>2 DEF Begun
  <2>4. ASSUME NEW k \in 0..n
        PROVE  h[k + 1] = next[<<k, h[k]>>]
    <3>1. h[k] = g[k]
      OBVIOUS
    <3>2. h[k + 1] = next[<<k, g[k]>>]
      <4>1. CASE k = n
        BY <4>1
      <4>2. CASE k \in 0..(n - 1)
        <5>1. h[k + 1] = g[k + 1]
          BY <4>2
        <5> QED
          BY <2>1, <4>2, <5>1 DEF Begun
      <4> QED
        BY <4>1, <4>2
    <3> HIDE DEF h
    <3> QED
      BY <3>1, <3>2
  <2> HIDE DEF h
  <2>5. Begun(X, base, next, n + 1, h)
    <3>1. (n + 1) - 1 = n
      OBVIOUS
    <3> QED
      BY <2>3, <2>4, <3>1 DEF Begun
  <2> QED
    BY <2>5
<1> HIDE DEF S
<1>3. \A n \in Nat : n \in S
  BY <1>1, <1>2, AllNaturals
<1> QED
  BY <1>3 DEF S

(* Two of its beginnings agree as far as both go.                          *)
LEMMA BeginningsAgree ==
  ASSUME NEW X, NEW base, NEW next, NEW n \in Nat, NEW m \in Nat, NEW g, NEW h,
         Begun(X, base, next, n, g), Begun(X, base, next, m, h)
  PROVE  \A k \in Nat : k <= n /\ k <= m => g[k] = h[k]
<1> DEFINE S == {k \in Nat : k <= n /\ k <= m => g[k] = h[k]}
<1>1. 0 \in S
  BY DEF Begun
<1>2. ASSUME NEW k \in Nat, k \in S
      PROVE  k + 1 \in S
  <2> SUFFICES ASSUME k + 1 <= n, k + 1 <= m
               PROVE  g[k + 1] = h[k + 1]
    OBVIOUS
  <2>1. g[k + 1] = next[<<k, g[k]>>] /\ h[k + 1] = next[<<k, h[k]>>]
    BY DEF Begun
  <2> QED
    BY <1>2, <2>1
<1> HIDE DEF S
<1>3. \A k \in Nat : k \in S
  BY <1>1, <1>2, AllNaturals
<1> QED
  BY <1>3 DEF S

(* So it defines a function.                                               *)
LEMMA Recursion ==
  ASSUME NEW X, NEW base \in X, NEW next \in [Nat \X X -> X]
  PROVE  \E f : Follows(X, base, next, f)
<1> DEFINE part(n) == CHOOSE g : Begun(X, base, next, n, g)
<1> DEFINE f == [n \in Nat |-> part(n)[n]]
<1>1. ASSUME NEW n \in Nat
      PROVE  Begun(X, base, next, n, part(n))
  BY BeginningsExist
<1> HIDE DEF part
<1>2. f \in [Nat -> X] /\ f[0] = base
  BY <1>1 DEF Begun
<1>3. ASSUME NEW n \in Nat
      PROVE  f[n + 1] = next[<<n, f[n]>>]
  <2>1. part(n + 1)[n + 1] = next[<<n, part(n + 1)[n]>>]
    BY <1>1 DEF Begun
  <2>2. part(n + 1)[n] = part(n)[n]
    <3>1. n + 1 \in Nat /\ n <= n + 1 /\ n <= n
      OBVIOUS
    <3>2. Begun(X, base, next, n, part(n)) /\ Begun(X, base, next, n + 1, part(n + 1))
      BY <1>1, <3>1
    <3> QED
      BY <3>1, <3>2, BeginningsAgree
  <2> QED
    BY <2>1, <2>2
<1> HIDE DEF f
<1>4. Follows(X, base, next, f)
  BY <1>2, <1>3 DEF Follows
<1> QED
  BY <1>4


-----------------------------------------------------------------------------
(* Studies                                                                 *)

(* What every study has, and what each way of simulating it adds.          *)
LEMMA StudyShape ==
  ASSUME study \in Study
  PROVE  /\ study.way \in {"plant", "sampled", "loop"}
         /\ study.winds \subseteq 0..Steps
         /\ study.way = "plant" => study.orders \subseteq 0..Steps
         /\ study.way # "plant" => /\ study.period \in Nat \ {0}
                                   /\ Steps % study.period = 0
                                   /\ study.delay \in Nat
         /\ study.way # "sampled" => study.stride \in Nat \ {0}
         /\ study.way = "loop" => /\ study.sensor \in Sensor \cup {None}
                                  /\ study.missing \in {"refuse", "hold_last", "trim_fallback"}
<1> USE BoundsAssumption DEF Few
<1>1. CASE study.way = "plant"
  BY <1>1 DEF Study
<1>2. CASE study.way = "sampled"
  BY <1>2 DEF Study
<1>3. CASE study.way = "loop"
  BY <1>3 DEF Study
<1>4. study.way \in {"plant", "sampled", "loop"}
  BY DEF Study
<1> QED
  BY <1>1, <1>2, <1>3, <1>4

(* And every sensor.                                                       *)
LEMMA SensorShape ==
  ASSUME NEW s \in Sensor
  PROVE  /\ s.every \in Nat \ {0} /\ s.latency \in Nat /\ s.dropped \subseteq 0..Steps
         /\ s.policy \in {"unavailable", "hold_last"}
BY BoundsAssumption DEF Sensor, Few

(* What is in force is a boundary, or nothing.                             *)
LEMMA InForceType ==
  ASSUME NEW changes, changes \subseteq 0..Steps, NEW n \in Nat
  PROVE  InForce(changes, n) \in Nat \cup {None}
<1>1. CASE \E c \in changes : c <= n
  <2> DEFINE past == {c \in changes : c <= n}
  <2>1. past \subseteq 0..Steps /\ past # {}
    BY <1>1
  <2>a. Steps \in Int
    BY BoundsAssumption
  <2>2. Max(past) \in past
    <3> HIDE DEF past
    <3> QED
      BY <2>1, <2>a, Greatest
  <2>3. Max(past) \in Nat
    BY <2>1, <2>2
  <2> QED
    BY <1>1, <2>3 DEF InForce
<1>2. CASE ~ \E c \in changes : c <= n
  BY <1>2 DEF InForce
<1> QED
  BY <1>1, <1>2

(* It stays in force up to the next change.                                *)
LEMMA InForceSteady ==
  ASSUME NEW changes, changes \subseteq 0..Steps, NEW n \in Nat, NEW m \in Nat, n <= m,
         \A c \in changes : ~ (n < c /\ c <= m)
  PROVE  InForce(changes, m) = InForce(changes, n)
<1>1. \A c \in changes : c <= m <=> c <= n
  OBVIOUS
<1>2. {c \in changes : c <= m} = {c \in changes : c <= n}
  BY <1>1
<1> QED
  BY <1>1, <1>2 DEF InForce

-----------------------------------------------------------------------------
(* The declared run                                                        *)

Wind(n) == InForce(study.winds, n)

Deeds(n) == [command |-> Command(n), wind |-> Wind(n)]

(* The plant as it gets to a boundary, before the boundary's own change.   *)
Arrived(n) == IF n = 0 THEN <<>> ELSE Append(Declared[n - 1], Deeds(n - 1))

(* A command owed is a number or the trim.                                 *)
LEMMA DeedsType ==
  ASSUME study \in Study, NEW n \in Nat
  PROVE  Command(n) \in Nat \cup {None} /\ Deeds(n) \in Deed
<1>1. Command(n) \in Nat \cup {None}
  <2>1. CASE study.way = "plant"
    BY <2>1, StudyShape, InForceType DEF Command
  <2>2. CASE study.way # "plant"
    <3>1. n \div study.period \in Nat /\ study.delay \in Nat
      BY <2>2, StudyShape, QuotientType
    <3> QED
      BY <2>2, <3>1 DEF Command
  <2> QED
    BY <2>1, <2>2
<1>2. Wind(n) \in Nat \cup {None}
  BY StudyShape, InForceType DEF Wind
<1> QED
  BY <1>1, <1>2 DEF Deeds, Deed

(* A rebased state is a state.                                             *)
LEMMA RebasedType ==
  ASSUME NEW s \in Seq(Deed), NEW n \in Nat
  PROVE  Rebased(s, n) \in Seq(Deed)
<1>1. [rebased |-> n] \in Deed
  BY DEF Deed
<1> QED
  BY <1>1, AppendProperties DEF Rebased

(* What the recursion says of each boundary.                               *)
LEMMA DeclaredRun ==
  ASSUME study \in Study
  PROVE  \A n \in 0..Steps : /\ Arrived(n) \in Seq(Deed)
                             /\ Declared[n] \in Seq(Deed)
                             /\ Declared[n] = Rebased(Arrived(n), n)
<1> DEFINE X == Seq(Deed)
           next == [p \in Nat \X X |-> Rebased(Append(p[2], Deeds(p[1])), p[1] + 1)]
           base == Rebased(<<>>, 0)
           IsRun(g) == g = [n \in 0..Steps |->
                              Rebased(IF n = 0 THEN <<>>
                                      ELSE Append(g[n - 1], [command |-> Command(n - 1),
                                                             wind |-> InForce(study.winds, n - 1)]), n)]
<1>1. base \in X
  <2>1. <<>> \in Seq(Deed) /\ 0 \in Nat
    OBVIOUS
  <2> QED
    BY <2>1, RebasedType
<1>2. next \in [Nat \X X -> X]
  <2>1. ASSUME NEW n \in Nat, NEW s \in X
        PROVE  Rebased(Append(s, Deeds(n)), n + 1) \in X
    <3>1. Append(s, Deeds(n)) \in Seq(Deed) /\ n + 1 \in Nat
      BY DeedsType, AppendProperties
    <3> QED
      BY <3>1, RebasedType
  <2> QED
    BY <2>1
<1>3. PICK f : Follows(X, base, next, f)
  <2> HIDE DEF X, next, base
  <2>1. PICK b, nx : b = base /\ nx = next
    OBVIOUS
  <2>2. b \in X /\ nx \in [Nat \X X -> X]
    BY <1>1, <1>2, <2>1
  <2>3. \E f : Follows(X, b, nx, f)
    BY <2>2, Recursion
  <2> QED
    BY <2>1, <2>3
<1>4. f[0] = base /\ \A n \in Nat : f[n + 1] = Rebased(Append(f[n], Deeds(n)), n + 1)
  BY <1>3 DEF Follows
<1>5. \E g : IsRun(g)
  <2> DEFINE g == [n \in 0..Steps |-> f[n]]
  <2>1. ASSUME NEW n \in 0..Steps
        PROVE  g[n] = Rebased(IF n = 0 THEN <<>>
                              ELSE Append(g[n - 1], [command |-> Command(n - 1),
                                                     wind |-> InForce(study.winds, n - 1)]), n)
    <3>1. CASE n = 0
      BY <1>4, <3>1
    <3>2. CASE n # 0
      <4>1. n - 1 \in Nat /\ n - 1 \in 0..Steps /\ (n - 1) + 1 = n
        BY <3>2, BoundsAssumption
      <4>2. f[n] = Rebased(Append(f[n - 1], Deeds(n - 1)), n)
        BY <1>4, <4>1
      <4> QED
        BY <3>2, <4>1, <4>2 DEF Deeds, Wind
    <3> QED
      BY <3>1, <3>2
  <2>2. g = [n \in 0..Steps |-> g[n]]
    OBVIOUS
  <2> HIDE DEF g
  <2>3. IsRun(g)
    BY <2>1, <2>2, Zenon
  <2> QED
    BY <2>3
<1>6. IsRun(Declared)
  <2>1. Declared = CHOOSE g : IsRun(g)
    BY DEF Declared
  <2> HIDE DEF IsRun
  <2> QED
    BY <1>5, <2>1
<1>7. ASSUME NEW n \in 0..Steps
      PROVE  Declared[n] = Rebased(Arrived(n), n)
  BY <1>6, <1>7 DEF Arrived, Deeds, Wind
<1> HIDE DEF IsRun, X, next, base
<1> DEFINE S == {n \in Nat : n <= Steps => Arrived(n) \in Seq(Deed) /\ Declared[n] \in Seq(Deed)}
<1>8. 0 \in S
  <2>1. 0 \in 0..Steps /\ Arrived(0) = <<>>
    BY BoundsAssumption DEF Arrived
  <2>2. Arrived(0) \in Seq(Deed)
    <3>1. <<>> \in Seq(Deed)
      OBVIOUS
    <3> QED
      BY <2>1, <3>1
  <2> QED
    BY <1>7, <2>1, <2>2, RebasedType
<1>9. ASSUME NEW n \in Nat, n \in S
      PROVE  n + 1 \in S
  <2> SUFFICES ASSUME n + 1 <= Steps
               PROVE  Arrived(n + 1) \in Seq(Deed) /\ Declared[n + 1] \in Seq(Deed)
    OBVIOUS
  <2>1. n + 1 \in 0..Steps /\ n <= Steps /\ (n + 1) - 1 = n /\ n + 1 # 0 /\ n + 1 \in Nat
    BY BoundsAssumption
  <2>2. Arrived(n + 1) = Append(Declared[n], Deeds(n))
    BY <2>1 DEF Arrived
  <2>3. Arrived(n + 1) \in Seq(Deed)
    <3>1. PICK s \in Seq(Deed), d \in Deed : s = Declared[n] /\ d = Deeds(n)
      BY <1>9, <2>1, DeedsType DEF S
    <3>2. Append(s, d) \in Seq(Deed)
      BY AppendProperties
    <3> QED
      BY <2>2, <3>1, <3>2
  <2> QED
    BY <1>7, <2>1, <2>3, RebasedType
<1> HIDE DEF S
<1>10. \A n \in Nat : n \in S
  BY <1>8, <1>9, AllNaturals
<1> QED
  BY <1>7, <1>10, BoundsAssumption DEF S


(* Flying on by a step adds the step's deed.                               *)
LEMMA FlownOn ==
  ASSUME NEW s \in Seq(Deed), NEW c, NEW w, NEW j \in Nat,
         NEW e \in Deed, e = [command |-> c, wind |-> w]
  PROVE  /\ Flown(s, 0, c, w) = s
         /\ Flown(s, j, c, w) \in Seq(Deed)
         /\ Flown(s, j + 1, c, w) = Append(Flown(s, j, c, w), e)
<1> DEFINE legs(l) == [i \in 1..l |-> [command |-> c, wind |-> w]]
<1>1. \A l \in Nat : legs(l) \in Seq(Deed) /\ Len(legs(l)) = l
  <2>1. \A l \in Nat : [i \in 1..l |-> e] \in Seq(Deed) /\ Len([i \in 1..l |-> e]) = l
    OBVIOUS
  <2>2. \A l \in Nat : legs(l) = [i \in 1..l |-> e]
    OBVIOUS
  <2> HIDE DEF legs
  <2> QED
    BY <2>1, <2>2
<1>3. legs(j + 1) = Append(legs(j), e)
  OBVIOUS
<1>4. legs(0) = <<>>
  OBVIOUS
<1>5. \A l \in Nat : Flown(s, l, c, w) = s \o legs(l)
  BY DEF Flown
<1> HIDE DEF legs
<1>6. s \o Append(legs(j), e)
        = Append(s \o legs(j), e)
  BY <1>1
<1>7. s \o legs(0) = s
  BY <1>4
<1>8. s \o legs(j) \in Seq(Deed)
  BY <1>1, ConcatProperties
<1>9. Flown(s, 0, c, w) = s
  BY <1>5, <1>7
<1>10. Flown(s, j, c, w) \in Seq(Deed)
  BY <1>5, <1>8
<1>11. Flown(s, j + 1, c, w) = Append(Flown(s, j, c, w), e)
  <2>1. j + 1 \in Nat
    OBVIOUS
  <2>2. Flown(s, j + 1, c, w) = s \o legs(j + 1)
    BY <1>5, <2>1, Zenon
  <2>3. Flown(s, j, c, w) = s \o legs(j)
    BY <1>5
  <2> QED
    BY <1>3, <1>6, <2>2, <2>3, Zenon
<1> QED
  BY <1>9, <1>10, <1>11

(* The same, of a flight of given length.                                  *)
LEMMA FlownOneMore ==
  ASSUME NEW s \in Seq(Deed), NEW c, NEW w, NEW j \in Nat, NEW l \in Nat, l = j + 1,
         NEW e \in Deed, e = [command |-> c, wind |-> w]
  PROVE  Flown(s, l, c, w) = Append(Flown(s, j, c, w), e)
<1>1. Flown(s, j + 1, c, w) = Append(Flown(s, j, c, w), e)
  BY FlownOn
<1> QED
  BY <1>1

(* From a boundary on, as long as nothing changes, flying is what the run  *)
(* declares.                                                               *)
LEMMA FlownRun ==
  ASSUME study \in Study, NEW n \in 0..Steps, NEW m \in n..Steps, NEW c, NEW w,
         \A k \in n..(m - 1) : Command(k) = c /\ Wind(k) = w,
         \A k \in (n + 1)..(m - 1) : k \notin study.winds
  PROVE  /\ \A j \in 0..(m - n) : j > 0 => Flown(Declared[n], j, c, w) = Arrived(n + j)
         /\ \A j \in 0..(m - n) : j < m - n => Flown(Declared[n], j, c, w) = Declared[n + j]
<1> DEFINE S == {j \in Nat :
         /\ j <= m - n /\ j > 0 => Flown(Declared[n], j, c, w) = Arrived(n + j)
         /\ j < m - n => Flown(Declared[n], j, c, w) = Declared[n + j]}
<1>0. n \in Nat /\ m \in Nat /\ Steps \in Nat /\ m <= Steps
  BY BoundsAssumption
<1>1. ASSUME n < m
      PROVE  [command |-> c, wind |-> w] \in Deed /\ Deeds(n) = [command |-> c, wind |-> w]
  <2>1. n \in n..(m - 1) /\ n \in Nat
    BY <1>0, <1>1
  <2>2. Deeds(n) = [command |-> c, wind |-> w]
    BY <2>1 DEF Deeds
  <2> QED
    BY <2>1, <2>2, DeedsType
<1>2. Declared[n] \in Seq(Deed)
  BY DeclaredRun
<1>3. 0 \in S
  <2> SUFFICES ASSUME 0 < m - n
               PROVE  Flown(Declared[n], 0, c, w) = Declared[n + 0]
    OBVIOUS
  <2>1. PICK s \in Seq(Deed), e \in Deed : s = Declared[n] /\ e = [command |-> c, wind |-> w]
    BY <1>0, <1>1, <1>2
  <2>2. Flown(s, 0, c, w) = s
    BY <2>1, FlownOn
  <2> QED
    BY <1>0, <2>1, <2>2
<1>4. ASSUME NEW j \in Nat, j \in S
      PROVE  j + 1 \in S
  <2> SUFFICES ASSUME j + 1 <= m - n
               PROVE  /\ Flown(Declared[n], j + 1, c, w) = Arrived(n + (j + 1))
                      /\ j + 1 < m - n => Arrived(n + (j + 1)) = Declared[n + (j + 1)]
    OBVIOUS
  <2>1. /\ n + j \in n..(m - 1) /\ j < m - n /\ n + (j + 1) # 0 /\ n + (j + 1) - 1 = n + j
        /\ n + (j + 1) \in 0..Steps /\ n < m
    BY <1>0
  <2>2. Deeds(n + j) = [command |-> c, wind |-> w]
    BY <2>1 DEF Deeds
  <2>3. Arrived(n + (j + 1)) = Append(Declared[n + j], [command |-> c, wind |-> w])
    BY <2>1, <2>2 DEF Arrived
  <2>4. Flown(Declared[n], j, c, w) = Declared[n + j]
    BY <1>4, <2>1
  <2>5. PICK s \in Seq(Deed), e \in Deed : s = Declared[n] /\ e = [command |-> c, wind |-> w]
    BY <1>1, <1>2, <2>1
  <2>6. Flown(s, j + 1, c, w) = Append(Flown(s, j, c, w), e)
    <3>1. e = [command |-> c, wind |-> w]
      BY <2>5
    <3>2. PICK l \in Nat : l = j + 1
      OBVIOUS
    <3>3. Flown(s, l, c, w) = Append(Flown(s, j, c, w), e)
      BY <3>1, <3>2, FlownOneMore
    <3> QED
      BY <3>2, <3>3
  <2>7. ASSUME j + 1 < m - n
        PROVE  Arrived(n + (j + 1)) = Declared[n + (j + 1)]
    <3>1. n + (j + 1) \in (n + 1)..(m - 1)
      BY <1>0, <2>7
    <3>2. n + (j + 1) \notin study.winds
      BY <3>1
    <3>3. Declared[n + (j + 1)] = Rebased(Arrived(n + (j + 1)), n + (j + 1))
      BY <2>1, DeclaredRun
    <3> QED
      BY <3>2, <3>3 DEF Rebased
  <2> QED
    BY <2>3, <2>4, <2>5, <2>6, <2>7
<1> HIDE DEF S
<1>5. \A j \in Nat : j \in S
  BY <1>3, <1>4, AllNaturals
<1> QED
  BY <1>0, <1>5 DEF S

(* What a study declares stays when the study does.                        *)
LEMMA StudyFixed ==
  ASSUME study' = study
  PROVE  /\ Declared' = Declared /\ Predicted' = Predicted /\ Stride' = Stride
         /\ \A n : Command(n)' = Command(n) /\ Wind(n)' = Wind(n)
         /\ \A n : Arrived(n)' = Arrived(n) /\ Reading(n)' = Reading(n)
<1>1. PICK st : study = st /\ study' = st
  OBVIOUS
<1>2. \A n : Command(n)' = Command(n) /\ Wind(n)' = Wind(n)
  BY <1>1 DEF Command, Wind, InForce
<1>3. Declared' = Declared
  BY <1>1, <1>2, ZenonT(30) DEF Declared, Rebased, Wind, Command
<1>4. Predicted' = Predicted
  BY <1>1, Zenon DEF Predicted
<1>5. Stride' = Stride
  BY <1>1 DEF Stride
<1>6. \A n : Arrived(n)' = Arrived(n)
  BY <1>2, <1>3 DEF Arrived, Deeds
<1>7. \A n : Reading(n)' = Reading(n)
  BY <1>1, <1>3 DEF Reading
<1> QED
  BY <1>2, <1>3, <1>4, <1>5, <1>6, <1>7


-----------------------------------------------------------------------------
(* The delay line                                                          *)

(* The command a tick applies: that of as many ticks before as the delay   *)
(* is long, the trim while there was none.                                 *)
Owed(d, tick) == IF tick < d THEN None ELSE tick - d

(* Before a tick its slots have the last ticks, each at its place, and the *)
(* trim where no tick has come yet.                                        *)
IsLine(line, d, tick) ==
  /\ line = [i \in 0..d |-> line[i]]
  /\ \A t \in 0..(tick - 1) : tick <= t + d + 1 => line[Slot(d, t)] = t
  /\ \A t \in tick..d : line[t] = None

(* At first all of them have the trim.                                     *)
LEMMA FirstLine ==
  ASSUME NEW d \in Nat
  PROVE  IsLine([i \in 0..d |-> None], d, 0)
BY DEF IsLine

(* A tick takes the slot of the oldest one, and the next slot is then the  *)
(* one it owes.                                                            *)
LEMMA NextLine ==
  ASSUME NEW d \in Nat, NEW tick \in Nat, NEW line, IsLine(line, d, tick),
         NEW next, next = [line EXCEPT ![Slot(d, tick)] = tick]
  PROVE  /\ IsLine(next, d, tick + 1)
         /\ next[Slot(d, tick + 1)] = Owed(d, tick)
         /\ Slot(d, tick) \in 0..d /\ Slot(d, tick + 1) \in 0..d
<1> DEFINE slot == Slot(d, tick)
<1>1. slot \in 0..d /\ Slot(d, tick + 1) \in 0..d /\ tick + 1 \in Nat
  BY Slots
<1>2. tick <= d => slot = tick
  BY Slots
<1>3. ASSUME NEW t \in 0..(tick - 1), tick + 1 <= t + d + 1
      PROVE  Slot(d, t) \in 0..d /\ Slot(d, t) # slot
  <2>1. t \in Nat /\ t < tick /\ tick <= t + d
    BY <1>3
  <2>2. /\ Slot(d, t) \in 0..d
        /\ t < tick /\ tick <= t + d => Slot(d, t) # Slot(d, tick)
    BY <2>1, Slots
  <2> QED
    BY <2>1, <2>2
<1> HIDE DEF slot
<1>4. /\ next = [i \in 0..d |-> next[i]] /\ next[slot] = tick
      /\ \A i \in 0..d : i # slot => next[i] = line[i]
  BY <1>1 DEF IsLine, slot
<1>5. ASSUME NEW t \in 0..tick, tick + 1 <= t + d + 1
      PROVE  next[Slot(d, t)] = t
  <2>1. CASE t = tick
    BY <1>4, <2>1 DEF slot
  <2>2. CASE t \in 0..(tick - 1)
    <3>1. Slot(d, t) \in 0..d /\ Slot(d, t) # slot
      BY <1>3, <1>5, <2>2
    <3>2. tick <= t + d + 1
      BY <1>5, <2>2
    <3>3. line[Slot(d, t)] = t
      BY <2>2, <3>2 DEF IsLine
    <3> QED
      BY <1>4, <3>1, <3>3
  <2> QED
    BY <2>1, <2>2
<1>6. ASSUME NEW t \in (tick + 1)..d
      PROVE  next[t] = None
  <2>1. t \in tick..d /\ t \in 0..d /\ t # tick /\ tick <= d
    BY <1>6
  <2>2. line[t] = None /\ t # slot
    BY <1>2, <2>1 DEF IsLine
  <2> QED
    BY <1>4, <2>1, <2>2
<1>7. IsLine(next, d, tick + 1)
  <2>1. (tick + 1) - 1 = tick
    OBVIOUS
  <2> QED
    BY <1>4, <1>5, <1>6, <2>1 DEF IsLine
<1>8. next[Slot(d, tick + 1)] = Owed(d, tick)
  <2>1. CASE tick < d
    <3>1. tick + 1 <= d /\ tick + 1 \in (tick + 1)..d
      BY <2>1
    <3>2. Slot(d, tick + 1) = tick + 1
      BY <1>1, <3>1, Slots
    <3> QED
      BY <1>6, <2>1, <3>1, <3>2 DEF Owed
  <2>2. CASE ~ (tick < d)
    <3>1. /\ tick - d \in Nat /\ tick - d \in 0..tick /\ (tick - d) + d + 1 = tick + 1
          /\ tick + 1 <= (tick - d) + d + 1
      BY <2>2
    <3>2. Slot(d, tick + 1) = Slot(d, tick - d)
      BY <1>1, <3>1, Slots
    <3> QED
      BY <1>5, <2>2, <3>1, <3>2 DEF Owed
  <2> QED
    BY <2>1, <2>2
<1> QED
  BY <1>1, <1>7, <1>8 DEF slot

-----------------------------------------------------------------------------
(* The invariant                                                           *)

(* How many multiples of p are below n: the ticks and the samples that     *)
(* are due before boundary n.                                              *)
Multiples(p, n) == IF n = 0 THEN 0 ELSE (n - 1) \div p + 1

TickRecord == [available : BOOLEAN, stale : BOOLEAN, measurement : Measurement,
               applied : Nat \cup {None}]

SampleRecord == [at : 0..Steps, state : Seq(Deed), command : Nat \cup {None}]

ReadingRecord == [available : BOOLEAN, stale : BOOLEAN, value : Seq(Deed)]

Waiter == [index : Nat, value : Seq(Deed)]

Running == pc \in {"boundary", "tick", "step"}

(* In its step the boundary's tick, if it has one, is over.                *)
Unlabelled == pc \in {"boundary", "tick"} \/ step = Steps

TypeOK ==
  /\ study \in Study
  /\ step \in 0..Steps
  /\ study.way = "plant" => pc \in {"segment", "close", "done", "refused"}
  /\ study.way = "sampled" => pc \in {"boundary", "step", "done", "refused"}
  /\ study.way = "loop" => pc \in {"boundary", "tick", "step", "done", "refused"}

(* Where a sampled loop is, how many ticks it has behind it, and that its  *)
(* plant is the declared one.                                              *)
Clock ==
  study.way # "plant" =>
    /\ pc \in {"tick", "step"} => step < Steps /\ state = Declared[step]
    /\ pc = "boundary" => state = Arrived(step)
    /\ pc = "tick" \/ (study.way = "sampled" /\ pc = "boundary") => step % study.period = 0
    /\ pc \in {"boundary", "tick"} \/ (pc = "done" /\ step = Steps) =>
         Len(ticks) = Multiples(study.period, step)
    /\ study.way = "sampled" /\ pc = "done" => step = Steps
    /\ pc = "step" => Len(ticks) = Multiples(study.period, step + 1)

(* What the ticks have left in the delay line, and applied.                *)
Line ==
  study.way # "plant" =>
    /\ ticks \in Seq(TickRecord)
    /\ IsLine(queue, study.delay, Len(ticks))
    /\ head = Slot(study.delay, Len(ticks))
    /\ applied = IF Len(ticks) = 0 THEN None ELSE Owed(study.delay, Len(ticks) - 1)
    /\ \A k \in 1..Len(ticks) : ticks[k].applied = Owed(study.delay, k - 1)

Held ==
  study.way = "loop" =>
    held = IF Len(ticks) = 0 THEN None ELSE ticks[Len(ticks)].measurement

(* What a stored boundary of a closed loop has; it is labelled when its    *)
(* tick is over.                                                           *)
LoopSample(r) ==
  /\ r.state = IF r.at = 0 /\ step = 0 /\ pc = "boundary" THEN <<>>
               ELSE IF r.at = 0 THEN Declared[0] ELSE Arrived(r.at)
  /\ r.command = IF r.at = step /\ Unlabelled THEN applied ELSE Command(r.at)

LoopStored ==
  study.way = "loop" /\ pc # "refused" =>
    /\ stored \in Seq(SampleRecord) /\ Len(stored) > 0
    /\ \A i \in 1..Len(stored) : LoopSample(stored[i]) /\ stored[i].at <= step
    /\ \A i \in 1..(Len(stored) - 1) : stored[i].at < step
    /\ {stored[i].at : i \in 1..Len(stored)}
         = {n \in 0..step : n = Steps \/ n % study.stride = 0}

SampledSample(r) ==
  /\ r.state = Declared[r.at]
  /\ r.command = IF r.at = Steps THEN applied ELSE Command(r.at)

SampledStored ==
  study.way = "sampled" /\ pc # "refused" =>
    /\ stored \in Seq(SampleRecord)
    /\ \A i \in 1..Len(stored) : SampledSample(stored[i])
    /\ {stored[i].at : i \in 1..Len(stored)}
         = {n \in 0..step : n % study.period = 0 /\ (n = step => pc # "boundary")}

(* The states sim.plant has kept so far.                                   *)
Kept(n) ==
  /\ Len(stored) = n
  /\ stored = [i \in 1..n |-> [at |-> i - 1, state |-> Declared[i - 1]]]

Changes == study.winds \cup study.orders

Plant ==
  study.way = "plant" =>
    /\ ticks = <<>>
    /\ pc = "segment" =>
         \/ step = 0 /\ 0 \in Changes /\ boundaries = Changes /\ state = <<>> /\ Kept(0)
         \/ boundaries = {c \in Changes : step < c} /\ state = Declared[step] /\ Kept(step)
    /\ pc = "close" => step = Steps /\ state = Declared[Steps] /\ Kept(Steps)
    /\ pc = "done" => ExportIsTheDeclaredRun

(* The samples taken so far, of which the last ones wait to be delivered.  *)
Taken == Multiples(study.sensor.every, IF pc = "boundary" THEN step ELSE step + 1)

Waiting(taken) == IF taken < study.sensor.latency THEN taken ELSE study.sensor.latency

(* The samples that can have been delivered when that many are taken.      *)
Delivered(taken) == (0..(taken - 1 - study.sensor.latency)) \ study.sensor.dropped

Sample(index) == [index |-> index, value |-> Declared[index * study.sensor.every]]

(* The last ones, each in its turn.                                        *)
IsPending(samples, taken) ==
  /\ Len(samples) = Waiting(taken)
  /\ \A i \in 1..Waiting(taken) : samples[i] = Sample(taken - Waiting(taken) + i - 1)

(* What the reading is then.                                               *)
IsLatest(r, taken) ==
  LET due == taken - 1 - study.sensor.latency
  IN /\ r.available <=> /\ due >= 0
                             /\ \/ due \in Delivered(taken)
                                \/ study.sensor.policy = "hold_last" /\ Delivered(taken) # {}
     /\ r.stale <=> due >= 0 /\ due \notin Delivered(taken)
     /\ Delivered(taken) # {} =>
          r.value = Declared[Max(Delivered(taken)) * study.sensor.every]

(* Both together.                                                          *)
Measured(r, samples, taken) ==
  /\ r \in ReadingRecord
  /\ samples \in Seq(Waiter)
  /\ IsPending(samples, taken)
  /\ IsLatest(r, taken)

SensorLine ==
  study.way = "loop" /\ Running =>
    /\ latest \in ReadingRecord
    /\ study.sensor # None => Measured(latest, pending, Taken)
    /\ study.sensor = None /\ pc # "boundary" =>
         latest = [available |-> TRUE, stale |-> FALSE, value |-> Declared[step]]

Invariant ==
  /\ TypeOK /\ Clock /\ Line /\ Held /\ LoopStored /\ SampledStored /\ Plant /\ SensorLine
  /\ ControllerSeesItsReading

(* Multiples from one boundary to the next.                                *)
LEMMA CountMultiples ==
  ASSUME NEW p \in Nat \ {0}, NEW n \in Nat
  PROVE  /\ Multiples(p, n) \in Nat /\ Multiples(p, 0) = 0
         /\ Multiples(p, n + 1) = n \div p + 1
         /\ n % p = 0 => Multiples(p, n) = n \div p
         /\ n % p # 0 => Multiples(p, n) = Multiples(p, n + 1) /\ n > 0
         /\ n > 0 => n - 1 \in Nat /\ Multiples(p, n) = (n - 1) \div p + 1
<1>1. Multiples(p, n + 1) = n \div p + 1 /\ n \div p \in Nat /\ Multiples(p, 0) = 0
  BY QuotientType DEF Multiples
<1>2. CASE n = 0
  <2>1. 0 \div p = 0 /\ 0 % p = 0
    OBVIOUS
  <2> QED
    BY <1>1, <1>2, <2>1
<1>3. CASE n > 0
  <2>1. PICK m \in Nat : n = m + 1 /\ m = n - 1
    BY <1>3
  <2>2. Multiples(p, n) = m \div p + 1 /\ m \div p \in Nat
    BY <2>1, QuotientType DEF Multiples
  <2>3. /\ n % p = 0 => n \div p = m \div p + 1
        /\ n % p # 0 => n \div p = m \div p
    BY <2>1, NextDivided
  <2> QED
    BY <1>1, <1>3, <2>1, <2>2, <2>3
<1> QED
  BY <1>2, <1>3

(* What the export knows of a command is what the delay line owes.         *)
LEMMA OwedCommand ==
  ASSUME study \in Study, study.way # "plant", NEW n \in Nat
  PROVE  Command(n) = Owed(study.delay, n \div study.period)
BY DEF Command, Owed

(* What is owed is a number or the trim.                                   *)
LEMMA OwedType ==
  ASSUME NEW d \in Nat, NEW tick \in Nat
  PROVE  Owed(d, tick) \in Nat \cup {None}
BY DEF Owed

-----------------------------------------------------------------------------
(* Steps of the delay line                                                 *)

(* A tick takes the line to the next one and applies what it owes.         *)
LEMMA ReleaseStep ==
  ASSUME study \in Study, Line, study.way # "plant", study' = study,
         NEW reading, reading.available \in BOOLEAN, reading.stale \in BOOLEAN,
         NEW measurement \in Measurement, Release(reading, measurement)
  PROVE  /\ Line' /\ Len(ticks) \in Nat /\ Len(ticks') = Len(ticks) + 1
         /\ applied' = Owed(study.delay, Len(ticks))
         /\ \A k \in 1..Len(ticks) : ticks'[k] = ticks[k]
         /\ LET r == ticks'[Len(ticks) + 1]
            IN /\ r.available = reading.available /\ r.stale = reading.stale
               /\ r.measurement = measurement
<1>1. PICK d \in Nat, n \in Nat : d = study.delay /\ n = Len(ticks)
  BY StudyShape DEF Line
<1>2. PICK line : line = [queue EXCEPT ![Slot(d, n)] = n]
  OBVIOUS
<1>3. queue' = line /\ head' = Slot(d, n + 1) /\ applied' = line[head']
  <2>1. head = Slot(d, n)
    BY <1>1 DEF Line
  <2>2. queue' = line
    BY <1>1, <1>2, <2>1 DEF Release
  <2>3. head' = (head + 1) % (d + 1) /\ applied' = line[head']
    BY <1>1, <1>2, <2>1 DEF Release
  <2>4. (Slot(d, n) + 1) % (d + 1) = Slot(d, n + 1)
    <3>1. PICK p \in Nat \ {0} : p = d + 1
      BY <1>1
    <3>2. ((n % p) + 1) % p = (n + 1) % p
      BY CountedOn
    <3> QED
      BY <3>1, <3>2 DEF Slot
  <2> QED
    BY <2>1, <2>2, <2>3, <2>4
<1>4. IsLine(line, d, n + 1) /\ line[Slot(d, n + 1)] = Owed(d, n)
  <2>1. IsLine(queue, d, n)
    BY <1>1 DEF Line
  <2>2. PICK q : q = queue
    OBVIOUS
  <2>3. IsLine(q, d, n) /\ line = [q EXCEPT ![Slot(d, n)] = n]
    BY <1>2, <2>1, <2>2
  <2> QED
    BY <2>3, NextLine
<1>5. PICK r \in TickRecord :
        r = [available |-> reading.available, stale |-> reading.stale,
             measurement |-> measurement, applied |-> Owed(d, n)]
  BY OwedType DEF TickRecord
<1>6. applied' = Owed(d, n) /\ ticks' = Append(ticks, r)
  BY <1>1, <1>2, <1>3, <1>4, <1>5 DEF Release
<1>7. PICK t \in Seq(TickRecord) : t = ticks
  BY DEF Line
<1>8. /\ ticks' \in Seq(TickRecord) /\ Len(ticks') = n + 1
      /\ \A k \in 1..n : ticks'[k] = ticks[k]
      /\ ticks'[n + 1] = r
  BY <1>1, <1>6, <1>7, AppendProperties
<1>9. \A k \in 1..(n + 1) : ticks'[k].applied = Owed(d, k - 1)
  <2>1. \A k \in 1..n : ticks[k].applied = Owed(d, k - 1)
    BY <1>1 DEF Line
  <2>2. ticks'[n + 1].applied = Owed(d, (n + 1) - 1)
    <3>1. (n + 1) - 1 = n
      OBVIOUS
    <3> QED
      BY <1>5, <1>8, <3>1
  <2>3. \A k \in 1..(n + 1) : k \in 1..n \/ k = n + 1
    OBVIOUS
  <2> QED
    BY <1>8, <2>1, <2>2, <2>3
<1>10. Line'
  <2>1. study'.delay = d
    BY <1>1
  <2>2. IsLine(queue, study.delay, Len(ticks))'
    <3>1. IsLine(queue', d, n + 1)
      BY <1>3, <1>4
    <3> QED
      BY <1>8, <2>1, <3>1 DEF IsLine
  <2>3. head' = Slot(study'.delay, Len(ticks'))
    BY <1>3, <1>8, <2>1
  <2>4. applied' = IF Len(ticks') = 0 THEN None ELSE Owed(study'.delay, Len(ticks') - 1)
    BY <1>6, <1>8, <2>1
  <2>5. \A k \in 1..Len(ticks') : ticks'[k].applied = Owed(study'.delay, k - 1)
    BY <1>8, <1>9, <2>1
  <2> QED
    BY <1>8, <2>2, <2>3, <2>4, <2>5 DEF Line, Slot, Owed
<1> QED
  BY <1>1, <1>5, <1>6, <1>8, <1>10

(* Nothing else does anything to it.                                       *)
LEMMA LineKept ==
  ASSUME Line, study' = study, UNCHANGED <<applied, queue, head, ticks>>
  PROVE  Line'
BY DEF Line, IsLine, Slot, Owed

-----------------------------------------------------------------------------
(* What the invariant says of the export                                   *)

(* The command held over a step is the one the delay line owes it.         *)
LEMMA AppliedCommand ==
  ASSUME study \in Study, Line, study.way # "plant", NEW n \in Nat,
         Len(ticks) = Multiples(study.period, n + 1)
  PROVE  applied = Command(n)
<1>1. PICK p \in Nat \ {0} : p = study.period
  BY StudyShape
<1>2. Multiples(p, n + 1) = n \div p + 1 /\ n \div p \in Nat
  BY CountMultiples, QuotientType
<1>3. PICK tick \in Nat : tick = n \div p /\ Len(ticks) = tick + 1
  BY <1>1, <1>2
<1>4. applied = Owed(study.delay, tick)
  BY <1>3 DEF Line
<1> QED
  BY <1>1, <1>3, <1>4, OwedCommand

(* The closed loop's: its samples have the state before the change of      *)
(* their boundary, the first one after it.                                 *)
LEMMA LoopExport ==
  ASSUME TypeOK, Clock, Line, LoopStored, study.way = "loop"
  PROVE  ExportIsTheDeclaredRun
<1> SUFFICES ASSUME pc = "done"
             PROVE  ExportIsTheDeclaredRun
  BY DEF ExportIsTheDeclaredRun
<1>0. study \in Study /\ step \in 0..Steps /\ Steps \in Nat \ {0}
  BY BoundsAssumption DEF TypeOK
<1>1. /\ stored \in Seq(SampleRecord) /\ DOMAIN stored = 1..Len(stored)
      /\ \A i \in 1..Len(stored) : LoopSample(stored[i]) /\ stored[i].at <= step
      /\ {stored[i].at : i \in 1..Len(stored)} = {n \in 0..step : n = Steps \/ n % study.stride = 0}
  BY DEF LoopStored
<1>2. ASSUME step = Steps
      PROVE  applied = Command(Steps - 1)
  <2>1. Steps - 1 \in Nat /\ (Steps - 1) + 1 = Steps
    BY <1>0
  <2>2. Len(ticks) = Multiples(study.period, (Steps - 1) + 1)
    BY <1>2, <2>1 DEF Clock
  <2> QED
    BY <1>0, <2>1, <2>2, AppliedCommand
<1>3. ASSUME NEW i \in 1..Len(stored)
      PROVE  /\ stored[i].command = IF stored[i].at = Steps THEN Command(Steps - 1)
                                    ELSE Command(stored[i].at)
             /\ IF stored[i].at \in study.winds \ {0}
                THEN Append(stored[i].state, [rebased |-> stored[i].at]) = Declared[stored[i].at]
                ELSE stored[i].state = Declared[stored[i].at]
  <2>1. PICK n \in 0..Steps : n = stored[i].at /\ n <= step
    <3>1. stored[i] \in SampleRecord /\ stored[i].at <= step
      BY <1>1
    <3>2. stored[i].at \in 0..Steps
      BY <3>1 DEF SampleRecord
    <3> QED
      BY <3>1, <3>2
  <2>2. stored[i].command = IF n = step /\ Unlabelled THEN applied ELSE Command(n)
    BY <1>1, <2>1 DEF LoopSample
  <2>3. stored[i].command = IF n = Steps THEN Command(Steps - 1) ELSE Command(n)
    <3>1. CASE n = Steps
      BY <1>0, <1>2, <2>1, <2>2, <3>1 DEF Unlabelled
    <3>2. CASE n # Steps
      BY <2>2, <3>2 DEF Unlabelled
    <3> QED
      BY <3>1, <3>2
  <2>4. stored[i].state = IF n = 0 THEN Declared[0] ELSE Arrived(n)
    BY <1>1, <2>1 DEF LoopSample
  <2>5. Declared[n] = Rebased(Arrived(n), n)
    BY <1>0, DeclaredRun
  <2> QED
    BY <2>1, <2>3, <2>4, <2>5 DEF Rebased
<1>4. Stride = study.stride
  BY DEF Stride
<1> QED
  BY <1>1, <1>3, <1>4 DEF ExportIsTheDeclaredRun

(* The lines of both delay lines owe the same.                             *)
LEMMA PredictedRun ==
  ASSUME study \in Study, study.way # "plant"
  PROVE  Predicted = [i \in 1..(Steps \div study.period) |-> Owed(study.delay, i - 1)]
<1>1. PICK p \in Nat \ {0}, d \in Nat, count \in Nat :
        p = study.period /\ d = study.delay /\ count = Steps \div study.period
  BY BoundsAssumption, StudyShape, QuotientType
<1> DEFINE Line0 == [0..d -> Nat \cup {None}]
           X == Seq(Nat \cup {None}) \X Line0
           turned(k, line) == [line EXCEPT ![Slot(d, k)] = k]
           next == [q \in Nat \X X |->
                      << Append(q[2][1], turned(q[1], q[2][2])[Slot(d, q[1] + 1)]),
                         turned(q[1], q[2][2]) >>]
           base == << <<>>, [i \in 0..d |-> None] >>
           IsAfter(g) == g = [k \in 0..count |->
               IF k = 0 THEN [applied |-> <<>>, line |-> [i \in 0..d |-> None]]
               ELSE LET line == [g[k - 1].line EXCEPT ![Slot(d, k - 1)] = k - 1]
                    IN [applied |-> Append(g[k - 1].applied, line[Slot(d, k)]), line |-> line]]
<1>2. base \in X
  <2>1. <<>> \in Seq(Nat \cup {None}) /\ [i \in 0..d |-> None] \in Line0
    OBVIOUS
  <2> QED
    BY <2>1
<1>3. next \in [Nat \X X -> X]
  <2>1. ASSUME NEW k \in Nat, NEW s \in Seq(Nat \cup {None}), NEW line \in Line0
        PROVE  /\ turned(k, line) \in Line0
               /\ Append(s, turned(k, line)[Slot(d, k + 1)]) \in Seq(Nat \cup {None})
    <3>1. Slot(d, k + 1) \in 0..d
      <4>1. k + 1 \in Nat
        OBVIOUS
      <4> QED
        BY <4>1, Slots
    <3>2. turned(k, line) \in Line0
      OBVIOUS
    <3>3. turned(k, line)[Slot(d, k + 1)] \in Nat \cup {None}
      BY <3>1, <3>2
    <3> QED
      BY <3>2, <3>3, AppendProperties
  <2> HIDE DEF turned, Line0
  <2>2. ASSUME NEW q \in Nat \X X
        PROVE  next[q] \in X
    <3>1. q[1] \in Nat /\ q[2][1] \in Seq(Nat \cup {None}) /\ q[2][2] \in Line0
      OBVIOUS
    <3> QED
      BY <2>1, <3>1
  <2> QED
    BY <2>2
<1> HIDE DEF turned, Line0
<1>4. PICK f : Follows(X, base, next, f)
  <2> HIDE DEF X, next, base
  <2> QED
    BY <1>2, <1>3, Recursion
<1>5. /\ f[0] = base
      /\ \A n \in Nat : /\ f[n] \in X
                        /\ f[n + 1] = << Append(f[n][1], turned(n, f[n][2])[Slot(d, n + 1)]),
                                         turned(n, f[n][2]) >>
  <2>1. ASSUME NEW n \in Nat
        PROVE  f[n] \in X /\ f[n + 1] = next[<<n, f[n]>>]
    BY <1>4 DEF Follows
  <2>2. f[0] = base
    BY <1>4 DEF Follows
  <2>3. ASSUME NEW n \in Nat
        PROVE  next[<<n, f[n]>>] = << Append(f[n][1], turned(n, f[n][2])[Slot(d, n + 1)]),
                                      turned(n, f[n][2]) >>
    <3>1. <<n, f[n]>> \in Nat \X X
      BY <2>1
    <3> QED
      BY <3>1
  <2> HIDE DEF X, next, base
  <2> QED
    BY <2>1, <2>2, <2>3
<1>6. \E g : IsAfter(g)
  <2> DEFINE g == [k \in 0..count |-> [applied |-> f[k][1], line |-> f[k][2]]]
  <2>1. ASSUME NEW k \in 0..count
        PROVE  g[k] = IF k = 0 THEN [applied |-> <<>>, line |-> [i \in 0..d |-> None]]
                      ELSE LET line == [g[k - 1].line EXCEPT ![Slot(d, k - 1)] = k - 1]
                           IN [applied |-> Append(g[k - 1].applied, line[Slot(d, k)]), line |-> line]
    <3>1. CASE k = 0
      <4>1. f[0][1] = <<>> /\ f[0][2] = [i \in 0..d |-> None]
        BY <1>5
      <4>2. g[0] = [applied |-> f[0][1], line |-> f[0][2]]
        OBVIOUS
      <4> HIDE DEF g
      <4> QED
        BY <3>1, <4>1, <4>2
    <3>2. CASE k # 0
      <4>1. k - 1 \in Nat /\ k - 1 \in 0..count /\ (k - 1) + 1 = k
        BY <3>2
      <4>2. g[k - 1].applied = f[k - 1][1] /\ g[k - 1].line = f[k - 1][2]
        BY <4>1
      <4>3. g[k] = [applied |-> f[k][1], line |-> f[k][2]]
        OBVIOUS
      <4>4. /\ f[k][1] = Append(f[k - 1][1], turned(k - 1, f[k - 1][2])[Slot(d, k)])
            /\ f[k][2] = turned(k - 1, f[k - 1][2])
        <5>1. PICK j \in Nat : j = k - 1 /\ j + 1 = k
          BY <4>1
        <5>2. f[j + 1] = << Append(f[j][1], turned(j, f[j][2])[Slot(d, j + 1)]),
                            turned(j, f[j][2]) >>
          BY <1>5
        <5> QED
          BY <5>1, <5>2
      <4>5. turned(k - 1, f[k - 1][2]) = [f[k - 1][2] EXCEPT ![Slot(d, k - 1)] = k - 1]
        BY DEF turned
      <4> HIDE DEF g
      <4> QED
        BY <3>2, <4>2, <4>3, <4>4, <4>5
    <3> QED
      BY <3>1, <3>2
  <2>2. g = [k \in 0..count |-> g[k]]
    OBVIOUS
  <2> HIDE DEF g
  <2>3. IsAfter(g)
    BY <2>1, <2>2, Zenon
  <2> QED
    BY <2>3
<1> HIDE DEF X, next, base
<1>7. PICK after : after = CHOOSE g : IsAfter(g)
  OBVIOUS
<1>8. IsAfter(after)
  <2> HIDE DEF IsAfter
  <2> QED
    BY <1>6, <1>7
<1>9. Predicted = after[count].applied
  BY <1>1, <1>7, ZenonT(30) DEF Predicted, Slot
<1> DEFINE S == {k \in Nat : k <= count => /\ IsLine(after[k].line, d, k)
                                          /\ after[k].applied = [i \in 1..k |-> Owed(d, i - 1)]}
<1>10. after[0] = [applied |-> <<>>, line |-> [i \in 0..d |-> None]]
  BY <1>8
<1>11. ASSUME NEW k \in Nat, k + 1 <= count
       PROVE  LET line == [after[k].line EXCEPT ![Slot(d, k)] = k]
              IN after[k + 1] = [applied |-> Append(after[k].applied, line[Slot(d, k + 1)]),
                                 line |-> line]
  <2>1. k + 1 \in 0..count /\ k + 1 # 0 /\ (k + 1) - 1 = k
    BY <1>11
  <2> QED
    BY <1>8, <2>1
<1> HIDE DEF IsAfter
<1>12. 0 \in S
  <2>1. after[0].line = [i \in 0..d |-> None] /\ after[0].applied = <<>>
    BY <1>10
  <2>2. [i \in 1..0 |-> Owed(d, i - 1)] = <<>>
    OBVIOUS
  <2> QED
    BY <2>1, <2>2, FirstLine
<1>13. ASSUME NEW k \in Nat, k \in S
       PROVE  k + 1 \in S
  <2> SUFFICES ASSUME k + 1 <= count
               PROVE  /\ IsLine(after[k + 1].line, d, k + 1)
                      /\ after[k + 1].applied = [i \in 1..(k + 1) |-> Owed(d, i - 1)]
    OBVIOUS
  <2>1. /\ IsLine(after[k].line, d, k)
        /\ after[k].applied = [i \in 1..k |-> Owed(d, i - 1)]
    BY <1>13
  <2>2. PICK line, turn : line = after[k].line /\ turn = [line EXCEPT ![Slot(d, k)] = k]
    OBVIOUS
  <2>3. IsLine(turn, d, k + 1) /\ turn[Slot(d, k + 1)] = Owed(d, k)
    BY <2>1, <2>2, NextLine
  <2>4. /\ after[k + 1].applied = Append(after[k].applied, Owed(d, k))
        /\ after[k + 1].line = turn
    <3>1. after[k + 1] = [applied |-> Append(after[k].applied, turn[Slot(d, k + 1)]), line |-> turn]
      BY <1>11, <2>2
    <3> QED
      BY <2>3, <3>1
  <2>5. Append([i \in 1..k |-> Owed(d, i - 1)], Owed(d, k)) = [i \in 1..(k + 1) |-> Owed(d, i - 1)]
    OBVIOUS
  <2> QED
    BY <2>1, <2>3, <2>4, <2>5
<1> HIDE DEF S
<1>14. \A k \in Nat : k \in S
  BY <1>12, <1>13, AllNaturals
<1>15. after[count].applied = [i \in 1..count |-> Owed(d, i - 1)]
  BY <1>14 DEF S
<1> QED
  BY <1>1, <1>9, <1>15

(* sim.sampled's.                                                          *)
LEMMA SampledExport ==
  ASSUME TypeOK, Clock, Line, SampledStored, study.way = "sampled"
  PROVE  ExportIsTheDeclaredRun
<1> SUFFICES ASSUME pc = "done"
             PROVE  ExportIsTheDeclaredRun
  BY DEF ExportIsTheDeclaredRun
<1>0. study \in Study /\ Steps \in Nat \ {0} /\ step = Steps
  BY BoundsAssumption DEF TypeOK, Clock
<1>1. /\ stored \in Seq(SampleRecord) /\ DOMAIN stored = 1..Len(stored)
      /\ \A i \in 1..Len(stored) : SampledSample(stored[i])
      /\ {stored[i].at : i \in 1..Len(stored)} = {n \in 0..step : n % study.period = 0}
  BY DEF SampledStored
<1>2. applied = Command(Steps - 1) /\ Len(ticks) = Steps \div study.period
  <2>1. Steps - 1 \in Nat /\ (Steps - 1) + 1 = Steps
    BY <1>0
  <2>2. Len(ticks) = Multiples(study.period, Steps)
    BY <1>0 DEF Clock
  <2>3. applied = Command(Steps - 1)
    BY <1>0, <2>1, <2>2, AppliedCommand
  <2>4. Multiples(study.period, Steps) = Steps \div study.period
    <3>1. study.period \in Nat \ {0} /\ Steps % study.period = 0 /\ Steps \in Nat
      BY <1>0, StudyShape
    <3> QED
      BY <3>1, CountMultiples
  <2> QED
    BY <2>2, <2>3, <2>4
<1>3. \A i \in 1..Len(stored) :
        /\ stored[i].command = IF stored[i].at = Steps THEN Command(Steps - 1)
                               ELSE Command(stored[i].at)
        /\ stored[i].state = Declared[stored[i].at]
  BY <1>1, <1>2 DEF SampledSample
<1>4. Stride = study.period /\ Steps % study.period = 0
  BY <1>0, StudyShape DEF Stride
<1>5. {n \in 0..step : n % study.period = 0} = {n \in 0..step : n = Steps \/ n % Stride = 0}
  BY <1>4
<1>6. [k \in DOMAIN ticks |-> ticks[k].applied] = Predicted
  <2>1. Predicted = [i \in 1..(Steps \div study.period) |-> Owed(study.delay, i - 1)]
    BY <1>0, PredictedRun
  <2>2. /\ DOMAIN ticks = 1..Len(ticks)
        /\ \A k \in 1..Len(ticks) : ticks[k].applied = Owed(study.delay, k - 1)
    BY DEF Line
  <2>3. [k \in DOMAIN ticks |-> ticks[k].applied] = [i \in 1..Len(ticks) |-> Owed(study.delay, i - 1)]
    BY <2>2
  <2> QED
    BY <1>2, <2>1, <2>3
<1> QED
  BY <1>1, <1>3, <1>5, <1>6 DEF ExportIsTheDeclaredRun

(* What an appended element adds to what a sequence has.                   *)
LEMMA OneMoreElement ==
  ASSUME NEW T, NEW s \in Seq(T), NEW e \in T
  PROVE  /\ Append(s, e) \in Seq(T)
         /\ Range(Append(s, e)) = Range(s) \cup {e}
<1>0. Append(s, e) \in Seq(T) /\ Len(s) \in Nat
  BY AppendProperties
<1>1. PICK u \in Seq(T), n \in Nat : u = Append(s, e) /\ n = Len(s)
  BY <1>0
<1>2. /\ u \in Seq(T) /\ Len(u) = n + 1 /\ DOMAIN u = 1..(n + 1) /\ DOMAIN s = 1..n
      /\ \A j \in 1..n : u[j] = s[j]
      /\ u[n + 1] = e
  BY <1>1, AppendProperties
<1>3. ASSUME NEW x \in Range(u)
      PROVE  x \in Range(s) \cup {e}
  <2>1. PICK j \in 1..(n + 1) : x = u[j]
    BY <1>2 DEF Range
  <2> QED
    BY <1>2, <2>1 DEF Range
<1>4. ASSUME NEW x \in Range(s) \cup {e}
      PROVE  x \in Range(u)
  <2>1. CASE x = e
    <3>1. n + 1 \in 1..(n + 1)
      OBVIOUS
    <3> QED
      BY <1>2, <2>1, <3>1 DEF Range
  <2>2. CASE x \in Range(s)
    <3>1. PICK j \in 1..n : x = s[j]
      BY <1>2, <2>2 DEF Range
    <3>2. j \in 1..(n + 1)
      OBVIOUS
    <3> QED
      BY <1>2, <3>1, <3>2 DEF Range
  <2> QED
    BY <2>1, <2>2
<1> QED
  BY <1>1, <1>2, <1>3, <1>4

(* The subsampling keeps the multiples of the stride and the last sample,  *)
(* each with the command in force at its step.                             *)
LEMMA Subsampling ==
  ASSUME study \in Study, study.way = "plant", NEW all, NEW N \in Nat \ {0}, Len(all) = N
  PROVE  LET result  == Subsampled(all)
             chosen  == {i \in 1..N : (i - 1) % study.stride = 0 \/ i = N}
             label(i) == [at |-> all[i].at, state |-> all[i].state,
                          command |-> InForce(study.orders, i - 1)]
         IN /\ DOMAIN result = 1..Len(result)
            /\ Range(result) = {label(i) : i \in chosen}
<1> DEFINE label(i) == [at |-> all[i].at, state |-> all[i].state,
                        command |-> InForce(study.orders, i - 1)]
           isKept(i) == (i - 1) % study.stride = 0 \/ i = N
           L == {label(i) : i \in 1..N}
           X == Seq(L)
           next == [p \in Nat \X X |->
                      IF p[1] + 1 \in 1..N /\ isKept(p[1] + 1)
                      THEN Append(p[2], label(p[1] + 1)) ELSE p[2]]
           IsKept(g) == g = [i \in 0..Len(all) |->
             IF i = 0 THEN <<>>
             ELSE IF (i - 1) % study.stride = 0 \/ i = Len(all)
             THEN Append(g[i - 1], [at |-> all[i].at, state |-> all[i].state,
                                    command |-> InForce(study.orders, i - 1)])
             ELSE g[i - 1]]
<1>1. <<>> \in X
  OBVIOUS
<1>2. next \in [Nat \X X -> X]
  <2> HIDE DEF label, isKept
  <2>1. ASSUME NEW p \in Nat \X X
        PROVE  next[p] \in X
    <3>1. p[1] \in Nat /\ p[2] \in X
      OBVIOUS
    <3>2. ASSUME p[1] + 1 \in 1..N
          PROVE  Append(p[2], label(p[1] + 1)) \in X
      <4>1. label(p[1] + 1) \in L
        BY <3>2
      <4> HIDE DEF L
      <4> QED
        BY <3>1, <4>1, AppendProperties
    <3> QED
      BY <3>1, <3>2
  <2> QED
    BY <2>1
<1>3. PICK f : Follows(X, <<>>, next, f)
  <2> HIDE DEF X, next
  <2>1. PICK Y, b, nx : Y = X /\ b = <<>> /\ nx = next
    OBVIOUS
  <2>2. b \in Y /\ nx \in [Nat \X Y -> Y]
    BY <1>1, <1>2, <2>1
  <2>3. \E f : Follows(Y, b, nx, f)
    BY <2>2, Recursion
  <2> QED
    BY <2>1, <2>3
<1>4. /\ f[0] = <<>>
      /\ \A i \in Nat : /\ f[i] \in X
                        /\ f[i + 1] = IF i + 1 \in 1..N /\ isKept(i + 1)
                                      THEN Append(f[i], label(i + 1)) ELSE f[i]
  <2> HIDE DEF label, isKept
  <2> QED
    BY <1>3 DEF Follows
<1> HIDE DEF X, next
<1>5. \E g : IsKept(g)
  <2> DEFINE g == [i \in 0..N |-> f[i]]
  <2>1. ASSUME NEW i \in 0..N
        PROVE  g[i] = IF i = 0 THEN <<>>
                      ELSE IF (i - 1) % study.stride = 0 \/ i = N
                      THEN Append(g[i - 1], [at |-> all[i].at, state |-> all[i].state,
                                             command |-> InForce(study.orders, i - 1)])
                      ELSE g[i - 1]
    <3>1. CASE i = 0
      BY <1>4, <3>1
    <3>2. CASE i # 0
      <4>1. PICK j \in Nat : j = i - 1 /\ j + 1 = i /\ i \in 1..N /\ j \in 0..N
        BY <3>2
      <4>2. f[i] = IF isKept(i) THEN Append(f[j], label(i)) ELSE f[j]
        <5> HIDE DEF isKept, label
        <5> QED
          BY <1>4, <4>1
      <4>3. g[i] = f[i] /\ g[i - 1] = f[j]
        BY <4>1
      <4> HIDE DEF g
      <4> QED
        BY <3>2, <4>2, <4>3
    <3> QED
      BY <3>1, <3>2
  <2>2. g = [i \in 0..N |-> g[i]]
    OBVIOUS
  <2> HIDE DEF g
  <2>3. IsKept(g)
    BY <2>1, <2>2, Zenon
  <2> QED
    BY <2>3
<1>6. PICK kept : kept = CHOOSE g : IsKept(g)
  OBVIOUS
<1>7. IsKept(kept)
  <2> HIDE DEF IsKept
  <2> QED
    BY <1>5, <1>6
<1>8. Subsampled(all) = kept[N]
  BY <1>6, Zenon DEF Subsampled
<1>9. kept[0] = <<>>
  BY <1>7
<1>10. ASSUME NEW k \in Nat, k + 1 <= N
       PROVE  kept[k + 1] = IF isKept(k + 1) THEN Append(kept[k], label(k + 1)) ELSE kept[k]
  <2>1. k + 1 \in 0..N /\ k + 1 # 0 /\ (k + 1) - 1 = k
    BY <1>10
  <2> QED
    BY <1>7, <2>1
<1> DEFINE chosen(k) == {label(i) : i \in {i0 \in 1..k : isKept(i0)}}
           S == {k \in Nat : k <= N => /\ kept[k] \in Seq(L)
                                      /\ Range(kept[k]) = chosen(k)}
<1> HIDE DEF IsKept, label
<1>10a. chosen(0) = {}
  OBVIOUS
<1>10b. ASSUME NEW k \in Nat
        PROVE  chosen(k + 1) = IF isKept(k + 1) THEN chosen(k) \cup {label(k + 1)} ELSE chosen(k)
  <2> HIDE DEF isKept
  <2>1. \A i : i \in 1..(k + 1) <=> i \in 1..k \/ i = k + 1
    OBVIOUS
  <2>2. {i0 \in 1..(k + 1) : isKept(i0)}
          = {i0 \in 1..k : isKept(i0)} \cup (IF isKept(k + 1) THEN {k + 1} ELSE {})
    BY <2>1
  <2> QED
    BY <2>2
<1> HIDE DEF isKept, chosen
<1>11. 0 \in S
  <2>1. <<>> \in Seq(L) /\ Range(<<>>) = {}
    BY DEF Range
  <2> QED
    BY <1>9, <1>10a, <2>1
<1>12. ASSUME NEW k \in Nat, k \in S
       PROVE  k + 1 \in S
  <2> SUFFICES ASSUME k + 1 <= N
               PROVE  /\ kept[k + 1] \in Seq(L)
                      /\ Range(kept[k + 1]) = chosen(k + 1)
    OBVIOUS
  <2>0. kept[k] \in Seq(L) /\ Range(kept[k]) = chosen(k)
    <3>1. k <= N
      OBVIOUS
    <3> QED
      BY <1>12, <3>1
  <2>1. PICK s \in Seq(L) : s = kept[k] /\ Range(s) = chosen(k)
    <3> HIDE DEF S, L
    <3> QED
      BY <2>0
  <2>2. CASE isKept(k + 1)
    <3>1. PICK e \in L : e = label(k + 1)
      <4>1. k + 1 \in 1..N
        OBVIOUS
      <4> QED
        BY <4>1
    <3>2. kept[k + 1] = Append(s, e)
      BY <1>10, <2>1, <2>2, <3>1
    <3>3. Append(s, e) \in Seq(L) /\ Range(Append(s, e)) = Range(s) \cup {e}
      BY OneMoreElement
    <3> QED
      BY <1>10b, <2>1, <2>2, <3>1, <3>2, <3>3
  <2>3. CASE ~ isKept(k + 1)
    BY <1>10, <1>10b, <2>1, <2>3
  <2> QED
    BY <2>2, <2>3
<1> HIDE DEF S
<1>13. \A k \in Nat : k \in S
  BY <1>11, <1>12, AllNaturals
<1>14. kept[N] \in Seq(L) /\ Range(kept[N]) = chosen(N)
  <2>1. N \in S
    BY <1>13
  <2> QED
    BY <2>1 DEF S
<1>15. DOMAIN kept[N] = 1..Len(kept[N])
  BY <1>14
<1>16. chosen(N) = {label(i) : i \in {i0 \in 1..N : (i0 - 1) % study.stride = 0 \/ i0 = N}}
  BY DEF chosen, isKept
<1> QED
  BY <1>8, <1>14, <1>15, <1>16 DEF label

(* sim.plant's.                                                            *)
LEMMA PlantExport ==
  ASSUME study \in Study, study.way = "plant", state = Declared[Steps], Kept(Steps),
         NEW result, result = Subsampled(Append(stored, [at |-> Steps, state |-> state]))
  PROVE  /\ \A j \in DOMAIN result : /\ result[j].command = Command(result[j].at)
                                     /\ result[j].state = Declared[result[j].at]
         /\ {result[j].at : j \in DOMAIN result} = {n \in 0..Steps : n = Steps \/ n % Stride = 0}
<1>0. Steps \in Nat \ {0}
  BY BoundsAssumption
<1>1. PICK N \in Nat \ {0} : N = Steps + 1
  BY <1>0
<1>2. PICK all : all = Append(stored, [at |-> Steps, state |-> state])
  OBVIOUS
<1>3. all = [i \in 1..N |-> [at |-> i - 1, state |-> Declared[i - 1]]]
  <2>1. PICK last : last = [at |-> Steps, state |-> Declared[Steps]]
    OBVIOUS
  <2>2. PICK s : s = [i \in 1..Steps |-> [at |-> i - 1, state |-> Declared[i - 1]]]
    OBVIOUS
  <2>3. s = stored /\ all = Append(s, last)
    BY <1>2, <2>1, <2>2 DEF Kept
  <2>4. Append(s, last) = [i \in 1..(Steps + 1) |-> IF i = Steps + 1 THEN last ELSE s[i]]
    BY <1>0, <2>2
  <2>5. \A i \in 1..(Steps + 1) : (IF i = Steps + 1 THEN last ELSE s[i])
                                    = [at |-> i - 1, state |-> Declared[i - 1]]
    BY <1>0, <2>1, <2>2
  <2> QED
    BY <1>1, <2>3, <2>4, <2>5
<1>4. Len(all) = N
  BY <1>1, <1>3
<1> DEFINE chosen == {i \in 1..N : (i - 1) % study.stride = 0 \/ i = N}
           label(i) == [at |-> i - 1, state |-> Declared[i - 1],
                        command |-> InForce(study.orders, i - 1)]
<1>5. Range(result) = {label(i) : i \in chosen}
  <2>1. Range(Subsampled(all))
          = {[at |-> all[i].at, state |-> all[i].state,
              command |-> InForce(study.orders, i - 1)] : i \in chosen}
    BY <1>4, Subsampling
  <2>2. \A i \in chosen : all[i].at = i - 1 /\ all[i].state = Declared[i - 1]
    BY <1>3
  <2>3. result = Subsampled(all)
    BY <1>2
  <2> HIDE DEF chosen
  <2> QED
    BY <2>1, <2>2, <2>3
<1>6. ASSUME NEW j \in DOMAIN result
      PROVE  \E i \in chosen : result[j] = label(i)
  <2>1. result[j] \in Range(result)
    BY DEF Range
  <2> HIDE DEF chosen, label
  <2> QED
    BY <1>5, <2>1
<1>7. ASSUME NEW i \in chosen
      PROVE  \E j \in DOMAIN result : result[j] = label(i)
  <2> HIDE DEF chosen, label
  <2>1. label(i) \in Range(result)
    BY <1>5
  <2> QED
    BY <2>1 DEF Range
<1>8. ASSUME NEW j \in DOMAIN result
      PROVE  /\ result[j].command = Command(result[j].at)
             /\ result[j].state = Declared[result[j].at]
  <2>1. PICK i \in chosen : result[j] = label(i)
    BY <1>6
  <2> QED
    BY <2>1 DEF Command
<1>9. {result[j].at : j \in DOMAIN result} = {i - 1 : i \in chosen}
  <2>0. \A i : label(i).at = i - 1
    OBVIOUS
  <2> HIDE DEF chosen, label
  <2>1. \A j \in DOMAIN result : \E i \in chosen : result[j].at = i - 1
    BY <1>6, <2>0
  <2>2. \A i \in chosen : \E j \in DOMAIN result : result[j].at = i - 1
    BY <1>7, <2>0
  <2> QED
    BY <2>1, <2>2
<1>10. {i - 1 : i \in chosen} = {n \in 0..Steps : n = Steps \/ n % Stride = 0}
  <2>1. Stride = study.stride
    BY DEF Stride
  <2>2. ASSUME NEW n \in 0..Steps, n = Steps \/ n % Stride = 0
        PROVE  n \in {i - 1 : i \in chosen}
    <3>1. n + 1 \in 1..N /\ (n + 1) - 1 = n /\ (n = Steps => n + 1 = N)
      BY <1>0, <1>1
    <3>2. n + 1 \in chosen
      BY <2>1, <2>2, <3>1
    <3> QED
      BY <3>1, <3>2
  <2>3. ASSUME NEW i \in chosen
        PROVE  i - 1 \in 0..Steps /\ (i - 1 = Steps \/ (i - 1) % Stride = 0)
    BY <1>0, <1>1, <2>1
  <2> HIDE DEF chosen
  <2> QED
    BY <2>2, <2>3
<1> QED
  BY <1>8, <1>9, <1>10

-----------------------------------------------------------------------------
(* The beginning                                                           *)

(* At the beginning nothing is flown, applied or measured, and the closed  *)
(* loop has stored its first boundary.                                     *)
LEMMA InitInvariant ==
  ASSUME Init
  PROVE  Invariant
<1>0. study \in Study /\ step = 0 /\ 0 \in 0..Steps /\ ticks = <<>> /\ Len(ticks) = 0 /\ Steps # 0
  BY BoundsAssumption DEF Init
<1>1. TypeOK
  BY <1>0, StudyShape DEF Init, TypeOK
<1>2. Clock
  <2> SUFFICES ASSUME study.way # "plant"
               PROVE  Clock
    BY DEF Clock
  <2>1. pc = "boundary" /\ state = <<>>
    BY DEF Init
  <2>2. state = Arrived(step)
    BY <1>0, <2>1 DEF Arrived
  <2>3. PICK p \in Nat \ {0} : p = study.period
    BY <1>0, StudyShape
  <2>4. 0 % p = 0 /\ Multiples(p, 0) = 0
    BY CountMultiples
  <2> QED
    BY <1>0, <2>1, <2>2, <2>3, <2>4 DEF Clock
<1>3. Line
  <2> SUFFICES ASSUME study.way # "plant"
               PROVE  Line
    BY DEF Line
  <2>1. PICK d \in Nat : d = study.delay
    BY <1>0, StudyShape
  <2>2. IsLine(queue, study.delay, 0)
    <3>1. queue = [i \in 0..d |-> None]
      BY <2>1 DEF Init
    <3>2. IsLine([i \in 0..d |-> None], d, 0)
      BY FirstLine
    <3> QED
      BY <2>1, <3>1, <3>2
  <2>3. head = Slot(study.delay, 0)
    <3>1. Slot(d, 0) = 0
      BY Slots
    <3> QED
      BY <2>1, <3>1 DEF Init
  <2> QED
    BY <1>0, <2>2, <2>3 DEF Line, Init
<1>4. Held
  BY <1>0 DEF Held, Init
<1>5. LoopStored
  <2> SUFFICES ASSUME study.way = "loop"
               PROVE  LoopStored
    BY DEF LoopStored
  <2>1. PICK r : r = [at |-> 0, state |-> <<>>, command |-> None]
    OBVIOUS
  <2>2. r \in SampleRecord
    <3>1. <<>> \in Seq(Deed)
      OBVIOUS
    <3> QED
      BY <1>0, <2>1, <3>1 DEF SampleRecord
  <2>3. stored = <<r>> /\ pc = "boundary" /\ applied = None
    BY <2>1 DEF Init
  <2>4. stored \in Seq(SampleRecord) /\ Len(stored) = 1 /\ stored[1] = r
    BY <2>2, <2>3
  <2>5. LoopSample(r) /\ r.at <= step
    BY <1>0, <2>1, <2>3 DEF LoopSample, Unlabelled
  <2>6. {stored[i].at : i \in 1..Len(stored)} = {n \in 0..step : n = Steps \/ n % study.stride = 0}
    <3>1. {stored[i].at : i \in 1..Len(stored)} = {0}
      <4>1. 1..Len(stored) = {1}
        BY <2>4
      <4> QED
        BY <2>1, <2>4, <4>1
    <3>2. PICK s \in Nat \ {0} : s = study.stride
      BY <1>0, StudyShape
    <3>3. 0 % s = 0 /\ 0..step = {0}
      BY <1>0
    <3> QED
      BY <3>1, <3>2, <3>3
  <2> QED
    BY <2>4, <2>5, <2>6 DEF LoopStored
<1>6. SampledStored
  <2> SUFFICES ASSUME study.way = "sampled"
               PROVE  SampledStored
    BY DEF SampledStored
  <2>1. stored = <<>> /\ pc = "boundary"
    BY DEF Init
  <2>2. stored \in Seq(SampleRecord) /\ 1..Len(stored) = {}
    BY <2>1
  <2>3. {n \in 0..step : n % study.period = 0 /\ (n = step => pc # "boundary")} = {}
    BY <1>0, <2>1
  <2> QED
    BY <2>2, <2>3 DEF SampledStored
<1>7. Plant
  <2> SUFFICES ASSUME study.way = "plant"
               PROVE  Plant
    BY DEF Plant
  <2>1. pc = "segment" /\ boundaries = Changes /\ state = <<>> /\ stored = <<>>
    BY DEF Init, Changes
  <2>2. Kept(0)
    BY <2>1 DEF Kept
  <2>3. ASSUME 0 \notin Changes
        PROVE  boundaries = {c \in Changes : step < c} /\ state = Declared[step]
    <3>1. Changes \subseteq Nat
      BY <1>0, StudyShape DEF Changes
    <3>2. Declared[0] = Rebased(Arrived(0), 0)
      BY <1>0, DeclaredRun
    <3>3. Declared[0] = <<>>
      BY <2>3, <3>2 DEF Rebased, Arrived, Changes
    <3> QED
      BY <1>0, <2>1, <2>3, <3>1, <3>3
  <2> QED
    BY <1>0, <2>1, <2>2, <2>3 DEF Plant
<1>8. SensorLine
  <2> SUFFICES ASSUME study.way = "loop"
               PROVE  SensorLine
    BY DEF SensorLine
  <2>1. pc = "boundary" /\ pending = <<>> /\ latest = NoReading
    BY DEF Init
  <2>2. latest \in ReadingRecord
    <3>1. <<>> \in Seq(Deed)
      OBVIOUS
    <3> QED
      BY <2>1, <3>1 DEF NoReading, ReadingRecord
  <2>3. ASSUME study.sensor # None
        PROVE  Measured(latest, pending, Taken)
    <3>1. PICK every \in Nat \ {0}, latency \in Nat :
            every = study.sensor.every /\ latency = study.sensor.latency
      <4>1. study.sensor \in Sensor
        BY <1>0, <2>3, StudyShape
      <4> QED
        BY <4>1, SensorShape
    <3>2. Taken = 0
      BY <1>0, <2>1, <3>1, CountMultiples DEF Taken
    <3>3. Waiting(0) = 0
      BY <3>1 DEF Waiting
    <3>4. Delivered(0) = {} /\ ~ (0 - 1 - latency >= 0)
      BY <3>1 DEF Delivered
    <3>5. IsLatest(latest, 0)
      BY <2>1, <3>1, <3>4 DEF IsLatest, NoReading
    <3>6. pending \in Seq(Waiter) /\ IsPending(pending, 0)
      BY <2>1, <3>3 DEF IsPending
    <3> QED
      BY <2>2, <3>2, <3>5, <3>6 DEF Measured
  <2> QED
    BY <2>1, <2>2, <2>3 DEF SensorLine
<1>9. ControllerSeesItsReading
  BY <1>0 DEF ControllerSeesItsReading
<1> QED
  BY <1>1, <1>2, <1>3, <1>4, <1>5, <1>6, <1>7, <1>8, <1>9 DEF Invariant

-----------------------------------------------------------------------------
(* Steps of the sensor                                                     *)

(* What a sample more adds to those that can have been delivered.          *)
LEMMA NextDelivered ==
  ASSUME study.sensor \in Sensor, NEW m \in Nat, NEW l \in Nat, l = study.sensor.latency
  PROVE  /\ m < l => Delivered(m + 1) = {}
         /\ l <= m /\ m - l \in study.sensor.dropped => Delivered(m + 1) = Delivered(m)
         /\ l <= m /\ m - l \notin study.sensor.dropped =>
              /\ m - l \in Delivered(m + 1)
              /\ Max(Delivered(m + 1)) = m - l
         /\ Delivered(m) # {} => m - 1 - l >= 0
<1>1. \A k \in Nat : \A j : j \in Delivered(k) <=> j \in 0..(k - 1 - l) /\ j \notin study.sensor.dropped
  BY DEF Delivered
<1>2. (m + 1) - 1 - l = m - l /\ m + 1 \in Nat
  OBVIOUS
<1>3. \A j : j \in Delivered(m + 1) <=> j \in 0..(m - l) /\ j \notin study.sensor.dropped
  BY <1>1, <1>2
<1>4. ASSUME m < l
      PROVE  Delivered(m + 1) = {}
  <2>1. 0..(m - l) = {}
    BY <1>4
  <2> QED
    BY <1>3, <2>1
<1>5. ASSUME l <= m, m - l \in study.sensor.dropped
      PROVE  Delivered(m + 1) = Delivered(m)
  <2>1. \A j : j \in 0..(m - l) <=> j \in 0..(m - 1 - l) \/ j = m - l
    BY <1>5
  <2>2. \A j : j \in Delivered(m + 1) <=> j \in Delivered(m)
    BY <1>1, <1>3, <1>5, <2>1
  <2> QED
    BY <2>2 DEF Delivered
<1>6. ASSUME l <= m, m - l \notin study.sensor.dropped
      PROVE  m - l \in Delivered(m + 1) /\ Max(Delivered(m + 1)) = m - l
  <2>1. m - l \in 0..(m - l) /\ m - l \in Int
    BY <1>6
  <2>2. m - l \in Delivered(m + 1)
    BY <1>3, <1>6, <2>1
  <2>3. PICK S : S = Delivered(m + 1)
    OBVIOUS
  <2>4. S \subseteq 0..(m - l) /\ S # {} /\ m - l \in S
    BY <1>3, <2>2, <2>3
  <2>5. Max(S) \in S /\ \A j \in S : j <= Max(S)
    BY <2>1, <2>4, Greatest
  <2>6. Max(S) = m - l
    <3>1. Max(S) \in 0..(m - l) /\ m - l <= Max(S)
      BY <2>4, <2>5
    <3> QED
      BY <2>1, <3>1
  <2> QED
    BY <2>2, <2>3, <2>6
<1>7. ASSUME Delivered(m) # {}
      PROVE  m - 1 - l >= 0
  <2>1. PICK j : j \in 0..(m - 1 - l)
    BY <1>1, <1>7
  <2> QED
    BY <2>1
<1> QED
  BY <1>4, <1>5, <1>6, <1>7

(* A boundary that is due holds the sample of its number.                  *)
LEMMA DueSample ==
  ASSUME study.sensor \in Sensor, NEW n \in Nat, n % study.sensor.every = 0
  PROVE  /\ Sample(n \div study.sensor.every)
              = [index |-> n \div study.sensor.every, value |-> Declared[n]]
         /\ n \div study.sensor.every \in Nat
<1>1. PICK p \in Nat \ {0} : p = study.sensor.every
  BY SensorShape
<1>2. PICK m \in Nat, q \in Nat, r \in 0..(p - 1) :
        m = p * q /\ n = m + r /\ n \div p = q /\ n % p = r
  BY Divided
<1>3. q * p = p * q
  OBVIOUS
<1>4. n = q * p
  BY <1>1, <1>2, <1>3
<1> QED
  BY <1>1, <1>2, <1>4 DEF Sample

(* The place of a sample in the line moves by one when the line does.      *)
LEMMA Reindexed ==
  ASSUME NEW m \in Nat, NEW l \in Nat, NEW i \in Nat
  PROVE  m - l + (i + 1) - 1 = (m + 1) - l + i - 1
OBVIOUS

(* The last place of the line is that of the newest sample.                *)
LEMMA Reached ==
  ASSUME NEW m \in Nat, NEW w \in Nat
  PROVE  m - w + (w + 1) - 1 = m
OBVIOUS

(* The samples waiting after one more has been taken, before any is        *)
(* delivered, and after the oldest one is.                                 *)
LEMMA NextPending ==
  ASSUME study.sensor \in Sensor, NEW m \in Nat, NEW l \in Nat, l = study.sensor.latency,
         NEW samples \in Seq(Waiter), IsPending(samples, m), Sample(m) \in Waiter,
         NEW more, more = Append(samples, Sample(m))
  PROVE  /\ more \in Seq(Waiter)
         /\ Len(more) <= l => m < l /\ IsPending(more, m + 1)
         /\ ~ (Len(more) <= l) => /\ l <= m /\ Head(more) = Sample(m - l)
                                  /\ Tail(more) \in Seq(Waiter)
                                  /\ IsPending(Tail(more), m + 1)
<1> DEFINE W == Waiting(m)
<1>1. W \in Nat /\ W = (IF m < l THEN m ELSE l) /\ Len(samples) = W /\ m - W \in Nat
  BY DEF Waiting, IsPending
<1>a. W \in Nat
  BY <1>1
<1>2. /\ more \in Seq(Waiter) /\ Len(more) = W + 1
      /\ \A i \in 1..W : more[i] = samples[i]
      /\ more[W + 1] = Sample(m)
  BY <1>1, AppendProperties
<1>3. \A i \in 1..W : samples[i] = Sample(m - W + i - 1)
  BY DEF IsPending
<1> HIDE DEF W
<1>4. ASSUME NEW i \in 1..(W + 1)
      PROVE  more[i] = Sample(m - W + i - 1)
  <2>1. CASE i \in 1..W
    BY <1>2, <1>3, <2>1
  <2>2. CASE i = W + 1
    <3>1. m - W + (W + 1) - 1 = m
      BY <1>1, Reached
    <3> QED
      BY <1>2, <2>2, <3>1
  <2>3. i \in 1..W \/ i = W + 1
    BY <1>a
  <2> QED
    BY <2>1, <2>2, <2>3
<1>5. Waiting(m + 1) = IF m + 1 < l THEN m + 1 ELSE l
  BY DEF Waiting
<1>6. ASSUME Len(more) <= l
      PROVE  m < l /\ IsPending(more, m + 1)
  <2>1. m < l /\ W = m /\ Waiting(m + 1) = m + 1
    BY <1>1, <1>2, <1>5, <1>6
  <2>2. \A i \in 1..(m + 1) : m - W + i - 1 = (m + 1) - (m + 1) + i - 1
    BY <2>1
  <2> QED
    BY <1>2, <1>4, <2>1, <2>2 DEF IsPending
<1>7. ASSUME ~ (Len(more) <= l)
      PROVE  /\ l <= m /\ Head(more) = Sample(m - l)
             /\ Tail(more) \in Seq(Waiter)
             /\ IsPending(Tail(more), m + 1)
  <2>1. l <= m /\ W = l /\ Waiting(m + 1) = l
    BY <1>1, <1>2, <1>5, <1>7
  <2>2. more # <<>>
    BY <1>1, <1>2
  <2>3. /\ Tail(more) \in Seq(Waiter) /\ Len(Tail(more)) = l
        /\ \A i \in 1..l : Tail(more)[i] = more[i + 1]
    <3>1. PICK u \in Seq(Waiter) : u = more /\ u # <<>> /\ Len(u) = l + 1
      BY <1>2, <2>1, <2>2
    <3>2. Tail(u) \in Seq(Waiter) /\ Len(Tail(u)) = Len(u) - 1
      BY <3>1, HeadTailProperties
    <3>3. \A i \in 1..Len(Tail(u)) : Tail(u)[i] = u[i + 1]
      BY <3>1, HeadTailProperties
    <3>4. Len(u) - 1 = l
      BY <3>1
    <3> QED
      BY <3>1, <3>2, <3>3, <3>4
  <2>4. Head(more) = Sample(m - l)
    <3>1. Head(more) = more[1] /\ 1 \in 1..(W + 1) /\ m - W + 1 - 1 = m - l
      BY <1>1, <1>2, <2>1, <2>2
    <3>2. more[1] = Sample(m - W + 1 - 1)
      BY <1>4, <3>1
    <3> QED
      BY <3>1, <3>2
  <2>5. ASSUME NEW i \in 1..l
        PROVE  Tail(more)[i] = Sample((m + 1) - l + i - 1)
    <3>1. PICK j \in 1..(W + 1) : j = i + 1
      BY <2>1
    <3>2. m - W + j - 1 = (m + 1) - l + i - 1
      <4>1. W = l /\ j = i + 1
        BY <2>1, <3>1
      <4>2. i \in Nat
        BY <2>1
      <4>3. m - l + (i + 1) - 1 = (m + 1) - l + i - 1
        BY <4>2, Reindexed
      <4> QED
        BY <4>1, <4>3, Zenon
    <3>3. more[j] = Sample(m - W + j - 1)
      BY <1>4
    <3> QED
      BY <2>3, <3>1, <3>2, <3>3
  <2> QED
    BY <2>1, <2>3, <2>4, <2>5 DEF IsPending
<1> QED
  BY <1>2, <1>6, <1>7

(* What is due stays when the study does.                                  *)
LEMMA SensorFixed ==
  ASSUME study' = study, NEW taken
  PROVE  /\ Waiting(taken)' = Waiting(taken) /\ Delivered(taken)' = Delivered(taken)
         /\ \A i : Sample(i)' = Sample(i)
BY StudyFixed DEF Waiting, Delivered, Sample

(* A sample due is taken, and the oldest one delivered or dropped.         *)
LEMMA SampleTaken ==
  ASSUME study.sensor \in Sensor, NEW m \in Nat, NEW l \in Nat, l = study.sensor.latency,
         NEW r, NEW samples, Measured(r, samples, m), Sample(m) \in Waiter,
         NEW more, more = Append(samples, Sample(m)),
         NEW r1, NEW samples1,
         Len(more) <= l =>
           samples1 = more /\ r1 = [r EXCEPT !.available = FALSE, !.stale = FALSE],
         ~ (Len(more) <= l) =>
           /\ samples1 = Tail(more)
           /\ r1 = IF Head(more).index \in study.sensor.dropped
                   THEN [r EXCEPT !.stale = TRUE,
                                  !.available = @ /\ study.sensor.policy = "hold_last"]
                   ELSE [available |-> TRUE, stale |-> FALSE, value |-> Head(more).value]
  PROVE  Measured(r1, samples1, m + 1)
<1>0. samples \in Seq(Waiter) /\ IsPending(samples, m) /\ r \in ReadingRecord
  BY DEF Measured
<1>1. /\ more \in Seq(Waiter)
      /\ Len(more) <= l => m < l /\ IsPending(more, m + 1)
      /\ ~ (Len(more) <= l) => /\ l <= m /\ Head(more) = Sample(m - l)
                               /\ Tail(more) \in Seq(Waiter)
                               /\ IsPending(Tail(more), m + 1)
  <2>1. more \in Seq(Waiter)
    BY <1>0, NextPending
  <2>2. Len(more) <= l => m < l /\ IsPending(more, m + 1)
    BY <1>0, NextPending
  <2>3. ~ (Len(more) <= l) => l <= m
    BY <1>0, NextPending
  <2>4. ~ (Len(more) <= l) => Head(more) = Sample(m - l)
    BY <1>0, NextPending
  <2>5. ~ (Len(more) <= l) => Tail(more) \in Seq(Waiter) /\ IsPending(Tail(more), m + 1)
    BY <1>0, NextPending
  <2> QED
    BY <2>1, <2>2, <2>3, <2>4, <2>5
<1>2. PICK dropped, policy : dropped = study.sensor.dropped /\ policy = study.sensor.policy
  OBVIOUS
<1>3. (m + 1) - 1 - l = m - l /\ (m - l >= 0 <=> l <= m)
  OBVIOUS
<1>4. CASE Len(more) <= l
  <2>1. r1 \in ReadingRecord /\ ~ r1.available /\ ~ r1.stale
    BY <1>0, <1>4 DEF ReadingRecord
  <2>2. Delivered(m + 1) = {}
    BY <1>1, <1>4, NextDelivered
  <2>3. IsLatest(r1, m + 1)
    BY <1>1, <1>3, <1>4, <2>1, <2>2 DEF IsLatest
  <2> QED
    BY <1>1, <1>4, <2>1, <2>3 DEF Measured
<1>5. CASE ~ (Len(more) <= l)
  <2>1. l <= m /\ Head(more) = Sample(m - l)
    BY <1>1, <1>5
  <2>2. Head(more) \in Waiter
    <3>1. more # <<>>
      BY <1>5
    <3> QED
      BY <1>1, <3>1, HeadTailProperties
  <2>3. Head(more).index = m - l /\ Head(more).value = Declared[(m - l) * study.sensor.every]
    BY <2>1 DEF Sample
  <2>4. CASE m - l \in dropped
    <3>1. r1 = [r EXCEPT !.stale = TRUE, !.available = @ /\ policy = "hold_last"]
      BY <1>2, <1>5, <2>3, <2>4
    <3>2. /\ r1 \in ReadingRecord /\ r1.stale /\ r1.value = r.value
          /\ r1.available <=> r.available /\ policy = "hold_last"
      BY <1>0, <3>1 DEF ReadingRecord
    <3>3. Delivered(m + 1) = Delivered(m) /\ (Delivered(m) # {} => m - 1 - l >= 0)
      BY <1>2, <2>1, <2>4, NextDelivered
    <3>4. m - l \notin Delivered(m + 1)
      BY <1>2, <2>4 DEF Delivered
    <3>5. /\ r.available <=> /\ m - 1 - l >= 0
                             /\ \/ m - 1 - l \in Delivered(m)
                                \/ policy = "hold_last" /\ Delivered(m) # {}
          /\ Delivered(m) # {} =>
               r.value = Declared[Max(Delivered(m)) * study.sensor.every]
      BY <1>2 DEF IsLatest, Measured
    <3>6. r1.available <=> policy = "hold_last" /\ Delivered(m) # {}
      BY <3>2, <3>3, <3>5
    <3>7. IsLatest(r1, m + 1)
      BY <1>2, <1>3, <2>1, <3>2, <3>3, <3>4, <3>5, <3>6 DEF IsLatest
    <3> QED
      BY <1>1, <1>5, <3>2, <3>7 DEF Measured
  <2>5. CASE m - l \notin dropped
    <3>1. r1 = [available |-> TRUE, stale |-> FALSE, value |-> Head(more).value]
      BY <1>2, <1>5, <2>3, <2>5
    <3>2. r1 \in ReadingRecord
      BY <2>2, <3>1 DEF Waiter, ReadingRecord
    <3>3. m - l \in Delivered(m + 1) /\ Max(Delivered(m + 1)) = m - l
      BY <1>2, <2>1, <2>5, NextDelivered
    <3>4. IsLatest(r1, m + 1)
      BY <1>3, <2>1, <2>3, <3>1, <3>3 DEF IsLatest
    <3> QED
      BY <1>1, <1>5, <3>2, <3>4 DEF Measured
  <2> QED
    BY <2>4, <2>5
<1> QED
  BY <1>4, <1>5

(* Nothing that is due changes while the study does not.                   *)
LEMMA DueFixed ==
  ASSUME study' = study, NEW s, NEW r, NEW taken,
         pending' = s, latest' = r, Taken' = taken
  PROVE  Measured(latest, pending, Taken)' <=> Measured(r, s, taken)
<1>1. Declared' = Declared
  BY StudyFixed
<1>2. IsPending(pending, Taken)' <=> IsPending(s, taken)
  BY <1>1 DEF IsPending, Waiting, Sample
<1>3. IsLatest(latest, Taken)' <=> IsLatest(r, taken)
  BY <1>1 DEF IsLatest, Delivered
<1> QED
  BY <1>2, <1>3 DEF Measured, ReadingRecord, Waiter

(* A boundary takes the sample that is due, and then what the controller   *)
(* can read is what its sensor owes it.                                    *)
LEMMA BoundarySensor ==
  ASSUME study \in Study, study.way = "loop", step \in 0..Steps, pc = "boundary", SensorLine,
         study' = study, step' = step, pc' # "boundary", Measure(Declared[step])
  PROVE  SensorLine'
<1>1. Declared[step] \in Seq(Deed) /\ Declared' = Declared /\ step \in Nat
  BY DeclaredRun, StudyFixed, BoundsAssumption
<1>2. latest \in ReadingRecord
  BY DEF SensorLine, Running
<1>3. CASE study.sensor = None
  <2>1. latest' = [available |-> TRUE, stale |-> FALSE, value |-> Declared[step]]
    BY <1>3 DEF Measure
  <2>2. latest' \in ReadingRecord
    BY <1>1, <2>1 DEF ReadingRecord
  <2> QED
    BY <1>1, <1>3, <2>1, <2>2 DEF SensorLine, ReadingRecord
<1>4. CASE study.sensor # None
  <2>1. study.sensor \in Sensor
    BY <1>4, StudyShape
  <2>2. PICK every \in Nat \ {0}, l \in Nat : every = study.sensor.every /\ l = study.sensor.latency
    BY <2>1, SensorShape
  <2>3. /\ Measured(latest, pending, Taken)
        /\ Taken = Multiples(every, step) /\ Taken' = Multiples(every, step + 1)
    BY <1>4, <2>2 DEF SensorLine, Taken, Running, Multiples
  <2>4. PICK s, r, t : s = pending' /\ r = latest' /\ t = Taken'
    OBVIOUS
  <2>5. SampleIfDue(Declared[step])
    BY <1>4 DEF Measure
  <2>6. Measured(r, s, t)
    <3>1. CASE step % every # 0
      <4>1. pending' = pending /\ latest' = latest
        BY <2>2, <2>5, <3>1 DEF SampleIfDue, sensorVars
      <4>2. Taken' = Taken
        BY <1>1, <2>3, <3>1, CountMultiples
      <4> QED
        BY <2>3, <2>4, <4>1, <4>2
    <3>2. CASE step % every = 0
      <4>1. PICK m \in Nat : m = step \div every
        BY <1>1, QuotientType
      <4>2. Taken = m /\ t = m + 1
        BY <1>1, <2>3, <2>4, <3>2, <4>1, CountMultiples
      <4>3. Sample(m) = [index |-> m, value |-> Declared[step]]
        BY <1>1, <2>1, <2>2, <3>2, <4>1, DueSample
      <4>4. Sample(m) \in Waiter
        BY <1>1, <4>3 DEF Waiter
      <4>5. PICK r0, samples : r0 = latest /\ samples = pending
        OBVIOUS
      <4>6. PICK more : more = Append(samples, Sample(m))
        OBVIOUS
      <4>7. /\ Len(more) <= l =>
                 s = more /\ r = [r0 EXCEPT !.available = FALSE, !.stale = FALSE]
            /\ ~ (Len(more) <= l) =>
                 /\ s = Tail(more)
                 /\ r = IF Head(more).index \in study.sensor.dropped
                        THEN [r0 EXCEPT !.stale = TRUE,
                                        !.available = @ /\ study.sensor.policy = "hold_last"]
                        ELSE [available |-> TRUE, stale |-> FALSE, value |-> Head(more).value]
        <5>1. more = Append(pending, [index |-> step \div study.sensor.every, value |-> Declared[step]])
          BY <2>2, <4>1, <4>3, <4>5, <4>6
        <5>2. step % study.sensor.every = 0 /\ study.sensor.latency = l
          BY <2>2, <3>2
        <5> QED
          BY <2>4, <2>5, <4>5, <5>1, <5>2 DEF SampleIfDue, Deliver
      <4>8. Measured(r0, samples, m)
        BY <2>3, <4>2, <4>5
      <4>9. Measured(r, s, m + 1)
        <5>1. l = study.sensor.latency
          BY <2>2
        <5> QED
          BY <2>1, <5>1, <4>4, <4>6, <4>7, <4>8, SampleTaken
      <4> QED
        BY <4>2, <4>9
    <3> QED
      BY <3>1, <3>2
  <2>7. Measured(latest, pending, Taken)'
    BY <2>4, <2>6, DueFixed
  <2> QED
    BY <1>4, <2>4, <2>6, <2>7 DEF SensorLine, ReadingRecord, Measured
<1> QED
  BY <1>3, <1>4

-----------------------------------------------------------------------------
(* Steps                                                                   *)

(* What the sensor owes tick k, the ticks before it that had a reading,    *)
(* and what tick k then has.                                               *)
Owing(k) == Reading((k - 1) * study.period)

Had(k) == {j \in 1..(k - 1) : Owing(j).available}

Sees(r, k) ==
  /\ r.available = Owing(k).available
  /\ r.stale = Owing(k).stale
  /\ r.measurement =
       IF Owing(k).available THEN Owing(k).value
       ELSE IF study.missing = "trim_fallback" THEN [reference |-> (k - 1) * study.period]
       ELSE IF Had(k) = {} THEN [reference |-> 0]
       ELSE Owing(Max(Had(k))).value

(* What every tick has, in these terms.                                    *)
LEMMA AllSee ==
  ControllerSeesItsReading <=> \A k \in DOMAIN ticks : Sees(ticks[k], k)
BY DEF ControllerSeesItsReading, Sees, Had, Owing

(* It depends on the study alone.                                          *)
LEMMA SeesFixed ==
  ASSUME study' = study, NEW r, NEW k
  PROVE  Sees(r, k)' <=> Sees(r, k)
<1>1. \A n : Reading(n)' = Reading(n)
  BY StudyFixed
<1>2. \A j : Owing(j)' = Owing(j)
  BY <1>1 DEF Owing
<1>3. Had(k)' = Had(k)
  BY <1>2 DEF Had
<1> QED
  BY <1>2, <1>3 DEF Sees

(* What a tick was given stays given.                                      *)
LEMMA SeesKept ==
  ASSUME ControllerSeesItsReading, study' = study, ticks' = ticks
  PROVE  ControllerSeesItsReading'
<1>1. PICK t : t = ticks /\ t = ticks'
  OBVIOUS
<1>2. \A k \in DOMAIN t : Sees(t[k], k)
  BY <1>1, AllSee
<1>3. \A k \in DOMAIN t : Sees(t[k], k)'
  BY <1>2, SeesFixed
<1>4. (\A k \in DOMAIN ticks : Sees(ticks[k], k))'
  BY <1>1, <1>3
<1> QED
  BY <1>4, AllSee, PTL

(* The sensor waits between one boundary and the next.                     *)
LEMMA SensorKept ==
  ASSUME SensorLine, study' = study, pending' = pending, latest' = latest,
         \/ pc' \in {"done", "refused"}
         \/ pc = "tick" /\ pc' = "step" /\ step' = step
         \/ pc = "step" /\ pc' = "boundary" /\ step' = step + 1 /\ step \in Nat
  PROVE  SensorLine'
<1>1. CASE pc' \in {"done", "refused"}
  BY <1>1 DEF SensorLine, Running
<1>2. CASE pc = "tick" /\ pc' = "step" /\ step' = step
  <2>1. Taken' = Taken
    BY <1>2 DEF Taken, Multiples
  <2>2. PICK s, r, t : s = pending /\ r = latest /\ t = Taken
    OBVIOUS
  <2>3. Measured(latest, pending, Taken)' <=> Measured(latest, pending, Taken)
    BY <2>1, <2>2, DueFixed
  <2>4. Declared' = Declared
    BY StudyFixed
  <2> QED
    BY <1>2, <2>3, <2>4 DEF SensorLine, Running, ReadingRecord
<1>3. CASE pc = "step" /\ pc' = "boundary" /\ step' = step + 1 /\ step \in Nat
  <2>1. Taken' = Taken
    BY <1>3 DEF Taken, Multiples
  <2>2. PICK s, r, t : s = pending /\ r = latest /\ t = Taken
    OBVIOUS
  <2>3. Measured(latest, pending, Taken)' <=> Measured(latest, pending, Taken)
    BY <2>1, <2>2, DueFixed
  <2> QED
    BY <1>3, <2>3 DEF SensorLine, Running, ReadingRecord
<1> QED
  BY <1>1, <1>2, <1>3

(* The samples of a closed loop, where a step leaves them as they are.     *)
LEMMA LoopSampleKept ==
  ASSUME study' = study, step' = step, applied' = applied, NEW r, LoopSample(r),
         step = 0 => r.at # 0 \/ (pc # "boundary" /\ pc' # "boundary"),
         r.at = step => Unlabelled' = Unlabelled \/ applied = Command(step)
  PROVE  LoopSample(r)'
<1>1. /\ Declared' = Declared /\ Arrived(r.at)' = Arrived(r.at)
      /\ Command(r.at)' = Command(r.at)
  BY StudyFixed
<1> QED
  BY <1>1 DEF LoopSample

(* A boundary of the closed loop: its change of wind makes the plant the   *)
(* declared one.                                                           *)
LEMMA BoundaryStep ==
  ASSUME Invariant, Boundary
  PROVE  Invariant'
<1>0. /\ study \in Study /\ step \in 0..Steps /\ Steps \in Nat \ {0} /\ step \in Nat
      /\ study.way = "loop" /\ pc = "boundary" /\ state = Arrived(step)
      /\ Len(ticks) = Multiples(study.period, step)
  BY BoundsAssumption DEF Invariant, TypeOK, Clock, Boundary
<1>1. /\ study' = study /\ step' = step /\ applied' = applied /\ queue' = queue /\ head' = head
      /\ held' = held /\ ticks' = ticks
  BY DEF Boundary, loopVars
<1>2. /\ pc' \in {"tick", "done", "step"}
      /\ pc' = "tick" => IsTick
      /\ pc' = "done" => step = Steps
      /\ pc' = "step" => ~ IsTick /\ step # Steps
  BY DEF Boundary, Goto
<1>3. state' = Declared[step]
  BY <1>0, DeclaredRun DEF Boundary
<1>4. TypeOK'
  BY <1>0, <1>1, <1>2 DEF TypeOK
<1>5. PICK p \in Nat \ {0} : p = study.period
  BY <1>0, StudyShape
<1>6. pc' = "step" => Len(ticks) = Multiples(p, step + 1)
  <2>1. pc' = "step" => step % p # 0
    BY <1>0, <1>2, <1>5 DEF IsTick
  <2>2. step % p # 0 => Multiples(p, step) = Multiples(p, step + 1)
    BY <1>0, CountMultiples
  <2> QED
    BY <1>0, <1>5, <2>1, <2>2
<1>7. Clock'
  <2>1. Declared' = Declared
    BY <1>1, StudyFixed
  <2>2. pc' = "tick" => step < Steps /\ step % study.period = 0
    BY <1>2 DEF IsTick
  <2> QED
    BY <1>0, <1>1, <1>2, <1>3, <1>5, <1>6, <2>1, <2>2 DEF Clock, Multiples
<1>8. Line'
  BY <1>1, LineKept DEF Invariant
<1>9. Held'
  BY <1>1 DEF Held, Invariant
<1>10. pc' = "step" => applied = Command(step)
  BY <1>0, <1>5, <1>6, AppliedCommand DEF Invariant
<1>11. LoopStored'
  <2>1. /\ stored \in Seq(SampleRecord) /\ Len(stored) > 0
        /\ \A i \in 1..Len(stored) : LoopSample(stored[i]) /\ stored[i].at <= step
        /\ \A i \in 1..(Len(stored) - 1) : stored[i].at < step
        /\ {stored[i].at : i \in 1..Len(stored)} = {n \in 0..step : n = Steps \/ n % study.stride = 0}
    BY <1>0 DEF LoopStored, Invariant
  <2>2. PICK st, st1 : st = stored /\ st1 = stored'
    OBVIOUS
  <2>3. ASSUME step # 0
        PROVE  st1 = st /\ \A i \in 1..Len(st) : LoopSample(st[i])'
    <3>1. st1 = st
      BY <2>2, <2>3 DEF Boundary
    <3>2. ASSUME NEW i \in 1..Len(st)
          PROVE  LoopSample(st[i])'
      <4>1. LoopSample(st[i])
        BY <2>1, <2>2
      <4>2. Unlabelled' = Unlabelled \/ applied = Command(step)
        BY <1>0, <1>1, <1>2, <1>10 DEF Unlabelled
      <4> QED
        BY <1>1, <2>3, <4>1, <4>2, LoopSampleKept
    <3> QED
      BY <3>1, <3>2
  <2>4. ASSUME step = 0
        PROVE  /\ st1 \in Seq(SampleRecord) /\ Len(st1) = 1 /\ Len(st) = 1 /\ st1[1].at = st[1].at
               /\ LoopSample(st1[1])'
    <3>1. Len(st) = 1 /\ st[1] \in SampleRecord /\ LoopSample(st[1]) /\ st[1].at <= 0
      <4>1. st[1] \in SampleRecord /\ LoopSample(st[1]) /\ st[1].at <= 0
        BY <2>1, <2>2, <2>4
      <4>2. PICK n \in Nat : n = Len(st) /\ n > 0
        BY <2>1, <2>2
      <4>3. CASE n > 1
        <5>1. 1 \in 1..(Len(st) - 1) /\ st[1].at \in 0..Steps
          BY <4>1, <4>2, <4>3 DEF SampleRecord
        <5>2. st[1].at < 0
          BY <2>1, <2>2, <2>4, <5>1
        <5> QED
          BY <5>1, <5>2
      <4>4. Len(st) = 1
        BY <4>2, <4>3
      <4> QED
        BY <4>1, <4>4
    <3>2. st1 = [st EXCEPT ![1].state = Declared[0]]
      BY <1>3, <2>2, <2>4 DEF Boundary
    <3>3. PICK r, s : r = st[1] /\ s = [r EXCEPT !.state = Declared[0]]
      OBVIOUS
    <3>4. s \in SampleRecord /\ s.at = r.at /\ s.state = Declared[0] /\ s.command = r.command
      <4>1. Declared[0] \in Seq(Deed)
        BY <1>0, DeclaredRun
      <4> QED
        BY <3>1, <3>3, <4>1 DEF SampleRecord
    <3>5. st1 = <<s>>
      BY <2>1, <2>2, <3>1, <3>2, <3>3
    <3>6. r.at = 0
      BY <3>1, <3>3 DEF SampleRecord
    <3>7. r.command = applied
      BY <1>0, <2>4, <3>1, <3>3, <3>6 DEF LoopSample, Unlabelled
    <3>8. LoopSample(s)'
      <4>1. Declared' = Declared /\ Command(0)' = Command(0)
        BY <1>1, StudyFixed
      <4>2. Unlabelled' \/ applied = Command(0)
        BY <1>1, <1>2, <1>10, <2>4 DEF Unlabelled
      <4> QED
        BY <1>1, <1>2, <2>4, <3>4, <3>6, <3>7, <4>1, <4>2 DEF LoopSample
    <3>9. st1 \in Seq(SampleRecord) /\ Len(st1) = 1 /\ st1[1] = s
      BY <3>4, <3>5
    <3> QED
      BY <3>1, <3>3, <3>4, <3>8, <3>9
  <2>5. st1 \in Seq(SampleRecord) /\ Len(st1) > 0 /\ Len(st1) = Len(st)
    BY <2>1, <2>2, <2>3, <2>4
  <2>6. \A i \in 1..Len(st) : LoopSample(st1[i])' /\ st1[i].at = st[i].at
    BY <2>3, <2>4
  <2>7. {st1[i].at : i \in 1..Len(st1)} = {st[i].at : i \in 1..Len(st)}
    BY <2>5, <2>6
  <2>8. \A i \in 1..Len(st1) : LoopSample(st1[i])' /\ st1[i].at <= step
    BY <2>1, <2>2, <2>5, <2>6
  <2>9. \A i \in 1..(Len(st1) - 1) : st1[i].at < step
    <3>1. \A i \in 1..(Len(st1) - 1) : i \in 1..Len(st) /\ i \in 1..(Len(st) - 1)
      BY <2>5
    <3> QED
      BY <2>1, <2>2, <2>6, <3>1
  <2>10. (\A i \in 1..Len(stored) : LoopSample(stored[i]) /\ stored[i].at <= step)'
    BY <1>1, <2>2, <2>8
  <2>11. ({stored[i].at : i \in 1..Len(stored)})'
            = ({n \in 0..step : n = Steps \/ n % study.stride = 0})'
    <3>1. {st1[i].at : i \in 1..Len(st1)} = {n \in 0..step : n = Steps \/ n % study.stride = 0}
      BY <2>1, <2>2, <2>7
    <3> QED
      BY <1>1, <2>2, <3>1
  <2>12. (stored \in Seq(SampleRecord) /\ Len(stored) > 0)'
    BY <2>2, <2>5 DEF SampleRecord
  <2>13. (\A i \in 1..(Len(stored) - 1) : stored[i].at < step)'
    BY <1>1, <2>2, <2>9
  <2> QED
    BY <2>10, <2>11, <2>12, <2>13 DEF LoopStored
<1>12. SensorLine'
  <2>1. Measure(Declared[step])
    <3>1. Measure(state')
      BY DEF Boundary
    <3> QED
      BY <1>3, <3>1 DEF Measure, SampleIfDue
  <2> QED
    BY <1>0, <1>1, <1>2, <2>1, BoundarySensor DEF Invariant
<1>13. SampledStored' /\ Plant'
  BY <1>0, <1>1 DEF SampledStored, Plant
<1>14. ControllerSeesItsReading'
  BY <1>1, SeesKept DEF Invariant
<1> QED
  BY <1>4, <1>7, <1>8, <1>9, <1>11, <1>12, <1>13, <1>14 DEF Invariant

(* At its boundary the sensor's reading is the one it owes.                *)
LEMMA ReadingNow ==
  ASSUME study \in Study, study.way = "loop", step \in 0..Steps, pc = "tick", SensorLine
  PROVE  /\ latest \in ReadingRecord
         /\ latest.available = Reading(step).available
         /\ latest.stale = Reading(step).stale
         /\ latest.available => latest.value = Reading(step).value
<1>0. step \in Nat /\ latest \in ReadingRecord
  BY BoundsAssumption DEF SensorLine, Running
<1>1. CASE study.sensor = None
  <2>1. latest = [available |-> TRUE, stale |-> FALSE, value |-> Declared[step]]
    BY <1>1 DEF SensorLine, Running
  <2>2. Reading(step) = [available |-> TRUE, stale |-> FALSE, value |-> Declared[step]]
    BY <1>1 DEF Reading
  <2> QED
    BY <1>0, <2>1, <2>2
<1>2. CASE study.sensor # None
  <2>1. PICK every \in Nat \ {0}, l \in Nat : every = study.sensor.every /\ l = study.sensor.latency
    <3>1. study.sensor \in Sensor
      BY <1>2, StudyShape
    <3> QED
      BY <3>1, SensorShape
  <2>2. study.sensor.policy \in {"unavailable", "hold_last"}
    <3>1. study.sensor \in Sensor
      BY <1>2, StudyShape
    <3> QED
      BY <3>1, SensorShape
  <2>3. PICK m \in Nat : m = step \div every
    BY <1>0, QuotientType
  <2>4. Taken = m + 1
    BY <1>0, <2>1, <2>3, CountMultiples DEF Taken
  <2>5. IsLatest(latest, m + 1)
    BY <1>2, <2>4 DEF SensorLine, Measured, Running
  <2>6. (m + 1) - 1 - l = m - l
    OBVIOUS
  <2> DEFINE good == (0..(m - l)) \ study.sensor.dropped
  <2>7. Delivered(m + 1) = good
    BY <2>1, <2>6 DEF Delivered
  <2>8. /\ latest.available <=> /\ m - l >= 0
                                /\ \/ m - l \in good
                                   \/ study.sensor.policy = "hold_last" /\ good # {}
        /\ latest.stale <=> m - l >= 0 /\ m - l \notin good
        /\ good # {} => latest.value = Declared[Max(good) * every]
    BY <2>1, <2>5, <2>6, <2>7 DEF IsLatest
  <2>9. Reading(step) =
          IF m - l < 0 THEN [available |-> FALSE, stale |-> FALSE]
          ELSE IF m - l \notin good /\ (study.sensor.policy = "unavailable" \/ good = {})
          THEN [available |-> FALSE, stale |-> TRUE]
          ELSE [available |-> TRUE, stale |-> m - l \notin good, value |-> Declared[Max(good) * every]]
    BY <1>2, <2>1, <2>3 DEF Reading
  <2>10. latest.available \in BOOLEAN /\ latest.stale \in BOOLEAN
    BY <1>0 DEF ReadingRecord
  <2> HIDE DEF good
  <2>12. CASE m - l < 0
    <3>1. ~ (m - l >= 0)
      BY <2>1, <2>3, <2>12
    <3>2. latest.available = FALSE /\ latest.stale = FALSE
      BY <2>8, <2>10, <3>1, Zenon
    <3>3. Reading(step) = [available |-> FALSE, stale |-> FALSE]
      BY <2>9, <2>12
    <3>4. Reading(step).available = FALSE /\ Reading(step).stale = FALSE
      BY <3>3
    <3> QED
      BY <1>0, <3>2, <3>4, Zenon
  <2>13. CASE m - l >= 0 /\ m - l \notin good /\ (study.sensor.policy = "unavailable" \/ good = {})
    <3>1. ~ (study.sensor.policy = "hold_last" /\ good # {})
      BY <2>13
    <3>2. latest.available = FALSE /\ latest.stale = TRUE
      BY <2>8, <2>10, <2>13, <3>1, Zenon
    <3>3. Reading(step) = [available |-> FALSE, stale |-> TRUE]
      BY <2>1, <2>3, <2>9, <2>13
    <3>4. Reading(step).available = FALSE /\ Reading(step).stale = TRUE
      BY <3>3
    <3> QED
      BY <1>0, <3>2, <3>4, Zenon
  <2>14. CASE m - l >= 0 /\ ~ (m - l \notin good /\ (study.sensor.policy = "unavailable" \/ good = {}))
    <3>1. good # {} /\ (m - l \in good \/ study.sensor.policy = "hold_last")
      BY <2>2, <2>14
    <3>2. latest.available = TRUE /\ latest.value = Declared[Max(good) * every]
      BY <2>8, <2>10, <2>14, <3>1, Zenon
    <3>3. PICK stale \in BOOLEAN : stale = (m - l \notin good)
      OBVIOUS
    <3>4. latest.stale = stale
      BY <2>8, <2>10, <2>14, <3>3, Zenon
    <3>5. Reading(step) = [available |-> TRUE, stale |-> stale,
                           value |-> Declared[Max(good) * every]]
      BY <2>1, <2>3, <2>9, <2>14, <3>3
    <3>6. /\ Reading(step).available = TRUE
          /\ Reading(step).stale = stale
          /\ Reading(step).value = Declared[Max(good) * every]
      BY <3>5
    <3> QED
      BY <1>0, <3>2, <3>4, <3>6, Zenon
  <2> QED
    BY <2>12, <2>13, <2>14
<1> QED
  BY <1>1, <1>2

(* A boundary with a tick is that many periods from the start.             *)
LEMMA Whole ==
  ASSUME NEW n \in Nat, NEW p \in Nat \ {0}, n % p = 0
  PROVE  (n \div p) * p = n
<1>1. PICK m \in Nat, q \in Nat, r \in 0..(p - 1) :
        m = p * q /\ n = m + r /\ n \div p = q /\ n % p = r
  BY Divided
<1>2. q * p = p * q
  OBVIOUS
<1> QED
  BY <1>1, <1>2

(* A tick uses what it should.                                             *)
LEMMA TickSees ==
  ASSUME study \in Study, study.way = "loop", step \in 0..Steps, pc = "tick",
         Clock, Line, Held, SensorLine, ControllerSeesItsReading,
         latest.available \/ study.missing # "refuse",
         NEW r, r.available = latest.available, r.stale = latest.stale, r.measurement = Effective
  PROVE  Effective \in Measurement /\ Sees(r, Len(ticks) + 1)
<1>1. PICK p \in Nat \ {0} : p = study.period
  BY StudyShape
<1>2. step \in Nat /\ step % p = 0 /\ Len(ticks) = Multiples(p, step)
  BY <1>1, BoundsAssumption DEF Clock
<1>3. PICK N \in Nat : N = Len(ticks) /\ N * p = step
  <2>1. Len(ticks) = step \div p /\ step \div p \in Nat
    BY <1>2, CountMultiples, QuotientType
  <2>2. (step \div p) * p = step
    BY <1>2, Whole
  <2> QED
    BY <2>1, <2>2
<1>4. Owing(N + 1) = Reading(step)
  <2>1. (N + 1) - 1 = N
    OBVIOUS
  <2>2. ((N + 1) - 1) * study.period = step
    BY <1>1, <1>3, <2>1
  <2> QED
    BY <2>2 DEF Owing
<1>5. /\ latest \in ReadingRecord
      /\ latest.available = Owing(N + 1).available
      /\ latest.stale = Owing(N + 1).stale
      /\ latest.available => latest.value = Owing(N + 1).value
  BY <1>4, ReadingNow
<1>6. held = IF N = 0 THEN None ELSE ticks[N].measurement
  BY <1>3 DEF Held
<1>7. N # 0 => ticks[N].measurement \in Measurement /\ held # None
  <2> SUFFICES ASSUME N # 0
               PROVE  ticks[N].measurement \in Measurement
    BY <1>6, NoneAssumption
  <2>1. ticks[N] \in TickRecord
    BY <1>3 DEF Line
  <2> QED
    BY <2>1 DEF TickRecord
<1>8. latest.value \in Seq(Deed)
  BY <1>5 DEF ReadingRecord
<1>9. Effective \in Measurement
  BY <1>6, <1>7, <1>8 DEF Effective, Measurement
<1>10. Effective = IF Owing(N + 1).available THEN Owing(N + 1).value
                   ELSE IF study.missing = "trim_fallback" THEN [reference |-> N * p]
                   ELSE IF Had(N + 1) = {} THEN [reference |-> 0]
                   ELSE Owing(Max(Had(N + 1))).value
  <2>1. CASE Owing(N + 1).available
    BY <1>5, <2>1 DEF Effective
  <2>2. CASE ~ Owing(N + 1).available /\ study.missing = "trim_fallback"
    BY <1>3, <1>5, <2>2 DEF Effective
  <2>3. CASE ~ Owing(N + 1).available /\ study.missing # "trim_fallback"
    <3>1. study.missing = "hold_last" /\ ~ latest.available
      BY <1>5, <2>3, StudyShape
    <3>2. CASE N = 0
      <4>1. Had(N + 1) = {}
        BY <3>2 DEF Had
      <4>2. step = 0
        BY <1>3, <3>2
      <4> QED
        BY <1>6, <2>3, <3>1, <3>2, <4>1, <4>2 DEF Effective
    <3>3. CASE N # 0
      <4>1. Effective = ticks[N].measurement
        BY <1>6, <1>7, <3>1, <3>3 DEF Effective
      <4>2. Sees(ticks[N], N)
        <5>1. N \in DOMAIN ticks
          BY <1>3, <3>3 DEF Line
        <5> QED
          BY <5>1, AllSee
      <4>3. \A j : j \in 1..((N + 1) - 1) <=> j \in 1..(N - 1) \/ j = N
        BY <3>3
      <4>4. CASE Owing(N).available
        <5>1. N \in Had(N + 1) /\ Had(N + 1) \subseteq 0..N /\ N \in Int
          BY <4>3, <4>4 DEF Had
        <5>2. PICK S : S = Had(N + 1)
          OBVIOUS
        <5>3. Max(S) \in S /\ \A j \in S : j <= Max(S)
          BY <5>1, <5>2, Greatest
        <5>4. Max(S) = N
          <6>1. Max(S) \in 0..N /\ N <= Max(S)
            BY <5>1, <5>2, <5>3
          <6> QED
            BY <6>1
        <5>5. Effective = Owing(N).value
          BY <4>1, <4>2, <4>4 DEF Sees
        <5> QED
          BY <2>3, <5>1, <5>2, <5>4, <5>5
      <4>5. CASE ~ Owing(N).available
        <5>1. Had(N + 1) = Had(N)
          BY <4>3, <4>5 DEF Had
        <5> QED
          BY <2>3, <4>1, <4>2, <4>5, <5>1 DEF Sees
      <4> QED
        BY <4>4, <4>5
    <3> QED
      BY <3>2, <3>3
  <2> QED
    BY <2>1, <2>2, <2>3
<1>11. ((N + 1) - 1) * study.period = N * p
  <2>1. (N + 1) - 1 = N
    OBVIOUS
  <2> QED
    BY <1>1, <2>1
<1> QED
  BY <1>3, <1>5, <1>9, <1>10, <1>11 DEF Sees

(* When every earlier tick has what it should, the new one is to be shown. *)
LEMMA OneMoreSees ==
  ASSUME study.way # "plant", Line, Line', ControllerSeesItsReading, study' = study,
         NEW N \in Nat, N = Len(ticks), Len(ticks') = N + 1,
         \A k \in 1..N : ticks'[k] = ticks[k],
         NEW r, r = ticks'[N + 1], Sees(r, N + 1)
  PROVE  ControllerSeesItsReading'
<1>1. PICK t, t1 : t = ticks /\ t1 = ticks'
  OBVIOUS
<1>2. \A k \in 1..N : Sees(t[k], k)
  <2>1. \A k \in DOMAIN t : Sees(t[k], k)
    BY <1>1, AllSee
  <2>2. DOMAIN t = 1..N
    BY <1>1 DEF Line
  <2> QED
    BY <2>1, <2>2
<1>3. \A k \in 1..(N + 1) : k \in 1..N \/ k = N + 1
  OBVIOUS
<1>4. \A k \in 1..N : t1[k] = t[k]
  BY <1>1
<1>5. \A k \in 1..(N + 1) : Sees(t1[k], k)
  BY <1>1, <1>2, <1>3, <1>4
<1>6. \A k \in 1..(N + 1) : Sees(t1[k], k)'
  BY <1>5, SeesFixed
<1>7. DOMAIN ticks' = 1..(N + 1)
  BY DEF Line
<1>8. (\A k \in DOMAIN ticks : Sees(ticks[k], k))'
  BY <1>1, <1>6, <1>7
<1> QED
  BY <1>8, AllSee, PTL

(* The sample of a tick's boundary gets the tick's command; none else is   *)
(* of that boundary.                                                       *)
LEMMA RelabelledSample ==
  ASSUME study \in Study, study' = study, step' = step, step < Steps,
         pc = "tick", pc' = "step",
         NEW r \in SampleRecord, LoopSample(r), NEW s \in SampleRecord,
         s.at = r.at, s.state = r.state,
         r.at # step => s.command = r.command,
         r.at = step => s.command = Command(step)
  PROVE  LoopSample(s)'
<1>1. /\ Declared' = Declared /\ Arrived(r.at)' = Arrived(r.at)
      /\ Command(r.at)' = Command(r.at)
  BY StudyFixed
<1>2. ~ Unlabelled'
  BY BoundsAssumption DEF Unlabelled
<1>3. s.command = Command(r.at)
  BY DEF LoopSample
<1>4. s.state = IF r.at = 0 THEN Declared[0] ELSE Arrived(r.at)
  BY DEF LoopSample
<1> QED
  BY <1>1, <1>2, <1>3, <1>4 DEF LoopSample

(* A tick of the closed loop.                                              *)
LEMMA TickStep ==
  ASSUME Invariant, Tick
  PROVE  Invariant'
<1>0. /\ study \in Study /\ step \in 0..Steps /\ Steps \in Nat \ {0} /\ step \in Nat
      /\ study.way = "loop" /\ pc = "tick" /\ state = Declared[step] /\ step < Steps
      /\ Len(ticks) = Multiples(study.period, step)
      /\ step % study.period = 0
  BY BoundsAssumption, StudyShape DEF Invariant, TypeOK, Clock, Tick
<1>1. /\ study' = study /\ step' = step /\ state' = state /\ pc' = "step"
      /\ pending' = pending /\ latest' = latest /\ held' = Effective
  BY DEF Tick, sensorVars, Goto
<1>2. TypeOK'
  BY <1>0, <1>1 DEF TypeOK
<1>3. PICK p \in Nat \ {0} : p = study.period
  BY <1>0, StudyShape
<1>4. latest \in ReadingRecord /\ latest.available \in BOOLEAN /\ latest.stale \in BOOLEAN
  <2>1. latest \in ReadingRecord
    BY <1>0 DEF Invariant, SensorLine, Running
  <2> QED
    BY <2>1 DEF ReadingRecord
<1>5. PICK rd, ms : rd = latest /\ ms = Effective
  OBVIOUS
<1>6. ms \in Measurement
  <2>1. PICK r : r = [available |-> rd.available, stale |-> rd.stale, measurement |-> ms]
    OBVIOUS
  <2>2. r.available = latest.available /\ r.stale = latest.stale /\ r.measurement = Effective
    BY <1>5, <2>1
  <2>3. latest.available \/ study.missing # "refuse"
    BY DEF Tick
  <2>4. Effective \in Measurement
    BY <1>0, <2>2, <2>3, TickSees DEF Invariant
  <2> QED
    BY <1>5, <2>4
<1>7. Release(rd, ms)
  BY <1>5 DEF Tick
<1>8. PICK N \in Nat : N = Len(ticks)
  BY <1>0, <1>3, CountMultiples
<1>9. /\ Line' /\ Len(ticks') = N + 1
      /\ applied' = Owed(study.delay, N)
      /\ \A k \in 1..N : ticks'[k] = ticks[k]
      /\ LET r == ticks'[N + 1]
         IN r.available = rd.available /\ r.stale = rd.stale /\ r.measurement = ms
  <2>1. rd.available \in BOOLEAN /\ rd.stale \in BOOLEAN /\ study.way # "plant"
    BY <1>0, <1>4, <1>5
  <2>2. Line /\ study' = study /\ study \in Study
    BY <1>0, <1>1 DEF Invariant
  <2>3. Line' /\ Len(ticks') = Len(ticks) + 1 /\ applied' = Owed(study.delay, Len(ticks))
    BY <1>6, <1>7, <2>1, <2>2, ReleaseStep
  <2>4. \A k \in 1..Len(ticks) : ticks'[k] = ticks[k]
    BY <1>6, <1>7, <2>1, <2>2, ReleaseStep
  <2>5. LET r == ticks'[Len(ticks) + 1]
        IN r.available = rd.available /\ r.stale = rd.stale /\ r.measurement = ms
    BY <1>6, <1>7, <2>1, <2>2, ReleaseStep
  <2> QED
    BY <1>8, <2>3, <2>4, <2>5
<1>10. N = step \div p /\ Multiples(p, step + 1) = N + 1
  <2>1. step \in Nat /\ step % p = 0 /\ N = Multiples(p, step)
    BY <1>0, <1>3, <1>8
  <2>2. Multiples(p, step) = step \div p /\ Multiples(p, step + 1) = step \div p + 1
    BY <2>1, CountMultiples
  <2> QED
    BY <2>1, <2>2
<1>11. Clock'
  <2>1. Declared' = Declared
    BY <1>1, StudyFixed
  <2>2. Multiples(study.period, step + 1)' = N + 1
    BY <1>1, <1>3, <1>10 DEF Multiples
  <2> QED
    BY <1>0, <1>1, <1>9, <2>1, <2>2 DEF Clock
<1>12. Held'
  BY <1>1, <1>5, <1>8, <1>9 DEF Held
<1>13. applied' = Command(step)
  BY <1>0, <1>3, <1>9, <1>10, OwedCommand
<1>14. LoopStored'
  <2>1. /\ stored \in Seq(SampleRecord) /\ Len(stored) > 0
        /\ \A i \in 1..Len(stored) : LoopSample(stored[i]) /\ stored[i].at <= step
        /\ \A i \in 1..(Len(stored) - 1) : stored[i].at < step
        /\ {stored[i].at : i \in 1..Len(stored)} = {n \in 0..step : n = Steps \/ n % study.stride = 0}
    BY <1>0 DEF LoopStored, Invariant
  <2>2. PICK st \in Seq(SampleRecord), L \in Nat : st = stored /\ L = Len(st) /\ L > 0
    BY <2>1
  <2>3. PICK st1, c : st1 = stored' /\ c = applied'
    OBVIOUS
  <2>4. c \in Nat \cup {None}
    BY <1>0, <1>13, <2>3, DeedsType
  <2>5. st1 = IF st[L].at = step THEN [st EXCEPT ![L].command = c] ELSE st
    BY <2>2, <2>3 DEF Tick, Relabel, Relabelled, Last
  <2>6. PICK r \in SampleRecord, s \in SampleRecord : r = st[L] /\ s = [r EXCEPT !.command = c]
    <3>1. st[L] \in SampleRecord
      BY <2>2
    <3>2. [st[L] EXCEPT !.command = c] \in SampleRecord
      BY <2>4, <3>1 DEF SampleRecord
    <3> QED
      BY <3>1, <3>2
  <2>7. s.at = r.at /\ s.state = r.state /\ s.command = c
    BY <2>6 DEF SampleRecord
  <2>8. /\ st1 \in Seq(SampleRecord) /\ Len(st1) = L
        /\ \A i \in 1..(L - 1) : st1[i] = st[i]
        /\ st1[L] = IF r.at = step THEN s ELSE r
    <3>1. CASE r.at = step
      <4>1. st1 = [st EXCEPT ![L] = s]
        BY <2>5, <2>6, <3>1
      <4> QED
        BY <2>2, <2>6, <3>1, <4>1
    <3>2. CASE r.at # step
      BY <2>2, <2>5, <2>6, <3>2
    <3> QED
      BY <3>1, <3>2
  <2>9. \A i \in 1..L : i \in 1..(L - 1) \/ i = L
    OBVIOUS
  <2>10. ASSUME NEW i \in 1..L
         PROVE  LoopSample(st1[i])' /\ st1[i].at = st[i].at
    <3>1. LoopSample(st[i]) /\ st[i] \in SampleRecord /\ st1[i] \in SampleRecord
      BY <2>1, <2>2, <2>8
    <3>2. CASE i \in 1..(L - 1)
      <4>1. st[i].at # step
        <5>1. st[i].at < step
          BY <2>1, <2>2, <3>2
        <5> QED
          BY <1>0, <5>1
      <4>2. st1[i] = st[i]
        BY <2>8, <3>2
      <4> QED
        BY <1>0, <1>1, <3>1, <4>1, <4>2, RelabelledSample
    <3>3. CASE i = L
      <4>1. LoopSample(r)
        BY <2>6, <3>1, <3>3
      <4>2. CASE r.at = step
        <5>1. s.command = Command(step)
          BY <1>13, <2>3, <2>7
        <5>2. LoopSample(s)'
          BY <1>0, <1>1, <2>7, <4>1, <4>2, <5>1, RelabelledSample
        <5> QED
          BY <2>6, <2>7, <2>8, <3>3, <4>2, <5>2
      <4>3. CASE r.at # step
        <5>1. LoopSample(r)'
          BY <1>0, <1>1, <4>1, <4>3, RelabelledSample
        <5> QED
          BY <2>6, <2>8, <3>3, <4>3, <5>1
      <4> QED
        BY <4>2, <4>3
    <3> QED
      BY <2>9, <3>2, <3>3
  <2>11. \A i \in 1..L : LoopSample(st1[i])' /\ st1[i].at <= step
    BY <2>1, <2>2, <2>10
  <2>12. \A i \in 1..(L - 1) : st1[i].at < step
    BY <2>1, <2>2, <2>8
  <2>13. {st1[i].at : i \in 1..L} = {n \in 0..step : n = Steps \/ n % study.stride = 0}
    <3>1. {st1[i].at : i \in 1..L} = {st[i].at : i \in 1..L}
      BY <2>10
    <3> QED
      BY <2>1, <2>2, <3>1
  <2>14. (stored \in Seq(SampleRecord) /\ Len(stored) > 0)'
    BY <2>2, <2>3, <2>8 DEF SampleRecord
  <2>15. (\A i \in 1..Len(stored) : LoopSample(stored[i]) /\ stored[i].at <= step)'
    BY <1>1, <2>3, <2>8, <2>11
  <2>16. (\A i \in 1..(Len(stored) - 1) : stored[i].at < step)'
    BY <1>1, <2>3, <2>8, <2>12
  <2>17. ({stored[i].at : i \in 1..Len(stored)})'
            = ({n \in 0..step : n = Steps \/ n % study.stride = 0})'
    BY <1>1, <2>3, <2>8, <2>13
  <2> QED
    BY <2>14, <2>15, <2>16, <2>17 DEF LoopStored
<1>15. SensorLine'
  BY <1>0, <1>1, SensorKept DEF Invariant
<1>16. SampledStored' /\ Plant'
  BY <1>0, <1>1 DEF SampledStored, Plant
<1>17. ControllerSeesItsReading'
  <2>1. PICK r : r = ticks'[N + 1]
    OBVIOUS
  <2>2. Sees(r, N + 1)
    <3>1. r.available = latest.available /\ r.stale = latest.stale /\ r.measurement = Effective
      BY <1>5, <1>9, <2>1
    <3>2. latest.available \/ study.missing # "refuse"
      BY DEF Tick
    <3>3. Sees(r, Len(ticks) + 1)
      BY <1>0, <3>1, <3>2, TickSees DEF Invariant
    <3> QED
      BY <1>8, <3>3
  <2>3. study.way # "plant"
    BY <1>0
  <2>4. \A k \in 1..N : ticks'[k] = ticks[k]
    BY <1>9
  <2>5. Line /\ Line' /\ ControllerSeesItsReading /\ Len(ticks') = N + 1
    BY <1>9 DEF Invariant
  <2> QED
    BY <1>1, <1>8, <2>1, <2>2, <2>3, <2>4, <2>5, OneMoreSees
<1> QED
  BY <1>2, <1>9, <1>11, <1>12, <1>14, <1>15, <1>16, <1>17 DEF Invariant

(* A loop that refuses or breaks off does nothing else. What a closed loop *)
(* breaks off with is labelled already.                                    *)
LEMMA LeaveStep ==
  ASSUME Invariant, Refuse \/ Terminate
  PROVE  Invariant'
<1>0. study \in Study /\ step \in 0..Steps /\ Steps \in Nat \ {0} /\ TypeOK
  BY BoundsAssumption DEF Invariant, TypeOK
<1>1. /\ study' = study /\ step' = step /\ state' = state /\ stored' = stored
      /\ applied' = applied /\ queue' = queue /\ head' = head /\ held' = held
      /\ ticks' = ticks /\ pending' = pending /\ latest' = latest
  BY DEF Refuse, Terminate, loopVars, sensorVars
<1>2. \/ pc' = "refused"
      \/ pc' = "done" /\ pc = "step" /\ study.way = "loop" /\ step < Steps
  BY <1>0, StudyShape DEF Refuse, Terminate, Goto, Invariant, TypeOK, Clock
<1>3. TypeOK'
  BY <1>0, <1>1, <1>2 DEF TypeOK
<1>4. Clock'
  BY <1>0, <1>1, <1>2 DEF Clock
<1>5. Line' /\ Held'
  BY <1>1, LineKept DEF Held, Invariant
<1>6. LoopStored'
  <2>1. CASE pc' = "refused"
    BY <2>1 DEF LoopStored
  <2>2. CASE pc' = "done" /\ pc = "step" /\ study.way = "loop" /\ step < Steps
    <3>1. /\ stored \in Seq(SampleRecord) /\ Len(stored) > 0
          /\ \A i \in 1..Len(stored) : LoopSample(stored[i]) /\ stored[i].at <= step
          /\ \A i \in 1..(Len(stored) - 1) : stored[i].at < step
          /\ {stored[i].at : i \in 1..Len(stored)}
               = {n \in 0..step : n = Steps \/ n % study.stride = 0}
      BY <2>2 DEF LoopStored, Invariant
    <3>2. PICK st : st = stored /\ st = stored'
      BY <1>1
    <3>3. Unlabelled' = Unlabelled
      BY <1>0, <1>1, <2>2 DEF Unlabelled
    <3>4. ASSUME NEW i \in 1..Len(st)
          PROVE  LoopSample(st[i])'
      <4>1. LoopSample(st[i])
        BY <3>1, <3>2
      <4> QED
        BY <1>1, <2>2, <3>3, <4>1, LoopSampleKept
    <3>5. (\A i \in 1..Len(stored) : LoopSample(stored[i]) /\ stored[i].at <= step)'
      BY <1>1, <3>1, <3>2, <3>4
    <3>6. (stored \in Seq(SampleRecord) /\ Len(stored) > 0)'
      BY <1>1, <3>1 DEF SampleRecord
    <3>7. (\A i \in 1..(Len(stored) - 1) : stored[i].at < step)'
      BY <1>1, <3>1
    <3>8. ({stored[i].at : i \in 1..Len(stored)})'
            = ({n \in 0..step : n = Steps \/ n % study.stride = 0})'
      BY <1>1, <3>1
    <3> QED
      BY <3>5, <3>6, <3>7, <3>8 DEF LoopStored
  <2> QED
    BY <1>2, <2>1, <2>2
<1>7. SensorLine'
  <2>1. pc' \in {"done", "refused"}
    BY <1>2
  <2> QED
    BY <1>1, <2>1, SensorKept DEF Invariant
<1>8. SampledStored'
  BY <1>1, <1>2 DEF SampledStored
<1>9. Plant'
  BY <1>1, <1>2 DEF Plant, Invariant
<1>10. ControllerSeesItsReading'
  BY <1>1, SeesKept DEF Invariant
<1> QED
  BY <1>3, <1>4, <1>5, <1>6, <1>7, <1>8, <1>9, <1>10 DEF Invariant

(* One step flown from where the run has come.                             *)
LEMMA FlownOneStep ==
  ASSUME study \in Study, NEW n \in Nat, n < Steps
  PROVE  /\ n \in 0..Steps /\ n + 1 \in 0..Steps
         /\ Flown(Declared[n], 1, Command(n), Wind(n)) = Arrived(n + 1)
<1>1. n \in 0..Steps /\ n + 1 \in 0..Steps /\ n + 1 # 0 /\ (n + 1) - 1 = n
  BY BoundsAssumption
<1>2. PICK s \in Seq(Deed), e \in Deed : s = Declared[n] /\ e = [command |-> Command(n), wind |-> Wind(n)]
  BY <1>1, DeclaredRun, DeedsType DEF Deeds
<1>3. Flown(s, 0 + 1, Command(n), Wind(n)) = Append(s, e)
  <2>1. PICK j \in Nat : j = 0
    OBVIOUS
  <2>2. PICK c, w : c = Command(n) /\ w = Wind(n)
    OBVIOUS
  <2>3. e = [command |-> c, wind |-> w]
    BY <1>2, <2>2
  <2>4. Flown(s, 0, c, w) = s
    BY <2>3, FlownOn
  <2>5. PICK l \in Nat : l = j + 1
    OBVIOUS
  <2>6. Flown(s, l, c, w) = Append(Flown(s, j, c, w), e)
    BY <2>3, <2>5, FlownOneMore
  <2> QED
    BY <2>1, <2>2, <2>4, <2>5, <2>6
<1>4. Arrived(n + 1) = Append(s, e)
  BY <1>1, <1>2 DEF Arrived, Deeds
<1>5. 0 + 1 = 1
  OBVIOUS
<1> QED
  BY <1>1, <1>2, <1>3, <1>4, <1>5

(* An integration step of the closed loop takes the plant to the next      *)
(* boundary of the run, and stores it where the lattice has it.            *)
LEMMA IntegrateStep ==
  ASSUME Invariant, Integrate
  PROVE  Invariant'
<1>0. /\ study \in Study /\ step \in 0..Steps /\ Steps \in Nat \ {0} /\ step \in Nat
      /\ study.way = "loop" /\ pc = "step" /\ state = Declared[step] /\ step < Steps
      /\ Len(ticks) = Multiples(study.period, step + 1)
  BY BoundsAssumption DEF Invariant, TypeOK, Clock, Integrate
<1>1. /\ study' = study /\ step' = step + 1 /\ pc' = "boundary"
      /\ applied' = applied /\ queue' = queue /\ head' = head /\ held' = held
      /\ ticks' = ticks /\ pending' = pending /\ latest' = latest
  BY DEF Integrate, loopVars, sensorVars, Goto
<1>2. step + 1 \in 0..Steps
  BY <1>0, FlownOneStep
<1>3. TypeOK'
  BY <1>0, <1>1, <1>2 DEF TypeOK
<1>4. applied = Command(step)
  BY <1>0, AppliedCommand DEF Invariant
<1>5. state' = Arrived(step + 1)
  <2>1. state' = Flown(Declared[step], 1, Command(step), Wind(step))
    BY <1>0, <1>4 DEF Integrate, Wind
  <2> QED
    BY <1>0, <2>1, FlownOneStep
<1>6. Clock'
  <2>2. (state = Arrived(step))'
    BY <1>1, <1>5, StudyFixed
  <2>3. (Len(ticks) = Multiples(study.period, step))'
    BY <1>0, <1>1 DEF Multiples
  <2> QED
    BY <1>0, <1>1, <2>2, <2>3 DEF Clock
<1>7. Line' /\ Held'
  BY <1>1, LineKept DEF Held, Invariant
<1>8. LoopStored'
  <2>1. /\ stored \in Seq(SampleRecord) /\ Len(stored) > 0
        /\ \A i \in 1..Len(stored) : LoopSample(stored[i]) /\ stored[i].at <= step
        /\ \A i \in 1..(Len(stored) - 1) : stored[i].at < step
        /\ {stored[i].at : i \in 1..Len(stored)} = {n \in 0..step : n = Steps \/ n % study.stride = 0}
    BY <1>0 DEF LoopStored, Invariant
  <2>2. PICK st \in Seq(SampleRecord), L \in Nat : st = stored /\ L = Len(st) /\ L > 0
    BY <2>1
  <2>3. PICK st1 : st1 = stored'
    OBVIOUS
  <2>4. PICK e \in SampleRecord :
          e = [at |-> step + 1, state |-> Arrived(step + 1), command |-> applied]
    <3>1. Arrived(step + 1) \in Seq(Deed) /\ applied \in Nat \cup {None}
      BY <1>0, <1>2, <1>4, DeclaredRun, DeedsType
    <3> QED
      BY <1>2, <3>1 DEF SampleRecord
  <2>5. PICK due \in BOOLEAN : due = (step + 1 = Steps \/ (step + 1) % study.stride = 0)
    OBVIOUS
  <2>6. st1 = IF due THEN Append(st, e) ELSE st
    BY <1>1, <1>5, <2>2, <2>3, <2>4, <2>5 DEF Integrate
  <2>7. PICK M \in Nat :
          /\ M = L \/ M = L + 1
          /\ st1 \in Seq(SampleRecord) /\ Len(st1) = M
          /\ \A i \in 1..L : st1[i] = st[i]
          /\ due <=> M = L + 1
          /\ M = L + 1 => st1[M] = e
    <3>1. CASE due
      <4>1. /\ st1 \in Seq(SampleRecord) /\ Len(st1) = L + 1 /\ st1[L + 1] = e
            /\ \A i \in 1..L : st1[i] = st[i]
        BY <2>2, <2>6, <3>1, AppendProperties
      <4>2. L + 1 \in Nat
        OBVIOUS
      <4> QED
        BY <3>1, <4>1, <4>2
    <3>2. CASE ~ due
      BY <2>2, <2>6, <3>2
    <3> QED
      BY <3>1, <3>2
  <2>8. e.at = step + 1 /\ e.state = Arrived(step + 1) /\ e.command = applied
    BY <2>4
  <2>9. \A i \in 1..L : LoopSample(st[i]) /\ st[i].at \in 0..step
    <3>1. ASSUME NEW i \in 1..L
          PROVE  LoopSample(st[i]) /\ st[i].at \in 0..step
      <4>1. LoopSample(st[i]) /\ st[i].at <= step /\ st[i] \in SampleRecord
        BY <2>1, <2>2
      <4>2. st[i].at \in 0..Steps
        BY <4>1 DEF SampleRecord
      <4> QED
        BY <1>0, <4>1, <4>2
    <3> QED
      BY <3>1
  <2>10. ASSUME NEW i \in 1..L
         PROVE  LoopSample(st[i])'
    <3>0. PICK r : r = st[i]
      OBVIOUS
    <3>1. PICK n \in 0..step : n = r.at /\ LoopSample(r)
      BY <2>9, <3>0
    <3>2. ~ Unlabelled
      BY <1>0 DEF Unlabelled
    <3>3. r.command = Command(n) /\ r.state = IF n = 0 THEN Declared[0] ELSE Arrived(n)
      BY <1>0, <3>1, <3>2 DEF LoopSample
    <3>4. Declared' = Declared /\ Arrived(n)' = Arrived(n) /\ Command(n)' = Command(n)
      BY <1>1, StudyFixed
    <3>5. n # step + 1 /\ step + 1 # 0
      BY <1>0
    <3>6. LoopSample(r)'
      BY <1>1, <3>1, <3>3, <3>4, <3>5 DEF LoopSample
    <3> QED
      BY <3>0, <3>6
  <2>11. LoopSample(e)'
    <3>1. e.at # 0
      BY <1>0, <2>8
    <3>2. Unlabelled'
      BY <1>1 DEF Unlabelled
    <3>3. Arrived(e.at)' = Arrived(e.at)
      BY <1>1, StudyFixed
    <3> QED
      BY <1>1, <2>8, <3>1, <3>2, <3>3 DEF LoopSample
  <2>12. \A i \in 1..M : i \in 1..L \/ (i = L + 1 /\ M = L + 1)
    BY <2>7
  <2>13. \A i \in 1..M : LoopSample(st1[i])' /\ st1[i].at <= step + 1
    <3>1. ASSUME NEW i \in 1..M
          PROVE  LoopSample(st1[i])' /\ st1[i].at <= step + 1
      <4>1. CASE i \in 1..L
        <5>1. st1[i] = st[i] /\ LoopSample(st[i])' /\ st[i].at \in 0..step
          BY <2>7, <2>9, <2>10, <4>1
        <5> QED
          BY <1>0, <5>1
      <4>2. CASE i = L + 1 /\ M = L + 1
        <5>1. st1[i] = e
          BY <2>7, <4>2
        <5> QED
          BY <1>0, <2>8, <2>11, <5>1
      <4> QED
        BY <2>12, <4>1, <4>2
    <3> QED
      BY <3>1
  <2>14. \A i \in 1..(M - 1) : st1[i].at < step + 1
    <3>1. \A i \in 1..(M - 1) : i \in 1..L
      BY <2>7
    <3>2. \A i \in 1..L : st1[i].at < step + 1
      <4>1. \A i \in 1..L : st1[i].at \in 0..step
        BY <2>7, <2>9
      <4> QED
        BY <1>0, <4>1
    <3> QED
      BY <3>1, <3>2
  <2>15. {st1[i].at : i \in 1..M} = {n \in 0..(step + 1) : n = Steps \/ n % study.stride = 0}
    <3>1. {st1[i].at : i \in 1..L} = {n \in 0..step : n = Steps \/ n % study.stride = 0}
      <4>1. {st1[i].at : i \in 1..L} = {st[i].at : i \in 1..L}
        BY <2>7
      <4> QED
        BY <2>1, <2>2, <4>1
    <3>2. \A n : n \in 0..(step + 1) <=> n \in 0..step \/ n = step + 1
      BY <1>0
    <3>3. CASE due
      <4>1. M = L + 1 /\ st1[M].at = step + 1
        BY <2>7, <2>8, <3>3
      <4>2. {st1[i].at : i \in 1..M} = {st1[i].at : i \in 1..L} \cup {step + 1}
        <5>1. \A i : i \in 1..M <=> i \in 1..L \/ i = M
          BY <4>1
        <5> QED
          BY <4>1, <5>1
      <4> QED
        BY <2>5, <3>1, <3>2, <3>3, <4>2
    <3>4. CASE ~ due
      <4>1. M = L
        BY <2>7, <3>4
      <4> QED
        BY <2>5, <3>1, <3>2, <3>4, <4>1
    <3> QED
      BY <3>3, <3>4
  <2>16. (stored \in Seq(SampleRecord) /\ Len(stored) > 0)'
    BY <2>2, <2>3, <2>7 DEF SampleRecord
  <2>17. (\A i \in 1..Len(stored) : LoopSample(stored[i]) /\ stored[i].at <= step)'
    BY <1>1, <2>3, <2>7, <2>13
  <2>18. (\A i \in 1..(Len(stored) - 1) : stored[i].at < step)'
    BY <1>1, <2>3, <2>7, <2>14
  <2>19. ({stored[i].at : i \in 1..Len(stored)})'
            = ({n \in 0..step : n = Steps \/ n % study.stride = 0})'
    BY <1>1, <2>3, <2>7, <2>15
  <2> QED
    BY <2>16, <2>17, <2>18, <2>19 DEF LoopStored
<1>9. SensorLine'
  BY <1>0, <1>1, SensorKept DEF Invariant
<1>10. SampledStored' /\ Plant'
  BY <1>0, <1>1 DEF SampledStored, Plant
<1>11. ControllerSeesItsReading'
  BY <1>1, SeesKept DEF Invariant
<1> QED
  BY <1>3, <1>6, <1>7, <1>8, <1>9, <1>10, <1>11 DEF Invariant

(* A boundary of sim.sampled that is stored with its state and command.    *)
LEMMA SampledAppend ==
  ASSUME study \in Study, study.way = "sampled", study' = study,
         step \in 0..Steps, step' = step, step % study.period = 0,
         pc = "boundary", pc' \in {"step", "done"}, SampledStored,
         NEW e \in SampleRecord, stored' = Append(stored, e),
         e.at = step, e.state = Declared[step],
         e.command = IF step = Steps THEN applied' ELSE Command(step)
  PROVE  SampledStored'
<1>0. step \in Nat /\ step <= Steps /\ Steps \in Nat
  BY BoundsAssumption
<1>1. /\ stored \in Seq(SampleRecord)
      /\ \A i \in 1..Len(stored) : SampledSample(stored[i])
      /\ {stored[i].at : i \in 1..Len(stored)}
           = {n \in 0..step : n % study.period = 0 /\ n # step}
  BY DEF SampledStored
<1>2. PICK st \in Seq(SampleRecord), L \in Nat : st = stored /\ L = Len(st)
  BY <1>1
<1>3. PICK st1 : st1 = Append(st, e) /\ st1 = stored'
  BY <1>2
<1>4. /\ st1 \in Seq(SampleRecord) /\ Len(st1) = L + 1 /\ st1[L + 1] = e
      /\ \A i \in 1..L : st1[i] = st[i]
  BY <1>2, <1>3, AppendProperties
<1>5. \A i : i \in 1..(L + 1) <=> i \in 1..L \/ i = L + 1
  OBVIOUS
<1>6. \A i \in 1..L : SampledSample(st[i]) /\ st[i].at # Steps
  <2>1. ASSUME NEW i \in 1..L
        PROVE  SampledSample(st[i]) /\ st[i].at # Steps
    <3>1. st[i].at \in {n \in 0..step : n % study.period = 0 /\ n # step}
      BY <1>1, <1>2
    <3>2. st[i].at \in 0..step /\ st[i].at # step
      BY <3>1
    <3>3. st[i].at # Steps
      BY <1>0, <3>2
    <3> QED
      BY <1>1, <1>2, <3>3
  <2> QED
    BY <2>1
<1>7. ASSUME NEW i \in 1..L
      PROVE  SampledSample(st[i])'
  <2>1. PICK r : r = st[i] /\ SampledSample(r) /\ r.at # Steps
    BY <1>6
  <2>2. Declared' = Declared /\ Command(r.at)' = Command(r.at)
    BY StudyFixed
  <2>3. SampledSample(r)'
    BY <2>1, <2>2 DEF SampledSample
  <2> QED
    BY <2>1, <2>3
<1>8. SampledSample(e)'
  <2>1. Declared' = Declared /\ Command(e.at)' = Command(e.at)
    BY StudyFixed
  <2> QED
    BY <2>1 DEF SampledSample
<1>9. \A i \in 1..(L + 1) : SampledSample(st1[i])'
  BY <1>4, <1>5, <1>7, <1>8
<1>10. {st1[i].at : i \in 1..(L + 1)} = {n \in 0..step : n % study.period = 0}
  <2>1. {st1[i].at : i \in 1..(L + 1)} = {st[i].at : i \in 1..L} \cup {e.at}
    <3>1. {st1[i].at : i \in 1..(L + 1)} = {st1[i].at : i \in 1..L} \cup {st1[L + 1].at}
      BY <1>5
    <3>2. {st1[i].at : i \in 1..L} = {st[i].at : i \in 1..L}
      BY <1>4
    <3> QED
      BY <1>4, <3>1, <3>2
  <2>2. {st[i].at : i \in 1..L} = {n \in 0..step : n % study.period = 0 /\ n # step}
    BY <1>1, <1>2
  <2>3. step \in 0..step
    BY <1>0
  <2> QED
    BY <2>1, <2>2, <2>3
<1>11. (stored \in Seq(SampleRecord))'
  BY <1>3, <1>4 DEF SampleRecord
<1>12. (\A i \in 1..Len(stored) : SampledSample(stored[i]))'
  BY <1>3, <1>4, <1>9
<1>13. ({stored[i].at : i \in 1..Len(stored)})'
         = ({n \in 0..step : n % study.period = 0 /\ (n = step => pc # "boundary")})'
  BY <1>3, <1>4, <1>10
<1> QED
  BY <1>11, <1>12, <1>13 DEF SampledStored

(* A tick of sim.sampled: its plant is the declared one, and its command   *)
(* the one held from now.                                                  *)
LEMMA SampledTickStep ==
  ASSUME Invariant, SampledTick
  PROVE  Invariant'
<1>0. /\ study \in Study /\ step \in 0..Steps /\ Steps \in Nat \ {0} /\ step \in Nat
      /\ study.way = "sampled" /\ pc = "boundary" /\ state = Arrived(step) /\ step < Steps
      /\ Len(ticks) = Multiples(study.period, step) /\ step % study.period = 0
  BY BoundsAssumption DEF Invariant, TypeOK, Clock, SampledTick
<1>1. study' = study /\ step' = step /\ pc' = "step" /\ held' = held
  BY DEF SampledTick, Goto
<1>2. TypeOK'
  BY <1>0, <1>1 DEF TypeOK
<1>3. PICK p \in Nat \ {0} : p = study.period
  BY <1>0, StudyShape
<1>4. PICK rd, ms : rd = [available |-> TRUE, stale |-> FALSE] /\ ms = Declared[step]
  OBVIOUS
<1>5. state' = ms /\ ms \in Seq(Deed)
  BY <1>0, <1>4, DeclaredRun DEF SampledTick
<1>6. Release(rd, ms)
  BY <1>4, <1>5 DEF SampledTick
<1>7. PICK N \in Nat : N = Len(ticks)
  BY <1>0, <1>3, CountMultiples
<1>8. /\ Line /\ Line' /\ Len(ticks') = N + 1
      /\ applied' = Owed(study.delay, N)
      /\ \A k \in 1..N : ticks'[k] = ticks[k]
      /\ LET r == ticks'[N + 1]
         IN r.available = rd.available /\ r.stale = rd.stale /\ r.measurement = ms
  <2>1. rd.available \in BOOLEAN /\ rd.stale \in BOOLEAN /\ ms \in Measurement
    BY <1>4, <1>5 DEF Measurement
  <2>2. Line /\ study' = study /\ study \in Study /\ study.way # "plant"
    BY <1>0, <1>1 DEF Invariant
  <2>3. Line' /\ Len(ticks') = Len(ticks) + 1 /\ applied' = Owed(study.delay, Len(ticks))
    BY <1>6, <2>1, <2>2, ReleaseStep
  <2>4. \A k \in 1..Len(ticks) : ticks'[k] = ticks[k]
    BY <1>6, <2>1, <2>2, ReleaseStep
  <2>5. LET r == ticks'[Len(ticks) + 1]
        IN r.available = rd.available /\ r.stale = rd.stale /\ r.measurement = ms
    BY <1>6, <2>1, <2>2, ReleaseStep
  <2> QED
    BY <1>7, <2>2, <2>3, <2>4, <2>5
<1>9. N = step \div p /\ Multiples(p, step + 1) = N + 1 /\ N * p = step
  <2>1. step \in Nat /\ step % p = 0 /\ N = Multiples(p, step)
    BY <1>0, <1>3, <1>7
  <2>2. Multiples(p, step) = step \div p /\ Multiples(p, step + 1) = step \div p + 1
    BY <2>1, CountMultiples
  <2>3. (step \div p) * p = step
    BY <2>1, Whole
  <2> QED
    BY <2>1, <2>2, <2>3
<1>10. Clock'
  <2>1. Declared' = Declared
    BY <1>1, StudyFixed
  <2>2. Multiples(study.period, step + 1)' = N + 1
    BY <1>1, <1>3, <1>9 DEF Multiples
  <2> QED
    BY <1>0, <1>1, <1>4, <1>5, <1>8, <2>1, <2>2 DEF Clock
<1>11. applied' = Command(step)
  <2>1. study.way # "plant"
    BY <1>0
  <2> QED
    BY <1>0, <1>3, <1>8, <1>9, <2>1, OwedCommand
<1>12. SampledStored'
  <2>1. PICK e : e = [at |-> step, state |-> ms, command |-> Command(step)]
    OBVIOUS
  <2>2. e \in SampleRecord /\ e.at = step /\ e.state = ms /\ e.command = Command(step)
    <3>1. Command(step) \in Nat \cup {None}
      BY <1>0, DeedsType
    <3> QED
      BY <1>0, <1>5, <2>1, <3>1 DEF SampleRecord
  <2>3. stored' = Append(stored, e)
    BY <1>5, <1>11, <2>1 DEF SampledTick
  <2>4. SampledStored /\ step # Steps
    BY <1>0 DEF Invariant
  <2> QED
    BY <1>0, <1>1, <1>4, <2>2, <2>3, <2>4, SampledAppend
<1>13. Held' /\ LoopStored' /\ Plant' /\ SensorLine'
  BY <1>0, <1>1 DEF Held, LoopStored, Plant, SensorLine
<1>14. ControllerSeesItsReading'
  <2>1. PICK r : r = ticks'[N + 1]
    OBVIOUS
  <2>2. r.available = TRUE /\ r.stale = FALSE /\ r.measurement = Declared[step]
    BY <1>4, <1>8, <2>1
  <2>3. Owing(N + 1) = [available |-> TRUE, stale |-> FALSE, value |-> Declared[step]]
    <3>1. ((N + 1) - 1) * study.period = step
      <4>1. (N + 1) - 1 = N
        OBVIOUS
      <4> QED
        BY <1>3, <1>9, <4>1
    <3> QED
      BY <1>0, <3>1 DEF Owing, Reading
  <2>4. Sees(r, N + 1)
    <3>1. /\ Owing(N + 1).available = TRUE
          /\ Owing(N + 1).stale = FALSE
          /\ Owing(N + 1).value = Declared[step]
      BY <2>3
    <3> QED
      BY <2>2, <3>1 DEF Sees
  <2>5. study.way # "plant" /\ ControllerSeesItsReading
    BY <1>0 DEF Invariant
  <2> QED
    BY <1>1, <1>7, <1>8, <2>1, <2>4, <2>5, OneMoreSees
<1> QED
  BY <1>2, <1>8, <1>10, <1>12, <1>13, <1>14 DEF Invariant

(* The end of sim.sampled stores the last boundary.                        *)
LEMMA CloseSampledStep ==
  ASSUME Invariant, CloseSampled
  PROVE  Invariant'
<1>0. /\ study \in Study /\ step \in 0..Steps /\ Steps \in Nat \ {0}
      /\ study.way = "sampled" /\ pc = "boundary" /\ state = Arrived(step) /\ step = Steps
      /\ Len(ticks) = Multiples(study.period, step) /\ step % study.period = 0
  BY BoundsAssumption DEF Invariant, TypeOK, Clock, CloseSampled
<1>1. /\ study' = study /\ step' = step /\ pc' = "done"
      /\ applied' = applied /\ queue' = queue /\ head' = head /\ held' = held
      /\ ticks' = ticks /\ pending' = pending /\ latest' = latest
  BY DEF CloseSampled, loopVars, sensorVars, Goto
<1>2. TypeOK'
  BY <1>0, <1>1 DEF TypeOK
<1>3. state' = Declared[step] /\ Declared[step] \in Seq(Deed)
  BY <1>0, DeclaredRun DEF CloseSampled
<1>4. Clock'
  BY <1>0, <1>1 DEF Clock, Multiples
<1>5. Line'
  BY <1>1, LineKept DEF Invariant
<1>6. applied = Command(Steps - 1)
  <2>1. Steps - 1 \in Nat /\ (Steps - 1) + 1 = Steps /\ study.way # "plant"
    BY <1>0
  <2>2. Len(ticks) = Multiples(study.period, (Steps - 1) + 1)
    BY <1>0, <2>1
  <2> QED
    BY <1>0, <2>1, <2>2, AppliedCommand DEF Invariant
<1>7. SampledStored'
  <2>1. PICK e : e = [at |-> step, state |-> Declared[step], command |-> applied]
    OBVIOUS
  <2>2. e \in SampleRecord /\ e.at = step /\ e.state = Declared[step] /\ e.command = applied
    <3>1. applied \in Nat \cup {None}
      <4>1. Steps - 1 \in Nat
        BY <1>0
      <4> QED
        BY <1>0, <1>6, <4>1, DeedsType
    <3> QED
      BY <1>0, <1>3, <2>1, <3>1 DEF SampleRecord
  <2>3. stored' = Append(stored, e)
    BY <1>3, <2>1 DEF CloseSampled
  <2> QED
    BY <1>0, <1>1, <2>2, <2>3, SampledAppend DEF Invariant
<1>8. Held' /\ LoopStored' /\ Plant' /\ SensorLine'
  BY <1>0, <1>1 DEF Held, LoopStored, Plant, SensorLine
<1>9. ControllerSeesItsReading'
  BY <1>1, SeesKept DEF Invariant
<1> QED
  BY <1>2, <1>4, <1>5, <1>7, <1>8, <1>9 DEF Invariant

(* A piece of the run between two changes is flown in one go.              *)
LEMMA FlownPiece ==
  ASSUME study \in Study, NEW n \in 0..Steps, NEW m \in n..Steps,
         \A k \in n..(m - 1) : Command(k) = Command(n),
         \A c \in study.winds : ~ (n < c /\ c < m)
  PROVE  /\ n < m => Flown(Declared[n], m - n, Command(n), Wind(n)) = Arrived(m)
         /\ n = m => Flown(Declared[n], m - n, Command(n), Wind(n)) = Declared[m]
         /\ \A j \in 0..(m - n) : j < m - n =>
              Flown(Declared[n], j, Command(n), Wind(n)) = Declared[n + j]
<1>0. n \in Nat /\ m \in Nat /\ Steps \in Nat /\ m <= Steps /\ n <= m
  BY BoundsAssumption
<1>1. PICK c, w : c = Command(n) /\ w = Wind(n)
  OBVIOUS
<1>2. ASSUME NEW k \in n..(m - 1)
      PROVE  Wind(k) = Wind(n)
  <2>1. k \in Nat /\ n <= k /\ k < m
    BY <1>0
  <2>2. \A l \in study.winds : ~ (n < l /\ l <= k)
    <3>1. \A l \in study.winds : l \in Nat
      BY <1>0, StudyShape
    <3> QED
      BY <1>0, <2>1, <3>1
  <2>3. study.winds \subseteq 0..Steps
    BY StudyShape
  <2> QED
    BY <1>0, <2>1, <2>2, <2>3, InForceSteady DEF Wind
<1>3. \A k \in n..(m - 1) : Command(k) = c /\ Wind(k) = w
  BY <1>1, <1>2
<1>4. \A k \in (n + 1)..(m - 1) : k \notin study.winds
  <2>1. \A k \in (n + 1)..(m - 1) : n < k /\ k < m
    BY <1>0
  <2> QED
    BY <2>1
<1>5. \A j \in 0..(m - n) : j > 0 => Flown(Declared[n], j, c, w) = Arrived(n + j)
  BY <1>3, <1>4, FlownRun
<1>6. \A j \in 0..(m - n) : j < m - n => Flown(Declared[n], j, c, w) = Declared[n + j]
  BY <1>3, <1>4, FlownRun
<1>7. ASSUME n < m
      PROVE  Flown(Declared[n], m - n, c, w) = Arrived(m)
  <2>1. m - n \in 0..(m - n) /\ m - n > 0 /\ n + (m - n) = m
    BY <1>0, <1>7
  <2> QED
    BY <1>5, <2>1
<1>8. ASSUME n = m
      PROVE  Flown(Declared[n], m - n, c, w) = Declared[m]
  <2>1. m - n = 0
    BY <1>0, <1>8
  <2>2. PICK s \in Seq(Deed), e \in Deed : s = Declared[n] /\ e = [command |-> c, wind |-> w]
    BY <1>0, <1>1, DeclaredRun, DeedsType DEF Deeds
  <2>3. e = [command |-> c, wind |-> w] /\ 0 \in Nat
    BY <2>2
  <2>4. Flown(s, 0, c, w) = s
    BY <2>3, FlownOn
  <2> QED
    BY <1>8, <2>1, <2>2, <2>4
<1> QED
  BY <1>1, <1>6, <1>7, <1>8

(* Where sim.sampled splits the hold: at the next change or at the end.    *)
HoldEnd(n) == PeriodEnd(n, study.period)

HoldStop(n) ==
  Min({HoldEnd(n)} \cup {c \in study.winds : n < c /\ c < HoldEnd(n)})

(* It gets on, does not pass the end of its period or of the run, and      *)
(* passes no change.                                                       *)
LEMMA HoldSplit ==
  ASSUME study \in Study, study.way = "sampled", NEW n \in Nat, n < Steps
  PROVE  /\ HoldStop(n) \in n..Steps /\ n < HoldStop(n) /\ HoldStop(n) <= HoldEnd(n)
         /\ HoldEnd(n) \in Nat /\ HoldEnd(n) <= Steps /\ n \in 0..Steps
         /\ \A c \in study.winds : ~ (n < c /\ c < HoldStop(n))
<1>1. PICK q \in Nat \ {0} : study.period = q /\ Steps % q = 0
  BY StudyShape
<1>2. Steps \in Nat /\ study.winds \subseteq Nat
  BY BoundsAssumption, StudyShape
<1>3. PICK end : end = PeriodEnd(n, q) /\ end = HoldEnd(n)
  BY <1>1 DEF HoldEnd
<1>4. end \in Nat /\ n < end
  BY <1>3, PeriodEnds
<1>5. end <= Steps
  <2>1. PeriodEnd(n, q) <= Steps
    BY <1>1, <1>2, PeriodEnds
  <2> QED
    BY <1>3, <2>1
<1>6. PICK S : S = {end} \cup {c \in study.winds : n < c /\ c < end}
  OBVIOUS
<1>a. PICK stop : stop = HoldStop(n)
  OBVIOUS
<1>7. S \subseteq Nat /\ S # {} /\ end \in S /\ stop = Min(S)
  BY <1>2, <1>3, <1>4, <1>6, <1>a DEF HoldStop
<1>8. stop \in S /\ \A c \in S : stop <= c
  BY <1>7, Smallest
<1>9. n < stop /\ stop <= end /\ stop \in Nat
  BY <1>4, <1>6, <1>7, <1>8
<1>10. ASSUME NEW c \in study.winds, n < c, c < stop
       PROVE  FALSE
  <2>1. c \in Nat /\ c < end
    BY <1>2, <1>4, <1>9, <1>10
  <2>2. c \in S
    BY <1>6, <1>10, <2>1
  <2> QED
    BY <1>8, <1>9, <1>10, <2>1, <2>2
<1> QED
  BY <1>2, <1>3, <1>4, <1>5, <1>a, <1>9, <1>10

(* A piece of a hold of sim.sampled.                                       *)
LEMMA HoldStep ==
  ASSUME Invariant, Hold
  PROVE  Invariant'
<1>0. /\ study \in Study /\ step \in 0..Steps /\ Steps \in Nat \ {0} /\ step \in Nat
      /\ study.way = "sampled" /\ pc = "step" /\ state = Declared[step] /\ step < Steps
      /\ Len(ticks) = Multiples(study.period, step + 1)
  BY BoundsAssumption DEF Invariant, TypeOK, Clock, Hold
<1>1. /\ study' = study /\ stored' = stored
      /\ applied' = applied /\ queue' = queue /\ head' = head /\ held' = held
      /\ ticks' = ticks /\ pending' = pending /\ latest' = latest
  BY DEF Hold, loopVars, sensorVars
<1>2. PICK p \in Nat \ {0} : p = study.period
  BY <1>0, StudyShape
<1>3. PICK end : end = HoldEnd(step)
  OBVIOUS
<1>4. PICK stop : stop = HoldStop(step)
  OBVIOUS
<1>5. /\ stop \in step..Steps /\ step < stop /\ stop <= end /\ end \in Nat /\ step \in 0..Steps
      /\ \A c \in study.winds : ~ (step < c /\ c < stop)
      /\ end <= Steps
  BY <1>0, <1>3, <1>4, HoldSplit
<1>6. stop \in 0..Steps /\ stop \in Nat
  BY <1>0, <1>5
<1>7. applied = Command(step) /\ study.way # "plant"
  <2>1. study.way # "plant" /\ Line
    BY <1>0 DEF Invariant
  <2> QED
    BY <1>0, <2>1, AppliedCommand
<1>8. /\ end % p = 0 /\ end \div p = step \div p + 1
      /\ \A k \in step..(end - 1) : k \div p = step \div p
      /\ \A k \in (step + 1)..(end - 1) : k % p # 0
  <2>1. PICK n \in Nat : n = step
    BY <1>0
  <2>2. end = PeriodEnd(n, p)
    BY <1>2, <1>3, <2>1 DEF HoldEnd
  <2>3. PeriodEnd(n, p) % p = 0 /\ PeriodEnd(n, p) \div p = n \div p + 1
    BY PeriodEnds
  <2>4. \A k \in n..(PeriodEnd(n, p) - 1) : k \div p = n \div p
    BY PeriodEnds
  <2>5. \A k \in (n + 1)..(PeriodEnd(n, p) - 1) : k % p # 0
    BY PeriodEnds
  <2> QED
    BY <2>1, <2>2, <2>3, <2>4, <2>5
<1>9. \A k \in step..(stop - 1) : Command(k) = Command(step)
  <2>1. ASSUME NEW k \in step..(stop - 1)
        PROVE  Command(k) = Command(step)
    <3>1. k \in step..(end - 1) /\ k \in Nat
      BY <1>0, <1>5, <1>6
    <3>2. k \div p = step \div p
      BY <1>8, <3>1
    <3> QED
      BY <1>2, <1>7, <3>2 DEF Command
  <2> QED
    BY <2>1
<1>10. Flown(state, stop - step, applied, InForce(study.winds, step)) = Arrived(stop)
  <2>1. Flown(Declared[step], stop - step, Command(step), Wind(step)) = Arrived(stop)
    BY <1>0, <1>5, <1>9, FlownPiece
  <2> QED
    BY <1>0, <1>7, <2>1 DEF Wind
<1>11. /\ step' = stop
       /\ state' = IF stop < end THEN Rebased(Arrived(stop), stop) ELSE Arrived(stop)
       /\ pc' = IF stop < end THEN "step" ELSE "boundary"
  <2>1. /\ state' = IF stop < end
                    THEN Rebased(Flown(state, stop - step, applied, InForce(study.winds, step)), stop)
                    ELSE Flown(state, stop - step, applied, InForce(study.winds, step))
        /\ step' = stop
        /\ pc' = IF stop < end THEN "step" ELSE "boundary"
    BY <1>3, <1>4 DEF Hold, Goto, HoldEnd, HoldStop, PeriodEnd
  <2> QED
    BY <1>10, <2>1
<1>12. TypeOK'
  BY <1>0, <1>1, <1>6, <1>11 DEF TypeOK
<1>13. Len(ticks) = step \div p + 1
  BY <1>0, <1>2, CountMultiples
<1>14. Clock'
  <2>1. CASE stop < end
    <3>1. state' = Declared[stop]
      BY <1>0, <1>6, <1>11, <2>1, DeclaredRun
    <3>2. (state = Declared[step])'
      BY <1>1, <1>11, <3>1, StudyFixed
    <3>3. stop \in step..(end - 1) /\ stop < Steps
      BY <1>0, <1>5, <1>6, <2>1
    <3>4. Multiples(p, stop + 1) = step \div p + 1
      <4>1. Multiples(p, stop + 1) = stop \div p + 1
        BY <1>6, CountMultiples
      <4> QED
        BY <1>8, <3>3, <4>1
    <3>5. (Len(ticks) = Multiples(study.period, step + 1))'
      BY <1>1, <1>2, <1>11, <1>13, <3>4 DEF Multiples
    <3> QED
      BY <1>0, <1>1, <1>11, <2>1, <3>2, <3>3, <3>5 DEF Clock
  <2>2. CASE ~ (stop < end)
    <3>1. stop = end
      BY <1>5, <1>6, <2>2
    <3>2. (state = Arrived(step))'
      BY <1>1, <1>11, <2>2, StudyFixed
    <3>3. Multiples(p, stop) = step \div p + 1 /\ stop % p = 0
      <4>1. Multiples(p, stop) = stop \div p
        BY <1>6, <1>8, <3>1, CountMultiples
      <4> QED
        BY <1>8, <3>1, <4>1
    <3>4. (Len(ticks) = Multiples(study.period, step))'
      BY <1>1, <1>2, <1>11, <1>13, <3>3 DEF Multiples
    <3> QED
      BY <1>0, <1>1, <1>2, <1>11, <2>2, <3>2, <3>3, <3>4 DEF Clock
  <2> QED
    BY <2>1, <2>2
<1>15. Line'
  BY <1>1, LineKept DEF Invariant
<1>16. SampledStored'
  <2>1. /\ stored \in Seq(SampleRecord)
        /\ \A i \in 1..Len(stored) : SampledSample(stored[i])
        /\ {stored[i].at : i \in 1..Len(stored)} = {n \in 0..step : n % study.period = 0}
    BY <1>0 DEF SampledStored, Invariant
  <2>2. PICK st : st = stored /\ st = stored'
    BY <1>1
  <2>3. ASSUME NEW i \in 1..Len(st)
        PROVE  SampledSample(st[i])'
    <3>1. PICK r : r = st[i] /\ SampledSample(r)
      BY <2>1, <2>2
    <3>2. Declared' = Declared /\ Command(r.at)' = Command(r.at)
      BY <1>1, StudyFixed
    <3>3. SampledSample(r)'
      BY <1>1, <3>1, <3>2 DEF SampledSample
    <3> QED
      BY <3>1, <3>3
  <2>4. {n \in 0..step : n % p = 0}
          = {n \in 0..stop : n % p = 0 /\ (n = stop => stop < end)}
    <3>1. ASSUME NEW n \in 0..step, n % p = 0
          PROVE  n \in 0..stop /\ n # stop
      BY <1>0, <1>5, <1>6
    <3>2. ASSUME NEW n \in 0..stop, n % p = 0, n = stop => stop < end
          PROVE  n \in 0..step
      <4>1. CASE n \in (step + 1)..(end - 1)
        BY <1>8, <3>2, <4>1
      <4>2. CASE n \notin (step + 1)..(end - 1)
        <5>1. n \in Nat /\ n <= stop /\ (n <= step \/ n >= end)
          BY <1>0, <1>5, <1>6, <4>2
        <5>2. ~ (n >= end)
          BY <1>5, <1>6, <3>2, <5>1
        <5> QED
          BY <1>0, <5>1, <5>2
      <4> QED
        BY <4>1, <4>2
    <3> QED
      BY <3>1, <3>2
  <2>5. (stored \in Seq(SampleRecord))'
    BY <1>1, <2>1 DEF SampleRecord
  <2>6. (\A i \in 1..Len(stored) : SampledSample(stored[i]))'
    BY <2>2, <2>3
  <2>7. ({stored[i].at : i \in 1..Len(stored)})'
          = ({n \in 0..step : n % study.period = 0 /\ (n = step => pc # "boundary")})'
    <3>1. pc' # "boundary" <=> stop < end
      BY <1>11
    <3> QED
      BY <1>1, <1>2, <1>11, <2>1, <2>4, <3>1
  <2> QED
    BY <2>5, <2>6, <2>7 DEF SampledStored
<1>17. Held' /\ LoopStored' /\ Plant' /\ SensorLine'
  BY <1>0, <1>1 DEF Held, LoopStored, Plant, SensorLine
<1>18. ControllerSeesItsReading'
  BY <1>1, SeesKept DEF Invariant
<1> QED
  BY <1>12, <1>14, <1>15, <1>16, <1>17, <1>18 DEF Invariant

(* The states kept up to one boundary, and those from there to the next.   *)
LEMMA KeptOn ==
  ASSUME NEW a \in Nat, NEW b \in Nat
  PROVE  LET s == [i \in 1..a |-> [at |-> i - 1, state |-> Declared[i - 1]]]
             u == [i \in 1..b |-> [at |-> a + i - 1, state |-> Declared[a + i - 1]]]
         IN /\ Len(s \o u) = a + b
            /\ s \o u = [i \in 1..(a + b) |-> [at |-> i - 1, state |-> Declared[i - 1]]]
<1> DEFINE kept(n) == [at |-> n, state |-> Declared[n]]
           T == {kept(n) : n \in Nat}
<1>0. PICK s, u : s = [i \in 1..a |-> kept(i - 1)] /\ u = [i \in 1..b |-> kept(a + i - 1)]
  OBVIOUS
<1>a. \A n \in Nat : kept(n) \in T
  OBVIOUS
<1> HIDE DEF kept, T
<1>1. \A i \in 1..a : s[i] = kept(i - 1)
  BY <1>0
<1>2. \A i \in 1..b : u[i] = kept(a + i - 1)
  BY <1>0
<1>4. /\ s \in Seq(T) /\ Len(s) = a
      /\ u \in Seq(T) /\ Len(u) = b
  <2>1. s \in Seq(T) /\ Len(s) = a
    <3>1. \A i \in 1..a : i - 1 \in Nat
      OBVIOUS
    <3>2. \A i \in 1..a : s[i] \in T
      BY <1>a, <1>1, <3>1
    <3>3. s = [i \in 1..a |-> s[i]]
      BY <1>0
    <3>4. PICK s1 \in [1..a -> T] : s1 = s
      BY <3>2, <3>3
    <3>5. s1 \in Seq(T) /\ Len(s1) = a
      OBVIOUS
    <3> QED
      BY <3>4, <3>5
  <2>2. u \in Seq(T) /\ Len(u) = b
    <3>1. \A i \in 1..b : a + i - 1 \in Nat
      OBVIOUS
    <3>2. ASSUME NEW i \in 1..b
          PROVE  u[i] \in T
      <4>1. PICK n \in Nat : n = a + i - 1
        BY <3>1
      <4>2. u[i] = kept(n) /\ kept(n) \in T
        BY <1>a, <1>2, <4>1
      <4> QED
        BY <4>2
    <3>3. u = [i \in 1..b |-> u[i]]
      BY <1>0
    <3>4. PICK u1 \in [1..b -> T] : u1 = u
      BY <3>2, <3>3
    <3>5. u1 \in Seq(T) /\ Len(u1) = b
      OBVIOUS
    <3> QED
      BY <3>4, <3>5
  <2> QED
    BY <2>1, <2>2
<1>5. PICK v \in Seq(T) :
        /\ v = s \o u /\ Len(v) = a + b
        /\ \A i \in 1..(a + b) : v[i] = IF i <= a THEN s[i] ELSE u[i - a]
  <2>1. PICK v : v = s \o u
    OBVIOUS
  <2>2. v \in Seq(T) /\ Len(v) = Len(s) + Len(u)
    BY <1>4, <2>1, ConcatProperties
  <2>3. \A i \in 1..(Len(s) + Len(u)) : v[i] = IF i <= Len(s) THEN s[i] ELSE u[i - Len(s)]
    BY <1>4, <2>1, ConcatProperties
  <2> QED
    BY <1>4, <2>1, <2>2, <2>3
<1>6. ASSUME NEW i \in 1..(a + b)
      PROVE  v[i] = kept(i - 1)
  <2>1. CASE i <= a
    <3>1. i \in 1..a
      BY <2>1
    <3> QED
      BY <1>1, <1>5, <2>1, <3>1
  <2>2. CASE ~ (i <= a)
    <3>1. i - a \in 1..b /\ a + (i - a) - 1 = i - 1
      BY <2>2
    <3> QED
      BY <1>2, <1>5, <2>2, <3>1
  <2> QED
    BY <2>1, <2>2
<1>7. v = [i \in 1..(a + b) |-> kept(i - 1)]
  <2>1. v = [i \in 1..(a + b) |-> v[i]]
    <3>1. v = [i \in DOMAIN v |-> v[i]] /\ DOMAIN v = 1..Len(v)
      BY LenProperties
    <3> QED
      BY <1>5, <3>1
  <2>2. [i \in 1..(a + b) |-> v[i]] = [i \in 1..(a + b) |-> kept(i - 1)]
    BY <1>6
  <2> QED
    BY <2>1, <2>2
<1>8. /\ Len(s \o u) = a + b
      /\ s \o u = [i \in 1..(a + b) |-> kept(i - 1)]
  BY <1>5, <1>7
<1> QED
  BY <1>0, <1>8 DEF kept

(* The changes of wind or command sim.plant has not come to, and where it  *)
(* splits the integration: at the next one or at the end.                  *)
Later(n) == {c \in Changes : n < c}

SegmentStop(n) == IF Later(n) = {} THEN Steps ELSE Min(Later(n))

(* It passes no change, and those after it are the ones left.              *)
LEMMA SegmentSplit ==
  ASSUME study \in Study, study.way = "plant", NEW n \in 0..Steps
  PROVE  /\ SegmentStop(n) \in n..Steps /\ SegmentStop(n) \in 0..Steps
         /\ Later(n) # {} => n < SegmentStop(n)
         /\ \A c \in Changes : ~ (n < c /\ c < SegmentStop(n))
         /\ Later(n) = {} /\ n # SegmentStop(n) => SegmentStop(n) \notin study.winds
         /\ Later(n) \ {SegmentStop(n)} = Later(SegmentStop(n))
<1>0. n \in Nat /\ Steps \in Nat /\ n <= Steps /\ Changes \subseteq 0..Steps
  BY BoundsAssumption, StudyShape DEF Changes
<1> DEFINE later == Later(n)
           stop  == SegmentStop(n)
<1>a. later = {c \in Changes : n < c} /\ stop = IF later = {} THEN Steps ELSE Min(later)
  BY DEF Later, SegmentStop
<1>b. Later(stop) = {c \in Changes : stop < c}
  BY DEF Later
<1> HIDE DEF later, stop
<1>1. later \subseteq 0..Steps /\ later \subseteq Nat
  <2>1. later \subseteq Changes
    BY <1>a
  <2>2. 0..Steps \subseteq Nat
    BY <1>0
  <2> QED
    BY <1>0, <2>1, <2>2
<1>2. CASE later = {}
  <2>1. stop = Steps
    BY <1>2, <1>a
  <2>2. \A c \in Changes : ~ (n < c)
    BY <1>2, <1>a
  <2>3. \A c \in Changes : ~ (Steps < c)
    BY <1>0
  <2>4. n # stop => stop \notin study.winds
    <3>1. n # stop => n < stop
      BY <1>0, <2>1
    <3> QED
      BY <2>2, <3>1 DEF Changes
  <2>5. later \ {stop} = {c \in Changes : stop < c}
    BY <1>2, <2>1, <2>3
  <2>6. stop \in n..Steps /\ stop \in 0..Steps
    BY <1>0, <2>1
  <2> QED
    BY <1>b, <1>2, <2>2, <2>4, <2>5, <2>6 DEF later, stop
<1>3. CASE later # {}
  <2>1. stop = Min(later)
    BY <1>3, <1>a
  <2>2. Min(later) \in later /\ \A c \in later : Min(later) <= c
    BY <1>1, <1>3, Smallest
  <2>3. stop \in later /\ \A c \in later : stop <= c
    BY <2>1, <2>2
  <2>4. stop \in Nat /\ n < stop /\ stop <= Steps /\ stop \in Changes
    BY <1>0, <1>1, <1>a, <2>3
  <2>5. ASSUME NEW c \in Changes
        PROVE  ~ (n < c /\ c < stop)
    <3>1. c \in Nat
      BY <1>0
    <3> QED
      BY <1>a, <2>3, <2>4, <3>1
  <2>6. later \ {stop} = {c \in Changes : stop < c}
    <3>1. ASSUME NEW c \in Changes
          PROVE  (n < c /\ c # stop) <=> stop < c
      <4>1. c \in Nat
        BY <1>0
      <4> QED
        BY <1>0, <1>a, <2>3, <2>4, <4>1
    <3> QED
      BY <1>a, <3>1
  <2>7. stop \in n..Steps /\ stop \in 0..Steps
    BY <1>0, <2>4
  <2> QED
    BY <1>b, <1>3, <2>4, <2>5, <2>6, <2>7 DEF later, stop
<1> QED
  BY <1>2, <1>3

(* A segment of sim.plant.                                                 *)
LEMMA SegmentStep ==
  ASSUME Invariant, Segment
  PROVE  Invariant'
<1>0. /\ study \in Study /\ step \in 0..Steps /\ Steps \in Nat \ {0} /\ step \in Nat
      /\ study.way = "plant" /\ pc = "segment" /\ ticks = <<>> /\ Changes \subseteq 0..Steps
  BY BoundsAssumption, StudyShape DEF Invariant, TypeOK, Plant, Segment, Changes
<1>1. /\ study' = study /\ ticks' = ticks
      /\ pc' = IF boundaries = {} THEN "close" ELSE "segment"
  BY DEF Segment, loopVars, Goto
<1>2. Changes' = Changes /\ Declared' = Declared
  BY <1>1, StudyFixed DEF Changes
<1>3. PICK stop, c, w, reached :
        /\ stop = IF boundaries = {} THEN Steps ELSE Min(boundaries)
        /\ c = InForce(study.orders, step) /\ w = InForce(study.winds, step)
        /\ reached = Flown(state, stop - step, c, w)
  OBVIOUS
<1>4. /\ stored' = stored \o [i \in 1..(stop - step) |->
                                [at |-> step + i - 1, state |-> Flown(state, i - 1, c, w)]]
      /\ state' = IF boundaries = {} THEN reached ELSE Rebased(reached, stop)
      /\ step' = stop
      /\ boundaries' = boundaries \ {stop}
  BY <1>3 DEF Segment
<1>5. c = Command(step) /\ w = Wind(step)
  BY <1>0, <1>3 DEF Command, Wind
<1>6. /\ stop \in 0..Steps
      /\ boundaries' = {b \in Changes : stop < b} /\ state' = Declared[stop]
      /\ (stored' = [i \in 1..stop |-> [at |-> i - 1, state |-> Declared[i - 1]]] /\ Len(stored') = stop)
      /\ boundaries = {} => stop = Steps
  <2>1. CASE step = 0 /\ 0 \in Changes /\ boundaries = Changes /\ state = <<>> /\ Kept(0)
    <3>1. stop = 0
      <4>1. Changes \subseteq Nat /\ Changes # {}
        BY <1>0, <2>1
      <4>2. Min(Changes) \in Changes /\ \A b \in Changes : Min(Changes) <= b
        BY <4>1, Smallest
      <4>3. Min(Changes) <= 0 /\ Min(Changes) \in Nat
        BY <2>1, <4>1, <4>2
      <4> QED
        BY <1>3, <2>1, <4>3
    <3>2. 0 \in 0..Steps /\ 0 - 0 = 0
      BY <1>0
    <3>3. state' = Declared[0]
      <4>1. PICK e \in Deed : e = [command |-> c, wind |-> w]
        BY <1>0, <1>5, DeedsType DEF Deeds
      <4>2. <<>> \in Seq(Deed) /\ 0 \in Nat
        OBVIOUS
      <4>3. Flown(<<>>, 0, c, w) = <<>>
        BY <4>1, <4>2, FlownOn
      <4>4. state' = Rebased(<<>>, 0)
        BY <1>3, <1>4, <2>1, <3>1, <3>2, <4>3
      <4>5. Declared[0] = Rebased(Arrived(0), 0)
        BY <1>0, <3>2, DeclaredRun
      <4> QED
        BY <4>4, <4>5 DEF Arrived
    <3>4. stored' = <<>>
      <4>1. stored = <<>>
        BY <2>1 DEF Kept
      <4>2. PICK u : u = [i \in 1..(stop - step) |->
                            [at |-> step + i - 1, state |-> Flown(state, i - 1, c, w)]]
        OBVIOUS
      <4>3. stop - step = 0
        BY <2>1, <3>1
      <4>4. u = <<>>
        BY <4>2, <4>3
      <4> QED
        BY <1>4, <4>1, <4>2, <4>4
    <3>5. boundaries' = {b \in Changes : 0 < b}
      <4>1. \A b \in Changes : b # 0 <=> 0 < b
        BY <1>0
      <4> QED
        BY <1>4, <2>1, <3>1, <4>1
    <3>6. <<>> = [i \in 1..0 |-> [at |-> i - 1, state |-> Declared[i - 1]]] /\ Len(<<>>) = 0
      OBVIOUS
    <3> QED
      BY <2>1, <3>1, <3>2, <3>3, <3>4, <3>5, <3>6
  <2>2. CASE boundaries = {b \in Changes : step < b} /\ state = Declared[step] /\ Kept(step)
    <3>1. PICK later : later = boundaries /\ later = {b \in Changes : step < b}
      BY <2>2
    <3>2. later = Later(step) /\ stop = SegmentStop(step)
      BY <1>3, <3>1 DEF Later, SegmentStop
    <3>3. /\ stop \in step..Steps /\ stop \in 0..Steps
          /\ later # {} => step < stop
          /\ \A b \in Changes : ~ (step < b /\ b < stop)
          /\ later = {} /\ step # stop => stop \notin study.winds
          /\ later \ {stop} = {b \in Changes : stop < b}
      <4>1. Later(stop) = {b \in Changes : stop < b}
        BY DEF Later
      <4> QED
        BY <1>0, <3>2, <4>1, SegmentSplit
    <3>4. stop \in Nat /\ step <= stop
      BY <1>0, <3>3
    <3>5. \A k \in step..(stop - 1) : Command(k) = Command(step)
      <4>1. ASSUME NEW k \in step..(stop - 1)
            PROVE  Command(k) = Command(step)
        <5>1. k \in Nat /\ step <= k /\ k < stop
          BY <1>0, <3>4
        <5>2. study.orders \subseteq 0..Steps
          BY <1>0, StudyShape
        <5>3. \A b \in study.orders : ~ (step < b /\ b <= k)
          <6>1. \A b \in study.orders : b \in Nat /\ ~ (step < b /\ b < stop)
            BY <1>0, <3>3 DEF Changes
          <6> QED
            BY <3>4, <5>1, <6>1
        <5>4. InForce(study.orders, k) = InForce(study.orders, step)
          BY <1>0, <5>1, <5>2, <5>3, InForceSteady
        <5> QED
          BY <1>0, <5>4 DEF Command
      <4> QED
        BY <4>1
    <3>6. \A b \in study.winds : ~ (step < b /\ b < stop)
      BY <3>3 DEF Changes
    <3>7. /\ step < stop => Flown(Declared[step], stop - step, c, w) = Arrived(stop)
          /\ step = stop => Flown(Declared[step], stop - step, c, w) = Declared[stop]
          /\ \A j \in 0..(stop - step) : j < stop - step =>
               Flown(Declared[step], j, c, w) = Declared[step + j]
      BY <1>0, <1>5, <3>3, <3>5, <3>6, FlownPiece
    <3>8. state' = Declared[stop]
      <4>1. Declared[stop] = Rebased(Arrived(stop), stop)
        BY <1>0, <3>3, DeclaredRun
      <4>2. reached = Flown(Declared[step], stop - step, c, w)
        BY <1>3, <2>2
      <4>3. CASE later # {}
        BY <1>4, <3>1, <3>3, <3>7, <4>1, <4>2, <4>3
      <4>4. CASE later = {} /\ step = stop
        BY <1>4, <3>1, <3>7, <4>2, <4>4
      <4>5. CASE later = {} /\ step # stop
        <5>1. Declared[stop] = Arrived(stop)
          BY <3>3, <4>1, <4>5 DEF Rebased
        <5>2. step < stop
          BY <1>0, <3>4, <4>5
        <5> QED
          BY <1>4, <3>1, <3>7, <4>2, <4>5, <5>1, <5>2
      <4> QED
        BY <4>3, <4>4, <4>5
    <3>9. PICK a \in Nat, b \in Nat : a = step /\ b = stop - step /\ a + b = stop
      <4>1. stop - step \in Nat /\ step + (stop - step) = stop
        BY <1>0, <3>4
      <4> QED
        BY <1>0, <4>1
    <3>10. PICK u : u = [i \in 1..b |-> [at |-> a + i - 1, state |-> Declared[a + i - 1]]]
      OBVIOUS
    <3>11. stored' = stored \o u
      <4>1. ASSUME NEW i \in 1..b
            PROVE  Flown(state, i - 1, c, w) = Declared[a + i - 1]
        <5>1. i - 1 \in 0..(stop - step) /\ i - 1 < stop - step /\ step + (i - 1) = a + i - 1
          BY <3>9
        <5> QED
          BY <2>2, <3>7, <5>1
      <4>2. [i \in 1..b |-> [at |-> a + i - 1, state |-> Flown(state, i - 1, c, w)]] = u
        BY <3>10, <4>1
      <4>3. stored' = stored \o [i \in 1..b |-> [at |-> a + i - 1, state |-> Flown(state, i - 1, c, w)]]
        BY <1>4, <3>9
      <4> QED
        BY <4>2, <4>3
    <3>12. stored' = [i \in 1..stop |-> [at |-> i - 1, state |-> Declared[i - 1]]] /\ Len(stored') = stop
      <4>1. PICK s : s = stored /\ s = [i \in 1..a |-> [at |-> i - 1, state |-> Declared[i - 1]]]
        BY <2>2, <3>9 DEF Kept
      <4>2. /\ Len(s \o u) = a + b
            /\ s \o u = [i \in 1..(a + b) |-> [at |-> i - 1, state |-> Declared[i - 1]]]
        BY <3>10, <4>1, KeptOn
      <4> QED
        BY <3>9, <3>11, <4>1, <4>2
    <3>13. boundaries' = {d \in Changes : stop < d}
      BY <1>4, <3>1, <3>3
    <3>14. boundaries = {} => stop = Steps
      BY <1>3
    <3> QED
      BY <3>3, <3>8, <3>12, <3>13, <3>14
  <2> QED
    BY <1>0, <2>1, <2>2 DEF Invariant, Plant
<1>7. TypeOK'
  BY <1>0, <1>1, <1>4, <1>6 DEF TypeOK
<1>8. Kept(stop)'
  BY <1>2, <1>6 DEF Kept
<1>9. Plant'
  <2>1. (boundaries = {b \in Changes : step < b} /\ state = Declared[step] /\ Kept(step))'
    BY <1>2, <1>4, <1>6, <1>8 DEF Kept
  <2>2. pc' = "close" => step' = Steps
    BY <1>1, <1>4, <1>6
  <2>3. pc' \in {"close", "segment"} /\ ticks' = <<>>
    BY <1>0, <1>1
  <2>4. pc' = "close" => (state = Declared[Steps] /\ Kept(Steps))'
    BY <1>2, <1>4, <1>6, <1>8, <2>2 DEF Kept
  <2> QED
    BY <2>1, <2>2, <2>3, <2>4 DEF Plant
<1>10. Clock' /\ Line' /\ Held' /\ LoopStored' /\ SampledStored' /\ SensorLine'
  BY <1>0, <1>1 DEF Clock, Line, Held, LoopStored, SampledStored, SensorLine
<1>11. ControllerSeesItsReading'
  BY <1>1, SeesKept DEF Invariant
<1> QED
  BY <1>7, <1>9, <1>10, <1>11 DEF Invariant

(* The end of sim.plant keeps of its states those of the lattice.          *)
LEMMA ClosePlantStep ==
  ASSUME Invariant, ClosePlant
  PROVE  Invariant'
<1>0. /\ study \in Study /\ step = Steps /\ Steps \in Nat \ {0}
      /\ study.way = "plant" /\ pc = "close" /\ ticks = <<>>
      /\ state = Declared[Steps] /\ Kept(Steps)
  BY BoundsAssumption, StudyShape DEF Invariant, TypeOK, Plant, ClosePlant
<1>1. study' = study /\ step' = step /\ ticks' = ticks /\ pc' = "done"
  BY DEF ClosePlant, loopVars, Goto
<1>2. TypeOK'
  BY <1>0, <1>1 DEF TypeOK
<1>3. PICK result : result = stored' /\ result = Subsampled(Append(stored, [at |-> Steps, state |-> state]))
  BY DEF ClosePlant
<1>4. /\ \A j \in DOMAIN result : /\ result[j].command = Command(result[j].at)
                                  /\ result[j].state = Declared[result[j].at]
      /\ {result[j].at : j \in DOMAIN result} = {n \in 0..Steps : n = Steps \/ n % Stride = 0}
  BY <1>0, <1>3, PlantExport
<1>5. ExportIsTheDeclaredRun'
  <2>1. Declared' = Declared /\ Stride' = Stride /\ \A n : Command(n)' = Command(n)
    BY <1>1, StudyFixed
  <2>2. (\A i \in DOMAIN stored : /\ stored[i].command = Command(stored[i].at)
                                  /\ stored[i].state = Declared[stored[i].at])'
    BY <1>3, <1>4, <2>1
  <2>3. ({stored[i].at : i \in DOMAIN stored})' = ({n \in 0..step : n = Steps \/ n % Stride = 0})'
    BY <1>0, <1>1, <1>3, <1>4, <2>1
  <2>4. study'.way = "plant"
    BY <1>0, <1>1
  <2> QED
    BY <2>2, <2>3, <2>4 DEF ExportIsTheDeclaredRun
<1>6. Plant'
  BY <1>0, <1>1, <1>5 DEF Plant
<1>7. Clock' /\ Line' /\ Held' /\ LoopStored' /\ SampledStored' /\ SensorLine'
  BY <1>0, <1>1 DEF Clock, Line, Held, LoopStored, SampledStored, SensorLine
<1>8. ControllerSeesItsReading'
  BY <1>1, SeesKept DEF Invariant
<1> QED
  BY <1>2, <1>6, <1>7, <1>8 DEF Invariant

(* Nothing happens while no program acts.                                  *)
LEMMA StutterStep ==
  ASSUME Invariant, UNCHANGED vars
  PROVE  Invariant'
<1>1. /\ study' = study /\ pc' = pc /\ step' = step /\ state' = state
      /\ boundaries' = boundaries /\ applied' = applied /\ queue' = queue /\ head' = head
      /\ pending' = pending /\ latest' = latest /\ held' = held /\ ticks' = ticks
      /\ stored' = stored
  BY DEF vars, loopVars, sensorVars
<1>2. /\ Declared' = Declared /\ Changes' = Changes
      /\ \A n : Command(n)' = Command(n) /\ Arrived(n)' = Arrived(n)
  BY <1>1, StudyFixed DEF Changes
<1>3. TypeOK' /\ Held'
  BY <1>1 DEF Invariant, TypeOK, Held
<1>4. Clock'
  <2>1. PICK n : n = step /\ n = step'
    BY <1>1
  <2>2. Arrived(step)' = Arrived(step) /\ Multiples(study.period, step)' = Multiples(study.period, step)
        /\ Multiples(study.period, step + 1)' = Multiples(study.period, step + 1)
    BY <1>1, <1>2, <2>1 DEF Multiples
  <2> QED
    BY <1>1, <1>2, <2>2 DEF Invariant, Clock
<1>5. Line'
  BY <1>1, LineKept DEF Invariant
<1>6. \A r : (LoopSample(r)' <=> LoopSample(r)) /\ (SampledSample(r)' <=> SampledSample(r))
  BY <1>1, <1>2 DEF LoopSample, SampledSample, Unlabelled
<1>7. LoopStored'
  BY <1>1, <1>6 DEF Invariant, LoopStored, SampleRecord
<1>8. SampledStored'
  BY <1>1, <1>6 DEF Invariant, SampledStored, SampleRecord
<1>9. Plant'
  <2>1. ExportIsTheDeclaredRun' <=> ExportIsTheDeclaredRun
    BY <1>1, <1>2, StudyFixed DEF ExportIsTheDeclaredRun
  <2>2. \A n : Kept(n)' <=> Kept(n)
    BY <1>1, <1>2 DEF Kept
  <2> QED
    BY <1>1, <1>2, <2>1, <2>2 DEF Invariant, Plant
<1>10. SensorLine'
  <2>1. Taken' = Taken
    BY <1>1 DEF Taken, Multiples
  <2>2. PICK s, r, t : s = pending /\ r = latest /\ t = Taken
    OBVIOUS
  <2>3. Measured(latest, pending, Taken)' <=> Measured(latest, pending, Taken)
    BY <1>1, <2>1, <2>2, DueFixed
  <2> QED
    BY <1>1, <1>2, <2>3 DEF Invariant, SensorLine, Running, ReadingRecord
<1>11. ControllerSeesItsReading'
  BY <1>1, SeesKept DEF Invariant
<1> QED
  BY <1>3, <1>4, <1>5, <1>7, <1>8, <1>9, <1>10, <1>11 DEF Invariant

-----------------------------------------------------------------------------
(* The theorems                                                            *)

(* No step of the programs breaks the invariant.                           *)
LEMMA NextInvariant ==
  ASSUME Invariant, [Next]_vars
  PROVE  Invariant'
<1>1. CASE Segment
  BY <1>1, SegmentStep
<1>2. CASE ClosePlant
  BY <1>2, ClosePlantStep
<1>3. CASE Boundary
  BY <1>3, BoundaryStep
<1>4. CASE Tick
  BY <1>4, TickStep
<1>5. CASE Refuse \/ Terminate
  BY <1>5, LeaveStep
<1>6. CASE Integrate
  BY <1>6, IntegrateStep
<1>7. CASE SampledTick
  BY <1>7, SampledTickStep
<1>8. CASE Hold
  BY <1>8, HoldStep
<1>9. CASE CloseSampled
  BY <1>9, CloseSampledStep
<1>10. CASE UNCHANGED vars
  BY <1>10, StutterStep
<1> QED
  BY <1>1, <1>2, <1>3, <1>4, <1>5, <1>6, <1>7, <1>8, <1>9, <1>10 DEF Next

(* In every state of a simulation: the plant is the one the study declares *)
(* for the boundary the program has come to, its delay line holds the      *)
(* ticks of the last periods, its sensor the samples not yet delivered,    *)
(* and what is stored is the declared run so far.                          *)
THEOREM SimulationInvariant == Spec => []Invariant
<1>1. Init => Invariant
  BY InitInvariant
<1>2. Invariant /\ [Next]_vars => Invariant'
  BY NextInvariant
<1> QED
  BY <1>1, <1>2, PTL DEF Spec

(* What sim.plant, sim.sampled and the closed loop export is the run their *)
(* study declares, each state with the command of the step that leaves it, *)
(* and sim.sampled has applied what predict_sampled_loop predicts.         *)
THEOREM SimulationExport == Spec => []ExportIsTheDeclaredRun
<1>1. Invariant => ExportIsTheDeclaredRun
  <2> SUFFICES ASSUME Invariant
               PROVE  ExportIsTheDeclaredRun
    OBVIOUS
  <2>1. study.way \in {"plant", "sampled", "loop"}
    BY StudyShape DEF Invariant, TypeOK
  <2>2. CASE study.way = "plant"
    <3>1. pc = "done" => ExportIsTheDeclaredRun
      BY <2>2 DEF Invariant, Plant
    <3>2. pc # "done" => ExportIsTheDeclaredRun
      BY DEF ExportIsTheDeclaredRun
    <3> QED
      BY <3>1, <3>2
  <2>3. CASE study.way = "sampled"
    BY <2>3, SampledExport DEF Invariant
  <2>4. CASE study.way = "loop"
    BY <2>4, LoopExport DEF Invariant
  <2> QED
    BY <2>1, <2>2, <2>3, <2>4
<1> QED
  BY <1>1, SimulationInvariant, PTL

(* Every tick of the controller works with the measurement its sensor owes *)
(* it, or with what the policy for a missing one names.                    *)
THEOREM SimulationReadings == Spec => []ControllerSeesItsReading
<1>1. Invariant => ControllerSeesItsReading
  BY DEF Invariant
<1> QED
  BY <1>1, SimulationInvariant, PTL
=============================================================================
