--------------------------- MODULE PipelineProofs ---------------------------
(***************************************************************************)
(* For any number of runs, studies and files: a run publishes over nothing *)
(* it has read or published, what a manifest lists stays where it was      *)
(* published unless a run that was told to overwrite has replaced it, and  *)
(* the manifest itself is whole: stages in an order that could be          *)
(* executed, every file they publish and the evidence of all they depend   *)
(* on. A run keeps its checks until it publishes because nobody else can   *)
(* change its ledger, an exclusive publication finds the name free because *)
(* no step ever takes a file away, and a stage is told all that counts     *)
(* because those it refers to were through, and told, before it.           *)
(***************************************************************************)
EXTENDS Pipeline, FiniteSetTheorems, SequenceTheorems, TLAPS

(***************************************************************************)
(* First, for every study: the order the executor computes is an order in  *)
(* which the stages can be executed, and it is complete exactly when no    *)
(* stage depends on itself. The argument is the usual one for Kahn's       *)
(* algorithm: what has been put in order refers only to what is before it, *)
(* and as long as something is left some of it is ready, for among         *)
(* finitely many stages one that depends on fewest refers to nothing that  *)
(* is left.                                                                *)
(***************************************************************************)

-----------------------------------------------------------------------------
(* Natural numbers                                                         *)

(* A set of them has a least element.                                      *)
LEMMA LeastNatural ==
  ASSUME NEW S, S \subseteq Nat, S # {}
  PROVE  \E n \in S : \A m \in S : n <= m
<1> DEFINE R == {p \in Nat \X Nat : p[1] < p[2]}
<1>1. IsWellFoundedOn(R, Nat)
  BY NatLessThanWellFounded DEF OpToRel
<1>2. PICK n \in S : \A m \in S : <<m, n>> \notin R
  <2> HIDE DEF R
  <2> QED
    BY <1>1, WFMin
<1>3. ASSUME NEW m \in S
      PROVE  n <= m
  <2>1. m \in Nat /\ n \in Nat /\ ~ (m < n)
    BY <1>2
  <2> QED
    BY <2>1
<1> QED
  BY <1>3

(* So one that has 0, and n + 1 with n, has them all.                      *)
LEMMA AllNaturals ==
  ASSUME NEW S, 0 \in S, \A n \in Nat : n \in S => n + 1 \in S
  PROVE  \A n \in Nat : n \in S
<1> SUFFICES ASSUME Nat \ S # {}
             PROVE  FALSE
  OBVIOUS
<1>1. PICK n \in Nat \ S : \A m \in Nat \ S : n <= m
  BY LeastNatural
<1>2. n - 1 \in Nat /\ n - 1 \in S
  BY <1>1
<1>3. (n - 1) + 1 \in S
  BY <1>2
<1> QED
  BY <1>1, <1>2, <1>3

-----------------------------------------------------------------------------
(* The rounds of the algorithm                                             *)

(* Rounds up to the n-th.                                                  *)
IsBegun(st, g, n) ==
  g = [k \in 0..n |-> IF k = 0 THEN <<>> ELSE Extend(st, g[k - 1])]

(* A recursive function is what its definition says: beginnings of it      *)
(* exist, agree, and together make up the function.                        *)
LEMMA RoundsExist ==
  ASSUME NEW st
  PROVE  \E g : g = [k \in Nat |-> IF k = 0 THEN <<>> ELSE Extend(st, g[k - 1])]
<1> DEFINE Begun == {n \in Nat : \E g : IsBegun(st, g, n)}
<1>1. 0 \in Begun
  <2> DEFINE g == [k \in 0..0 |-> <<>>]
  <2>1. IsBegun(st, g, 0)
    BY DEF IsBegun
  <2> HIDE DEF g
  <2> QED
    BY <2>1
<1>2. ASSUME NEW n \in Nat, n \in Begun
      PROVE  n + 1 \in Begun
  <2>1. PICK g : IsBegun(st, g, n)
    BY <1>2
  <2> DEFINE h == [k \in 0..(n + 1) |-> IF k <= n THEN g[k] ELSE Extend(st, g[n])]
  <2>2. \A k \in 0..n : h[k] = g[k]
    OBVIOUS
  <2>3. \A k \in 0..n : g[k] = IF k = 0 THEN <<>> ELSE Extend(st, g[k - 1])
    BY <2>1 DEF IsBegun
  <2>4. \A k \in 0..(n + 1) : h[k] = IF k = 0 THEN <<>> ELSE Extend(st, h[k - 1])
    <3>1. ASSUME NEW k \in 0..n
          PROVE  h[k] = IF k = 0 THEN <<>> ELSE Extend(st, h[k - 1])
      <4>1. k # 0 => k - 1 \in 0..n
        OBVIOUS
      <4> HIDE DEF h
      <4> QED
        BY <2>2, <2>3, <4>1
    <3>2. h[n + 1] = Extend(st, g[n]) /\ n + 1 # 0 /\ (n + 1) - 1 = n /\ g[n] = h[n]
      OBVIOUS
    <3> HIDE DEF h
    <3>3. \A k \in 0..(n + 1) : k \in 0..n \/ k = n + 1
      OBVIOUS
    <3> QED
      BY <3>1, <3>2, <3>3
  <2>5. IsBegun(st, h, n + 1)
    <3>1. h = [k \in 0..(n + 1) |-> h[k]]
      OBVIOUS
    <3> HIDE DEF h
    <3> QED
      BY <2>4, <3>1 DEF IsBegun
  <2> HIDE DEF h
  <2> QED
    BY <2>5
<1>3. \A n \in Nat : n \in Begun
  <2> HIDE DEF Begun
  <2> QED
    BY <1>1, <1>2, AllNaturals
<1>4. ASSUME NEW n \in Nat, NEW m \in Nat, NEW g, NEW h, IsBegun(st, g, n), IsBegun(st, h, m)
      PROVE  \A k \in Nat : k <= n /\ k <= m => g[k] = h[k]
  <2> DEFINE Same == {k \in Nat : k <= n /\ k <= m => g[k] = h[k]}
  <2>1. \A k \in 0..n : g[k] = IF k = 0 THEN <<>> ELSE Extend(st, g[k - 1])
    BY <1>4 DEF IsBegun
  <2>2. \A k \in 0..m : h[k] = IF k = 0 THEN <<>> ELSE Extend(st, h[k - 1])
    BY <1>4 DEF IsBegun
  <2>3. 0 \in Same
    BY <2>1, <2>2
  <2>4. ASSUME NEW k \in Nat, k \in Same
        PROVE  k + 1 \in Same
    <3> SUFFICES ASSUME k + 1 <= n, k + 1 <= m
                 PROVE  g[k + 1] = h[k + 1]
      OBVIOUS
    <3>1. k + 1 \in 0..n /\ k + 1 \in 0..m /\ k + 1 # 0 /\ (k + 1) - 1 = k
      OBVIOUS
    <3>2. g[k] = h[k]
      BY <2>4
    <3> QED
      BY <2>1, <2>2, <3>1, <3>2
  <2>5. \A k \in Nat : k \in Same
    <3> HIDE DEF Same
    <3> QED
      BY <2>3, <2>4, AllNaturals
  <2> QED
    BY <2>5
<1> DEFINE begun == [n \in Nat |-> CHOOSE g : IsBegun(st, g, n)]
           all == [k \in Nat |-> begun[k][k]]
<1>5. \A n \in Nat : IsBegun(st, begun[n], n)
  BY <1>3
<1>6. \A k \in Nat : all[k] = IF k = 0 THEN <<>> ELSE Extend(st, all[k - 1])
  <2> SUFFICES ASSUME NEW k \in Nat
               PROVE  all[k] = IF k = 0 THEN <<>> ELSE Extend(st, all[k - 1])
    OBVIOUS
  <2>1. all[k] = begun[k][k]
    OBVIOUS
  <2>2. begun[k][k] = IF k = 0 THEN <<>> ELSE Extend(st, begun[k][k - 1])
    <3> HIDE DEF begun
    <3>1. PICK g : g = begun[k]
      OBVIOUS
    <3>2. IsBegun(st, g, k)
      BY <1>5, <3>1
    <3>3. k \in 0..k
      OBVIOUS
    <3>4. g[k] = IF k = 0 THEN <<>> ELSE Extend(st, g[k - 1])
      BY <3>2, <3>3 DEF IsBegun
    <3> QED
      BY <3>1, <3>4
  <2>3. ASSUME k # 0
        PROVE  begun[k][k - 1] = all[k - 1]
    <3>1. k - 1 \in Nat /\ k - 1 <= k /\ k - 1 <= k - 1
      BY <2>3
    <3>2. all[k - 1] = begun[k - 1][k - 1]
      BY <3>1
    <3> HIDE DEF begun, all
    <3> QED
      BY <1>4, <1>5, <3>1, <3>2
  <2> HIDE DEF begun, all
  <2> QED
    BY <2>1, <2>2, <2>3
<1>7. all = [k \in Nat |-> IF k = 0 THEN <<>> ELSE Extend(st, all[k - 1])]
  <2>1. all = [k \in Nat |-> all[k]]
    OBVIOUS
  <2> HIDE DEF all
  <2> QED
    BY <1>6, <2>1
<1> HIDE DEF all
<1> QED
  BY <1>7

(* So the rounds are what their definition says.                           *)
LEMMA RoundsDefined ==
  ASSUME NEW st
  PROVE  /\ Rounds(st)[0] = <<>>
         /\ \A k \in Nat : Rounds(st)[k + 1] = Extend(st, Rounds(st)[k])
<1>1. Rounds(st) = [k \in Nat |-> IF k = 0 THEN <<>> ELSE Extend(st, Rounds(st)[k - 1])]
  BY RoundsExist DEF Rounds
<1>2. \A k \in Nat : k + 1 \in Nat /\ k + 1 # 0 /\ (k + 1) - 1 = k
  OBVIOUS
<1> QED
  BY <1>1, <1>2

-----------------------------------------------------------------------------
(* What has been put in order                                              *)

(* The stages are counted by their positions.                              *)
IsStudy(st) == st.declared \in Seq(Ids(st))

(* Each stage once, and after those it refers to.                          *)
Ordered(st, order) ==
  /\ order \in Seq(Ids(st))
  /\ IsInjective(order)
  /\ \A i \in DOMAIN order : st.refs[order[i]] \subseteq {order[j] : j \in 1..(i - 1)}

(* Sequences without repetition are as long as what is in them is many.    *)
LEMMA Counted ==
  ASSUME NEW S, NEW seq \in Seq(S), IsInjective(seq)
  PROVE  IsFiniteSet(Range(seq)) /\ Cardinality(Range(seq)) = Len(seq)
<1>1. Len(seq) \in Nat /\ DOMAIN seq = 1..Len(seq) /\ seq \in [1..Len(seq) -> Range(seq)]
  BY DEF Range
<1>2. \A y \in Range(seq) : \E i \in 1..Len(seq) : seq[i] = y
  BY <1>1 DEF Range
<1>3. seq \in Bijection(1..Len(seq), Range(seq))
  BY <1>1, <1>2 DEF Bijection, Injection, Surjection, IsInjective
<1>4. ExistsBijection(1..Len(seq), Range(seq))
  BY <1>3 DEF ExistsBijection
<1>5. IsFiniteSet(Range(seq))
  BY <1>1, <1>4, FS_NatBijection
<1> QED
  BY <1>1, <1>4, <1>5, FS_CountingElements

(* A round adds a stage that is ready, and adds none only if none is.      *)
LEMMA RoundAdds ==
  ASSUME NEW st, IsStudy(st), NEW order, Ordered(st, order), Ready(st, Range(order)) # {}
  PROVE  Ordered(st, Extend(st, order)) /\ Len(Extend(st, order)) = Len(order) + 1
<1> DEFINE ready == Ready(st, Range(order))
           first == CHOOSE i \in ready : \A j \in ready : i <= j
           s == st.declared[first]
           more == Append(order, s)
<1>1. ready \subseteq 1..Len(st.declared)
  BY DEF Ready, IsStudy
<1>2. first \in ready
  <2>1. ready \subseteq Nat
    BY <1>1
  <2>2. \E i \in ready : \A j \in ready : i <= j
    <3>1. ready # {}
      OBVIOUS
    <3> HIDE DEF ready
    <3> QED
      BY <2>1, <3>1, LeastNatural
  <2> HIDE DEF ready
  <2> QED
    BY <2>2
<1>3. Extend(st, order) = more
  BY DEF Extend
<1>4. s \in Ids(st) /\ s \notin Range(order) /\ st.refs[s] \subseteq Range(order)
  BY <1>2 DEF Ready, Ids, Range
<1>5. /\ order \in Seq(Ids(st)) /\ Len(order) \in Nat /\ DOMAIN order = 1..Len(order)
      /\ Range(order) = {order[j] : j \in 1..Len(order)}
  BY DEF Ordered, Range
<1> HIDE DEF s, more
<1>6. /\ more \in Seq(Ids(st)) /\ Len(more) = Len(order) + 1
      /\ \A i \in 1..Len(order) : more[i] = order[i]
      /\ more[Len(order) + 1] = s
  BY <1>4, <1>5, AppendProperties DEF more
<1>7. DOMAIN more = 1..(Len(order) + 1)
  BY <1>6
<1>8. IsInjective(more)
  <2> SUFFICES ASSUME NEW i \in DOMAIN more, NEW j \in DOMAIN more, more[i] = more[j]
               PROVE  i = j
    BY DEF IsInjective
  <2>1. CASE i \in 1..Len(order) /\ j \in 1..Len(order)
    BY <1>5, <1>6, <2>1 DEF Ordered, IsInjective
  <2>2. CASE i = Len(order) + 1 /\ j \in 1..Len(order)
    BY <1>4, <1>5, <1>6, <2>2
  <2>3. CASE j = Len(order) + 1 /\ i \in 1..Len(order)
    BY <1>4, <1>5, <1>6, <2>3
  <2> QED
    BY <1>5, <1>7, <2>1, <2>2, <2>3
<1>9. ASSUME NEW i \in DOMAIN more
      PROVE  st.refs[more[i]] \subseteq {more[j] : j \in 1..(i - 1)}
  <2>1. CASE i \in 1..Len(order)
    <3>1. st.refs[order[i]] \subseteq {order[j] : j \in 1..(i - 1)}
      BY <1>5, <2>1 DEF Ordered
    <3>2. \A j \in 1..(i - 1) : j \in 1..Len(order)
      BY <1>5, <2>1
    <3>3. {more[j] : j \in 1..(i - 1)} = {order[j] : j \in 1..(i - 1)}
      BY <1>6, <3>2
    <3>4. more[i] = order[i]
      BY <1>6, <2>1
    <3> HIDE DEF more
    <3> QED
      BY <3>1, <3>3, <3>4
  <2>2. CASE i = Len(order) + 1
    <3>1. i - 1 = Len(order)
      BY <1>5, <2>2
    <3> QED
      BY <1>4, <1>5, <1>6, <2>2, <3>1
  <2> QED
    BY <1>5, <1>7, <2>1, <2>2
<1> QED
  BY <1>3, <1>6, <1>8, <1>9 DEF Ordered

(* Nothing is added when nothing is ready.                                 *)
LEMMA RoundStops ==
  ASSUME NEW st, NEW order, Ready(st, Range(order)) = {}
  PROVE  Extend(st, order) = order
BY DEF Extend

(* After any number of rounds.                                             *)
LEMMA RoundsOrdered ==
  ASSUME NEW st, IsStudy(st)
  PROVE  \A k \in Nat : Ordered(st, Rounds(st)[k]) /\ Len(Rounds(st)[k]) <= k
<1> DEFINE Good == {k \in Nat : Ordered(st, Rounds(st)[k]) /\ Len(Rounds(st)[k]) <= k}
<1>1. 0 \in Good
  <2>1. <<>> \in Seq(Ids(st)) /\ Len(<<>>) = 0 /\ DOMAIN <<>> = {}
    OBVIOUS
  <2>2. Ordered(st, <<>>)
    BY <2>1 DEF Ordered, IsInjective
  <2>3. Rounds(st)[0] = <<>>
    BY RoundsDefined
  <2> QED
    BY <2>1, <2>2, <2>3
<1>2. ASSUME NEW k \in Nat, k \in Good
      PROVE  k + 1 \in Good
  <2> DEFINE order == Rounds(st)[k]
  <2>1. Rounds(st)[k + 1] = Extend(st, order)
    BY RoundsDefined
  <2>2. Ordered(st, order) /\ Len(order) <= k
    BY <1>2
  <2> HIDE DEF order
  <2>0. Len(order) \in Nat
    BY <2>2 DEF Ordered
  <2>3. CASE Ready(st, Range(order)) = {}
    BY <2>0, <2>1, <2>2, <2>3, RoundStops
  <2>4. CASE Ready(st, Range(order)) # {}
    BY <2>0, <2>1, <2>2, <2>4, RoundAdds
  <2> QED
    BY <2>3, <2>4
<1>3. \A k \in Nat : k \in Good
  <2> HIDE DEF Good
  <2> QED
    BY <1>1, <1>2, AllNaturals
<1> QED
  BY <1>3

(* A study that is accepted has an order of all its stages.                *)
LEMMA OrderExecutes ==
  ASSUME NEW st, IsStudy(st), WellFormed(st)
  PROVE  /\ Ordered(st, ExecutionOrder(st))
         /\ Range(ExecutionOrder(st)) = Ids(st)
         /\ IsExecutionOrder(ExecutionOrder(st), st)
<1> DEFINE order == ExecutionOrder(st)
<1>1. Ordered(st, order) /\ Len(order) = Len(st.declared)
  <2>1. Len(st.declared) \in Nat
    BY DEF IsStudy
  <2> QED
    BY <2>1, RoundsOrdered DEF ExecutionOrder, WellFormed
<1> HIDE DEF order
<1>2. IsFiniteSet(Range(order)) /\ Cardinality(Range(order)) = Len(order)
  BY <1>1, Counted DEF Ordered
<1>3. IsFiniteSet(Ids(st)) /\ Cardinality(Ids(st)) = Len(st.declared)
  <2>1. IsInjective(st.declared)
    BY DEF WellFormed, IsInjective
  <2> QED
    BY <2>1, Counted DEF IsStudy, Ids
<1>4. Range(order) \subseteq Ids(st)
  BY <1>1 DEF Ordered, Range
<1>5. Range(order) = Ids(st)
  BY <1>1, <1>2, <1>3, <1>4, FS_Subset
<1> QED
  BY <1>1, <1>5 DEF Ordered, IsExecutionOrder, order

-----------------------------------------------------------------------------
(* Dependencies                                                            *)

Defined(st) == \A s \in Ids(st) : st.refs[s] \subseteq Ids(st)

(* What one depends on is what it refers to, and what that depends on.     *)
LEMMA DependsUnfolds ==
  ASSUME NEW st, Defined(st), NEW s \in Ids(st), NEW t
  PROVE  t \in DependsOn(st, s) <=>
           t \in st.refs[s] \/ \E u \in st.refs[s] : t \in DependsOn(st, u)
<1>0. \A u \in Ids(st) : st.refs[u] \subseteq Ids(st) /\ st.refs[u] \cap Ids(st) = st.refs[u]
  BY DEF Defined
<1>1. ASSUME t \in st.refs[s]
      PROVE  t \in DependsOn(st, s)
  BY <1>0, <1>1 DEF DependsOn
<1>2. ASSUME NEW u \in st.refs[s], t \in DependsOn(st, u)
      PROVE  t \in DependsOn(st, s)
  <2>1. t \in Ids(st) /\ u \in Ids(st)
    BY <1>0, <1>2 DEF DependsOn
  <2>2. ASSUME NEW closed \in SUBSET Ids(st),
               \A v \in closed \cup {s} : st.refs[v] \cap Ids(st) \subseteq closed
        PROVE  t \in closed
    <3>1. u \in closed
      BY <1>0, <2>2
    <3>2. \A v \in closed \cup {u} : st.refs[v] \cap Ids(st) \subseteq closed
      BY <2>2, <3>1
    <3> QED
      BY <1>2, <3>2 DEF DependsOn
  <2> QED
    BY <2>1, <2>2 DEF DependsOn
<1>3. ASSUME t \in DependsOn(st, s)
      PROVE  t \in st.refs[s] \/ \E u \in st.refs[s] : t \in DependsOn(st, u)
  <2> DEFINE closed == {v \in Ids(st) : v \in st.refs[s] \/ \E u \in st.refs[s] : v \in DependsOn(st, u)}
  <2>1. closed \in SUBSET Ids(st)
    OBVIOUS
  <2>2. st.refs[s] \cap Ids(st) \subseteq closed
    OBVIOUS
  <2>3. ASSUME NEW v \in closed
        PROVE  st.refs[v] \cap Ids(st) \subseteq closed
    <3>1. CASE v \in st.refs[s]
      <4>1. \A w \in st.refs[v] : w \in Ids(st) /\ w \in DependsOn(st, v)
        BY <1>0, <3>1 DEF DependsOn
      <4> QED
        BY <3>1, <4>1
    <3>2. ASSUME NEW u \in st.refs[s], v \in DependsOn(st, u)
          PROVE  st.refs[v] \cap Ids(st) \subseteq closed
      <4>1. \A w \in st.refs[v] \cap Ids(st) : w \in DependsOn(st, u)
        BY <1>0, <3>2 DEF DependsOn
      <4> QED
        BY <4>1
    <3> QED
      BY <3>1, <3>2
  <2>4. t \in closed
    <3>1. \A v \in closed \cup {s} : st.refs[v] \cap Ids(st) \subseteq closed
      <4> HIDE DEF closed
      <4> QED
        BY <2>2, <2>3
    <3> HIDE DEF closed
    <3> QED
      BY <1>3, <2>1, <3>1 DEF DependsOn
  <2> QED
    BY <2>4
<1> QED
  BY <1>1, <1>2, <1>3

(* What one has put in order depends only on what is before it.            *)
LEMMA DependsOnEarlier ==
  ASSUME NEW st, Defined(st), NEW order, Ordered(st, order), NEW i \in DOMAIN order
  PROVE  DependsOn(st, order[i]) \subseteq {order[j] : j \in 1..(i - 1)}
<1> DEFINE before == {order[j] : j \in 1..(i - 1)}
<1>1. /\ order \in Seq(Ids(st)) /\ DOMAIN order = 1..Len(order) /\ Len(order) \in Nat
      /\ i \in 1..Len(order)
  BY DEF Ordered
<1>2. before \subseteq Ids(st)
  BY <1>1
<1>3. ASSUME NEW v \in before
      PROVE  st.refs[v] \subseteq before
  <2>1. PICK j \in 1..(i - 1) : v = order[j]
    BY <1>3
  <2>2. j \in DOMAIN order /\ st.refs[v] \subseteq {order[k] : k \in 1..(j - 1)}
    BY <1>1, <2>1 DEF Ordered
  <2>3. \A k \in 1..(j - 1) : k \in 1..(i - 1)
    BY <1>1
  <2> QED
    BY <2>2, <2>3
<1>4. st.refs[order[i]] \subseteq before
  BY DEF Ordered
<1> HIDE DEF before
<1>5. \A v \in before \cup {order[i]} : st.refs[v] \cap Ids(st) \subseteq before
  BY <1>3, <1>4
<1> QED
  BY <1>2, <1>5 DEF DependsOn, before

(* Among stages that do not depend on themselves, one that is left refers  *)
(* to none that is.                                                        *)
LEMMA SomethingIsFree ==
  ASSUME NEW st, Acyclic(st), IsFiniteSet(Ids(st)), NEW left, left \subseteq Ids(st), left # {}
  PROVE  \E s \in left : st.refs[s] \cap left = {}
<1>0. Defined(st)
  BY DEF Acyclic, Defined
<1> DEFINE needs == {DependsOn(st, s) : s \in left}
<1>1. IsWellFoundedOn(StrictSubsetOrdering(Ids(st)), SUBSET Ids(st))
  BY FS_StrictSubsetOrderingWellFounded, FS_FiniteSubsetsOfFinite
<1>2. needs \subseteq SUBSET Ids(st) /\ needs # {}
  <2>1. \A s : DependsOn(st, s) \in SUBSET Ids(st)
    BY DEF DependsOn
  <2> QED
    BY <2>1
<1>3. PICK fewest \in needs : \A n \in needs : <<n, fewest>> \notin StrictSubsetOrdering(Ids(st))
  <2> HIDE DEF needs
  <2> QED
    BY <1>1, <1>2, WFMin
<1>4. PICK s \in left : fewest = DependsOn(st, s)
  OBVIOUS
<1>5. ASSUME NEW u \in st.refs[s], u \in left
      PROVE  FALSE
  <2>1. DependsOn(st, u) \subseteq DependsOn(st, s)
    BY <1>0, <1>5, DependsUnfolds
  <2>2. u \in DependsOn(st, s)
    BY <1>0, <1>5, DependsUnfolds
  <2>3. u \notin DependsOn(st, u)
    BY <1>5 DEF Acyclic
  <2>4. DependsOn(st, u) \in needs
    BY <1>5
  <2> HIDE DEF needs
  <2>5. <<DependsOn(st, u), fewest>> \in StrictSubsetOrdering(Ids(st))
    BY <1>2, <1>4, <2>1, <2>2, <2>3, <2>4 DEF StrictSubsetOrdering
  <2> QED
    BY <1>3, <2>4, <2>5
<1> QED
  BY <1>5

(* So the rounds go on until every stage is in order.                      *)
LEMMA RoundsComplete ==
  ASSUME NEW st, IsStudy(st), IsInjective(st.declared), Acyclic(st)
  PROVE  \A k \in Nat : k <= Len(st.declared) => Len(Rounds(st)[k]) = k
<1> DEFINE Full == {k \in Nat : k <= Len(st.declared) => Len(Rounds(st)[k]) = k}
<1>0. /\ Len(st.declared) \in Nat /\ DOMAIN st.declared = 1..Len(st.declared)
      /\ IsFiniteSet(Ids(st)) /\ Cardinality(Ids(st)) = Len(st.declared)
  BY Counted DEF IsStudy, Ids
<1>1. 0 \in Full
  BY RoundsDefined
<1>2. ASSUME NEW k \in Nat, k \in Full
      PROVE  k + 1 \in Full
  <2> SUFFICES ASSUME k + 1 <= Len(st.declared)
               PROVE  Len(Rounds(st)[k + 1]) = k + 1
    OBVIOUS
  <2> DEFINE order == Rounds(st)[k]
  <2>a. Len(order) = k
    BY <1>0, <1>2
  <2>b. Ordered(st, order)
    BY RoundsOrdered
  <2>1. Rounds(st)[k + 1] = Extend(st, order) /\ Ordered(st, order) /\ Len(order) = k
    BY <2>a, <2>b, RoundsDefined
  <2> HIDE DEF order
  <2> DEFINE left == Ids(st) \ Range(order)
  <2>2. left # {}
    <3>1. Range(order) \subseteq Ids(st)
      BY <2>1 DEF Ordered, Range
    <3>2. Cardinality(Range(order)) = k
      BY <2>1, Counted DEF Ordered
    <3>3. k # Len(st.declared)
      BY <1>0
    <3>4. Range(order) # Ids(st)
      BY <1>0, <3>2, <3>3
    <3> QED
      BY <3>1, <3>4
  <2>3. PICK s \in left : st.refs[s] \cap left = {}
    <3> HIDE DEF left
    <3>1. left \subseteq Ids(st)
      BY DEF left
    <3> QED
      BY <1>0, <2>2, <3>1, SomethingIsFree
  <2>4. st.refs[s] \subseteq Range(order)
    BY <2>3 DEF Acyclic
  <2>5. PICK i \in DOMAIN st.declared : st.declared[i] = s
    BY <2>3 DEF Ids, Range
  <2>6. i \in Ready(st, Range(order))
    BY <2>3, <2>4, <2>5 DEF Ready
  <2> QED
    BY <2>1, <2>6, RoundAdds
<1>3. \A k \in Nat : k \in Full
  <2> HIDE DEF Full
  <2> QED
    BY <1>1, <1>2, AllNaturals
<1> QED
  BY <1>3

-----------------------------------------------------------------------------
(* What execution_order() accepts, and what it returns: exactly the        *)
(* studies whose stages are named once each, refer to stages of the study  *)
(* and do not depend on themselves; and every stage of those, each after   *)
(* what it refers to.                                                      *)
THEOREM OrderIsRightForAll ==
  ASSUME NEW st, st.declared \in Seq(Ids(st))
  PROVE  /\ WellFormed(st) <=> /\ st.declared # <<>>
                               /\ IsInjective(st.declared)
                               /\ Acyclic(st)
         /\ WellFormed(st) => IsExecutionOrder(ExecutionOrder(st), st)
<1>0. IsStudy(st) /\ Len(st.declared) \in Nat
  BY DEF IsStudy
<1>1. ASSUME WellFormed(st)
      PROVE  /\ st.declared # <<>> /\ IsInjective(st.declared) /\ Acyclic(st)
             /\ IsExecutionOrder(ExecutionOrder(st), st)
  <2> DEFINE order == ExecutionOrder(st)
  <2>1. /\ Ordered(st, order) /\ Range(order) = Ids(st) /\ IsExecutionOrder(order, st)
    BY <1>0, <1>1, OrderExecutes
  <2>2. st.declared # <<>> /\ IsInjective(st.declared) /\ Defined(st)
    BY <1>1 DEF WellFormed, IsInjective, Defined
  <2> HIDE DEF order
  <2>3. ASSUME NEW s \in Ids(st), s \in DependsOn(st, s)
        PROVE  FALSE
    <3>1. PICK i \in DOMAIN order : order[i] = s
      BY <2>1 DEF Range
    <3>2. PICK j \in 1..(i - 1) : order[j] = s
      BY <2>1, <2>2, <2>3, <3>1, DependsOnEarlier
    <3>3. DOMAIN order = 1..Len(order) /\ Len(order) \in Nat
      BY <2>1 DEF Ordered
    <3>4. j \in DOMAIN order /\ j # i
      BY <3>1, <3>2, <3>3
    <3> QED
      BY <2>1, <3>1, <3>2, <3>4 DEF Ordered, IsInjective
  <2> QED
    BY <2>1, <2>2, <2>3 DEF Acyclic, Defined, order
<1>2. ASSUME st.declared # <<>>, IsInjective(st.declared), Acyclic(st)
      PROVE  WellFormed(st)
  <2>1. Len(ExecutionOrder(st)) = Len(st.declared)
    BY <1>0, <1>2, RoundsComplete DEF ExecutionOrder
  <2>2. \A s \in Ids(st) : st.refs[s] \subseteq Ids(st) \ {s}
    <3>1. Defined(st)
      BY <1>2 DEF Acyclic, Defined
    <3> QED
      BY <1>2, <3>1, DependsUnfolds DEF Acyclic
  <2> QED
    BY <1>2, <2>1, <2>2 DEF WellFormed, IsInjective
<1> QED
  BY <1>1, <1>2

-----------------------------------------------------------------------------
(* The runs                                                                *)

(* What a stage computes is some file.                                     *)
ProductsExist == \A s, f, inputs : Product(s, f, inputs) # None

-----------------------------------------------------------------------------
(* The inductive invariant                                                 *)

ShapeInv ==
  /\ disk = [f \in File |-> disk[f]]
  /\ edits \in 0..MaxEdits
  /\ pc \in [Run -> Active \cup {"idle", "refused", "failed", "done"}]
  /\ plan = [r \in Run |-> plan[r]]
  /\ produced = [r \in Run |-> produced[r]]
  /\ evidence = [r \in Run |-> evidence[r]]
  /\ pending = [r \in Run |-> pending[r]]
  /\ ledger = [r \in Run |-> ledger[r]]

(* The record of a run's files.                                            *)
IsLedger(l) ==
  /\ l = [inputs |-> l.inputs, outputs |-> l.outputs, overwrite |-> l.overwrite]
  /\ l.inputs = [f \in File |-> l.inputs[f]]
  /\ l.outputs = [f \in File |-> l.outputs[f]]
  /\ l.overwrite \in BOOLEAN

(* A run that is under way has a study and has not run more stages than it *)
(* declares; one that has not begun has published nothing.                 *)
ProgressInv(r) ==
  /\ plan[r] \in Studies[r] \cup {None}
  /\ IsLedger(ledger[r])
  /\ produced[r] \in Seq(Range(produced[r]))
  /\ pc[r] = "idle" => produced[r] = <<>> /\ ledger[r].outputs = NoFiles
  /\ Running(r) => /\ plan[r] # None
                   /\ Len(produced[r]) <= Len(plan[r].declared)
  /\ pc[r] \in {"writing", "publishing"} => ~ AllDone(r)

(* What has been checked of an output still holds when it is published.    *)
CheckedInv(r) == pc[r] = "publishing" =>
  /\ ledger[r].outputs[Head(pending[r])] = None
  /\ ~ Collides(r, Head(pending[r]))

(* Under a name stand the bytes, or those of a run told to overwrite.      *)
Stands(f, bytes) ==
  /\ disk[f] # None
  /\ \/ disk[f] = bytes
     \/ \E q \in Run : ledger[q].overwrite /\ disk[f] = ledger[q].outputs[f]

PublishedInv(r) == \A f \in File \ Existing :
  ledger[r].outputs[f] # None => Stands(f, ledger[r].outputs[f])

RecordedInv == \A m \in records : \A f \in File \ Existing :
  m.outputs[f] # None => Stands(f, m.outputs[f])

RunsInv == ShapeInv /\ \A r \in Run : ProgressInv(r) /\ CheckedInv(r)

PipelineInv ==
  /\ RunsInv
  /\ \A r \in Run : PublishedInv(r)
  /\ RecordedInv

-----------------------------------------------------------------------------
(* A step of one run                                                       *)

(* A run's ledger after it has read or published a file.                   *)
LEMMA LedgerWritten ==
  ASSUME NEW l, IsLedger(l), NEW f \in File, NEW bytes, NEW k,
         k = [l EXCEPT !.outputs[f] = bytes]
  PROVE  /\ IsLedger(k) /\ k.inputs = l.inputs /\ k.overwrite = l.overwrite
         /\ k.outputs = [l.outputs EXCEPT ![f] = bytes]
<1>1. k = [inputs |-> l.inputs, outputs |-> [l.outputs EXCEPT ![f] = bytes],
           overwrite |-> l.overwrite]
  BY DEF IsLedger
<1> QED
  BY <1>1 DEF IsLedger

(* A run's ledger after it has read some files.                            *)
LEMMA LedgerRead ==
  ASSUME NEW l, IsLedger(l), NEW inputs, inputs = [f \in File |-> inputs[f]], NEW k,
         k = [l EXCEPT !.inputs = inputs]
  PROVE  /\ IsLedger(k) /\ k.inputs = inputs /\ k.overwrite = l.overwrite
         /\ k.outputs = l.outputs
<1>1. k = [inputs |-> inputs, outputs |-> l.outputs, overwrite |-> l.overwrite]
  BY DEF IsLedger
<1> QED
  BY <1>1 DEF IsLedger

(* The ledgers when that of one run changes.                               *)
LEMMA LedgersKept ==
  ASSUME ledger = [q \in Run |-> ledger[q]], NEW r \in Run, NEW k,
         ledger' = [ledger EXCEPT ![r] = k]
  PROVE  /\ ledger' = [q \in Run |-> ledger'[q]] /\ ledger'[r] = k
         /\ \A q \in Run \ {r} : ledger'[q] = ledger[q]
OBVIOUS

(* What a step of a run does to its own ledger: it reads, publishes or     *)
(* does neither; loading makes the ledger.                                 *)
LedgerStep(r, k) ==
  /\ ledger' = [ledger EXCEPT ![r] = k]
  /\ IsLedger(k)
  /\ ~ Load(r) => k.overwrite = ledger[r].overwrite
  /\ ~ Load(r) /\ ~ Publish(r) => k.outputs = ledger[r].outputs
  /\ Load(r) => k.outputs = NoFiles

(* Every step of a run is one of these.                                    *)
LEMMA LedgerSteps ==
  ASSUME ShapeInv, NEW r \in Run, IsLedger(ledger[r]), Load(r) \/ Step(r) \/ Throw(r),
         plan[r] \in Studies[r] \cup {None}
  PROVE  \E k : LedgerStep(r, k)
<1>1. CASE Load(r)
  <2>1. PICK st \in Studies[r], overwrite \in BOOLEAN :
          ledger' = [ledger EXCEPT
               ![r] = [inputs |-> [NoFiles EXCEPT ![st.source] = disk[st.source]],
                       outputs |-> NoFiles, overwrite |-> overwrite]]
    BY <1>1 DEF Load
  <2>2. PICK inputs : inputs = [NoFiles EXCEPT ![st.source] = disk[st.source]]
    OBVIOUS
  <2> DEFINE k == [inputs |-> inputs, outputs |-> NoFiles, overwrite |-> overwrite]
  <2>3. /\ inputs = [f \in File |-> inputs[f]]
        /\ NoFiles = [f \in File |-> NoFiles[f]]
    BY <2>2 DEF NoFiles
  <2>4. IsLedger(k) /\ k.outputs = NoFiles
    BY <2>3 DEF IsLedger
  <2>5. ledger' = [ledger EXCEPT ![r] = k]
    BY <2>1, <2>2
  <2> QED
    BY <1>1, <2>4, <2>5 DEF LedgerStep
<1>2. CASE UNCHANGED ledger /\ ~ Load(r)
  <2>1. ledger' = [ledger EXCEPT ![r] = ledger[r]]
    BY <1>2 DEF ShapeInv
  <2> QED
    BY <1>2, <2>1 DEF LedgerStep
<1>3. CASE ReadInput(r)
  <2> DEFINE f == plan[r].inputs[role[r]]
             inputs == [ledger[r].inputs EXCEPT ![f] = Snapshot(r, f)]
             k == [ledger[r] EXCEPT !.inputs = inputs]
  <2>1. ledger' = [ledger EXCEPT ![r] = k]
    BY <1>3 DEF ReadInput
  <2>2. inputs = [g \in File |-> inputs[g]]
    BY DEF IsLedger
  <2>3. IsLedger(k) /\ k.overwrite = ledger[r].overwrite /\ k.outputs = ledger[r].outputs
    <3> HIDE DEF inputs
    <3> QED
      BY <2>2, LedgerRead
  <2>4. ~ Load(r)
    BY <1>3 DEF ReadInput, Load
  <2> QED
    BY <2>1, <2>3, <2>4 DEF LedgerStep
<1>4. CASE EnterStage(r)
  <2> DEFINE late == plan[r].late[Stage(r)]
             inputs == [f \in File |-> IF f \in late THEN Snapshot(r, f) ELSE ledger[r].inputs[f]]
             k == [ledger[r] EXCEPT !.inputs = inputs]
  <2>1. ledger' = [ledger EXCEPT ![r] = k]
    BY <1>4 DEF EnterStage
  <2>2. inputs = [g \in File |-> inputs[g]]
    OBVIOUS
  <2>3. IsLedger(k) /\ k.overwrite = ledger[r].overwrite /\ k.outputs = ledger[r].outputs
    <3> HIDE DEF inputs
    <3> QED
      BY <2>2, LedgerRead
  <2>4. ~ Load(r)
    BY <1>4 DEF EnterStage, Load
  <2> QED
    BY <2>1, <2>3, <2>4 DEF LedgerStep
<1>5. CASE Publish(r)
  <2> DEFINE f == Head(pending[r])
             bytes == Product(Stage(r), f, ledger[r].inputs)
             k == [ledger[r] EXCEPT !.outputs = [ledger[r].outputs EXCEPT ![f] = bytes]]
  <2>1. ledger' = [ledger EXCEPT ![r] = k]
    BY <1>5 DEF Publish
  <2>2. [ledger[r].outputs EXCEPT ![f] = bytes]
          = [g \in File |-> [ledger[r].outputs EXCEPT ![f] = bytes][g]]
    BY DEF IsLedger
  <2>3. IsLedger(k) /\ k.overwrite = ledger[r].overwrite
    BY <2>2 DEF IsLedger
  <2>4. ~ Load(r)
    BY <1>5 DEF Publish, Load
  <2> QED
    BY <1>5, <2>1, <2>3, <2>4 DEF LedgerStep
<1>6. CASE Throw(r)
  <2> DEFINE k == [ledger[r] EXCEPT !.inputs = NoFiles]
  <2>1. ledger' = [ledger EXCEPT ![r] = k]
    BY <1>6 DEF Throw
  <2>2. NoFiles = [g \in File |-> NoFiles[g]]
    BY DEF NoFiles
  <2>3. IsLedger(k) /\ k.overwrite = ledger[r].overwrite /\ k.outputs = ledger[r].outputs
    BY <2>2, LedgerRead
  <2>4. ~ Load(r)
    BY <1>6 DEF Throw, Running, Active, Load
  <2> QED
    BY <2>1, <2>3, <2>4 DEF LedgerStep
<1>7. ASSUME Step(r), ~ ReadInput(r), ~ EnterStage(r), ~ Publish(r)
      PROVE  UNCHANGED ledger /\ ~ Load(r)
  BY <1>7 DEF Step, Begin, ReserveOutputs, CheckOutput, LeaveStage, CloseRun, ReuseManifest,
     PrepareManifest, LinkManifest, Load
<1> QED
  BY <1>1, <1>2, <1>3, <1>4, <1>5, <1>6, <1>7

(* It leaves the others alone.                                             *)
Moved(r) ==
  /\ ShapeInv'
  /\ \A q \in Run \ {r} :
       /\ pc'[q] = pc[q] /\ plan'[q] = plan[q] /\ ledger'[q] = ledger[q]
       /\ produced'[q] = produced[q] /\ evidence'[q] = evidence[q] /\ pending'[q] = pending[q]

(* This holds of every step of a run.                                      *)
LEMMA RunMoves ==
  ASSUME ShapeInv, NEW r \in Run, IsLedger(ledger[r]), Load(r) \/ Step(r) \/ Throw(r),
         plan[r] \in Studies[r] \cup {None}
  PROVE  Moved(r)
<1>0. PICK k : ledger' = [ledger EXCEPT ![r] = k]
  BY LedgerSteps DEF LedgerStep
<1>a. /\ ledger' = [q \in Run |-> ledger'[q]]
      /\ \A q \in Run \ {r} : ledger'[q] = ledger[q]
  BY <1>0, LedgersKept DEF ShapeInv
<1> DEFINE Goal == /\ disk' = [f \in File |-> disk'[f]]
                   /\ edits' = edits
                   /\ pc' \in [Run -> Active \cup {"idle", "refused", "failed", "done"}]
                   /\ plan' = [q \in Run |-> plan'[q]]
                   /\ produced' = [q \in Run |-> produced'[q]]
                   /\ evidence' = [q \in Run |-> evidence'[q]]
                   /\ pending' = [q \in Run |-> pending'[q]]
                   /\ \A q \in Run \ {r} :
                        /\ pc'[q] = pc[q] /\ plan'[q] = plan[q]
                        /\ produced'[q] = produced[q] /\ evidence'[q] = evidence[q]
                        /\ pending'[q] = pending[q]
<1> USE DEF ShapeInv, Goto, Active
<1>1. ASSUME Load(r) PROVE Goal
  BY <1>1 DEF Load
<1>2. ASSUME Begin(r) PROVE Goal
  BY <1>2 DEF Begin
<1>3. ASSUME ReadInput(r) PROVE Goal
  BY <1>3 DEF ReadInput
<1>4. ASSUME ReserveOutputs(r) PROVE Goal
  BY <1>4 DEF ReserveOutputs
<1>5. ASSUME EnterStage(r) PROVE Goal
  BY <1>5 DEF EnterStage
<1>6. ASSUME CheckOutput(r) PROVE Goal
  BY <1>6 DEF CheckOutput
<1>7. ASSUME Publish(r) PROVE Goal
  BY <1>7 DEF Publish
<1>8. ASSUME LeaveStage(r) PROVE Goal
  BY <1>8 DEF LeaveStage
<1>9. ASSUME CloseRun(r) \/ ReuseManifest(r) \/ PrepareManifest(r) \/ LinkManifest(r) PROVE Goal
  BY <1>9 DEF CloseRun, ReuseManifest, PrepareManifest, LinkManifest
<1>10. ASSUME Throw(r) PROVE Goal
  BY <1>10 DEF Throw, fileVars
<1>11. Goal
  BY <1>1, <1>2, <1>3, <1>4, <1>5, <1>6, <1>7, <1>8, <1>9, <1>10 DEF Step
<1> QED
  BY <1>a, <1>11 DEF Moved

(* So what is known of another run stays true.                             *)
LEMMA OtherRunKept ==
  ASSUME NEW q \in Run, ProgressInv(q), CheckedInv(q),
         pc'[q] = pc[q], plan'[q] = plan[q], ledger'[q] = ledger[q],
         produced'[q] = produced[q], pending'[q] = pending[q]
  PROVE  ProgressInv(q)' /\ CheckedInv(q)'
BY DEF ProgressInv, CheckedInv, Running, AllDone, Collides

(* One more stage in the order.                                            *)
LEMMA OneMore ==
  ASSUME NEW s, s \in Seq(Range(s)), NEW e
  PROVE  Append(s, e) \in Seq(Range(Append(s, e))) /\ Len(Append(s, e)) = Len(s) + 1
<1> DEFINE S == Range(s) \cup {e}
<1>1. s \in Seq(S)
  BY DEF Range
<1>2. Append(s, e) \in Seq(S) /\ Len(Append(s, e)) = Len(s) + 1
  BY <1>1
<1>3. DOMAIN Append(s, e) = 1..(Len(s) + 1) /\ Len(s) \in Nat
  BY <1>1, <1>2
<1>4. Append(s, e)[Len(s) + 1] = e
  BY <1>1
<1>5. \A i \in 1..Len(s) : Append(s, e)[i] = s[i]
  BY <1>1
<1>6. S \subseteq Range(Append(s, e))
  BY <1>1, <1>3, <1>4, <1>5 DEF Range
<1> QED
  BY <1>2, <1>6

(* A study is not None, and its stages are counted.                        *)
LEMMA StudyFacts ==
  ASSUME NEW r \in Run, NEW st \in Studies[r]
  PROVE  st # None /\ Len(st.declared) \in Nat
<1>1. st \in UNION Range(Studies)
  BY PipelineAssumption DEF Range
<1> QED
  BY <1>1, PipelineAssumption

(* A run's own step keeps what is known of it; a check is made right       *)
(* before it is relied on.                                                 *)
LEMMA OwnRunKept ==
  ASSUME RunsInv, NEW r \in Run, Load(r) \/ Step(r) \/ Throw(r)
  PROVE  ProgressInv(r)' /\ CheckedInv(r)'
<1>0. /\ ShapeInv /\ ProgressInv(r) /\ CheckedInv(r) /\ Moved(r)
      /\ plan[r] # None => Len(plan[r].declared) \in Nat
      /\ Len(produced[r]) \in Nat
  <2>1. ShapeInv /\ ProgressInv(r) /\ CheckedInv(r)
    BY DEF RunsInv
  <2>2. Moved(r)
    BY <2>1, RunMoves DEF ProgressInv
  <2> QED
    BY <2>1, <2>2, StudyFacts DEF ProgressInv
<1>a. /\ IsLedger(ledger'[r])
      /\ ~ Load(r) => ledger'[r].overwrite = ledger[r].overwrite
      /\ Load(r) => ledger'[r].outputs = NoFiles
  <2>1. PICK k : LedgerStep(r, k)
    BY <1>0, LedgerSteps DEF ProgressInv
  <2> QED
    BY <1>0, <2>1, LedgersKept DEF LedgerStep, ShapeInv
<1>1. CASE Load(r)
  <2>1. PICK st \in Studies[r], overwrite \in BOOLEAN :
          /\ plan' = [plan EXCEPT ![r] = st]
          /\ ledger' = [ledger EXCEPT
               ![r] = [inputs |-> [NoFiles EXCEPT ![st.source] = disk[st.source]],
                       outputs |-> NoFiles, overwrite |-> overwrite]]
          /\ pc' = [pc EXCEPT ![r] = IF WellFormed(st) THEN "loaded" ELSE "refused"]
    BY <1>1 DEF Load, Goto
  <2>2. /\ plan'[r] = st /\ produced'[r] = <<>>
        /\ pc'[r] \in {"loaded", "refused"}
    BY <1>0, <1>1, <2>1 DEF Load, ShapeInv, ProgressInv
  <2>3. st # None /\ Len(st.declared) \in Nat /\ <<>> \in Seq(Range(<<>>)) /\ Len(<<>>) = 0
    BY StudyFacts
  <2> QED
    BY <1>a, <2>2, <2>3 DEF ProgressInv, CheckedInv, Running, Active
<1>2. CASE Begin(r) \/ ReserveOutputs(r) \/ CheckOutput(r) \/ CloseRun(r) \/ ReuseManifest(r)
           \/ PrepareManifest(r) \/ LinkManifest(r)
  <2>1. /\ UNCHANGED <<plan, ledger, produced, pending>> /\ Running(r) /\ pc'[r] # "idle"
        /\ pc'[r] = "publishing" => CheckOutput(r)
        /\ pc'[r] # "writing"
    BY <1>0, <1>2 DEF Begin, ReserveOutputs, CheckOutput, CloseRun, ReuseManifest,
       PrepareManifest, LinkManifest, Goto, ShapeInv, Running, Active
  <2>2. CheckOutput(r) => /\ pc[r] = "writing"
                          /\ ledger[r].outputs[Head(pending[r])] = None
                          /\ ~ Collides(r, Head(pending[r]))
    BY DEF CheckOutput
  <2> QED
    BY <1>0, <2>1, <2>2 DEF ProgressInv, CheckedInv, Running, AllDone, Collides
<1>3. CASE ReadInput(r)
  <2>1. /\ UNCHANGED <<pc, plan, produced, pending>> /\ pc[r] = "reading"
    BY <1>0, <1>3 DEF ReadInput, ShapeInv
  <2> QED
    BY <1>0, <1>a, <2>1 DEF ProgressInv, CheckedInv, Running, Active
<1>4. CASE EnterStage(r)
  <2>1. /\ UNCHANGED <<plan, produced>> /\ pc[r] = "stages" /\ pc'[r] = "writing" /\ ~ AllDone(r)
    BY <1>0, <1>4 DEF EnterStage, ShapeInv, Goto
  <2> QED
    BY <1>0, <1>a, <2>1 DEF ProgressInv, CheckedInv, Running, Active, AllDone
<1>5. CASE Publish(r)
  <2>1. /\ UNCHANGED <<plan, produced>> /\ pc[r] = "publishing" /\ pc'[r] = "writing"
    BY <1>0, <1>5 DEF Publish, ShapeInv, Goto
  <2> QED
    BY <1>0, <1>a, <2>1 DEF ProgressInv, CheckedInv, Running, Active, AllDone
<1>6. CASE LeaveStage(r)
  <2>1. /\ UNCHANGED <<plan, ledger>> /\ pc[r] = "writing" /\ pc'[r] = "stages"
        /\ \E s : produced'[r] = Append(produced[r], s)
    BY <1>0, <1>6 DEF LeaveStage, ShapeInv, Goto
  <2>2. /\ produced'[r] \in Seq(Range(produced'[r]))
        /\ Len(produced'[r]) = Len(produced[r]) + 1
    BY <1>0, <2>1, OneMore DEF ProgressInv
  <2>3. Len(produced'[r]) <= Len(plan[r].declared)
    BY <1>0, <2>1, <2>2 DEF ProgressInv, Running, Active, AllDone
  <2> QED
    BY <1>0, <1>a, <2>1, <2>2, <2>3 DEF ProgressInv, CheckedInv, Running, Active
<1>7. CASE Throw(r)
  <2>1. /\ plan'[r] = None /\ pc'[r] = "failed" /\ produced'[r] = <<>>
    BY <1>0, <1>7 DEF Throw, ShapeInv, Goto
  <2>2. <<>> \in Seq(Range(<<>>))
    OBVIOUS
  <2> QED
    BY <1>0, <1>a, <2>1, <2>2 DEF ProgressInv, CheckedInv, Running, Active
<1> QED
  BY <1>1, <1>2, <1>3, <1>4, <1>5, <1>6, <1>7 DEF Step

(* The invariant of the runs is inductive.                                 *)
LEMMA RunsKept ==
  ASSUME RunsInv, [Next]_vars
  PROVE  RunsInv'
<1>1. CASE UNCHANGED vars
  BY <1>1 DEF vars, RunsInv, ShapeInv, ProgressInv, CheckedInv, Running, AllDone, Collides
<1>2. ASSUME NEW r \in Run, Load(r) \/ Step(r) \/ Throw(r)
      PROVE  RunsInv'
  <2>1. Moved(r) /\ ProgressInv(r)' /\ CheckedInv(r)'
    BY <1>2, RunMoves, OwnRunKept DEF RunsInv, ProgressInv
  <2> QED
    BY <2>1, OtherRunKept DEF RunsInv, Moved
<1>3. ASSUME NEW f \in Editable, NEW bytes \in Given, Edit(f, bytes)
      PROVE  RunsInv'
  <2>1. disk' = [g \in File |-> disk'[g]] /\ edits' \in 0..MaxEdits
    BY <1>3, PipelineAssumption DEF RunsInv, ShapeInv, Edit
  <2>2. ShapeInv'
    BY <1>3, <2>1 DEF RunsInv, ShapeInv, Edit, runVars
  <2> QED
    BY <1>3, <2>2, OtherRunKept DEF RunsInv, Edit, runVars
<1> QED
  BY <1>1, <1>2, <1>3 DEF Next

-----------------------------------------------------------------------------
(* What is published                                                       *)

(* A step that publishes nothing: no output, no file but an existing one   *)
(* and no record but of what was published changes.                        *)
LEMMA NothingPublished ==
  ASSUME PipelineInv,
         \A f \in File \ Existing : disk'[f] = disk[f],
         \A r \in Run : ledger'[r].outputs = ledger[r].outputs,
         \A r \in Run : \/ ledger'[r].overwrite = ledger[r].overwrite
                        \/ ledger[r].outputs = NoFiles,
         \A m \in records' : m \in records \/ \E r \in Run : m.outputs = ledger[r].outputs
  PROVE  (\A r \in Run : PublishedInv(r)') /\ RecordedInv'
<1>1. ASSUME NEW f \in File \ Existing, NEW bytes, Stands(f, bytes)
      PROVE  Stands(f, bytes)'
  BY <1>1 DEF Stands, NoFiles
<1> QED
  BY <1>1 DEF PipelineInv, PublishedInv, RecordedInv

(* A run that was not told to overwrite takes a name that is free, one     *)
(* that was told so stands for it from then on.                            *)
LEMMA PublishStands ==
  ASSUME ProductsExist, PipelineInv, NEW r \in Run, Publish(r)
  PROVE  (\A q \in Run : PublishedInv(q)') /\ RecordedInv'
<1> DEFINE f == Head(pending[r])
           bytes == Product(Stage(r), f, ledger[r].inputs)
<1>0. /\ ShapeInv /\ ProgressInv(r) /\ CheckedInv(r) /\ pc[r] = "publishing"
      /\ MayAppear(r, f) /\ disk' = [disk EXCEPT ![f] = bytes]
      /\ ledger' = [ledger EXCEPT ![r].outputs[f] = bytes] /\ records' = records
  BY DEF PipelineInv, RunsInv, Publish
<1>1. bytes # None /\ ledger[r].outputs[f] = None
  BY <1>0 DEF ProductsExist, CheckedInv
<1>2. /\ \A q \in Run : ledger'[q].overwrite = ledger[q].overwrite
      /\ \A q \in Run, g \in File : ledger'[q].outputs[g] =
           IF q = r /\ g = f THEN bytes ELSE ledger[q].outputs[g]
      /\ \A g \in File : disk'[g] = IF g = f THEN bytes ELSE disk[g]
  <2>1. ledger'[r] = [ledger[r] EXCEPT !.outputs[f] = bytes]
    BY <1>0 DEF ShapeInv
  <2>2. \A q \in Run \ {r} : ledger'[q] = ledger[q]
    BY <1>0 DEF ShapeInv
  <2>3. IsLedger(ledger[r])
    BY <1>0 DEF ProgressInv
  <2>4. /\ ledger'[r].overwrite = ledger[r].overwrite
        /\ ledger'[r].outputs = [ledger[r].outputs EXCEPT ![f] = bytes]
        /\ \A g \in File : [ledger[r].outputs EXCEPT ![f] = bytes][g]
             = IF g = f THEN bytes ELSE ledger[r].outputs[g]
    BY <2>1, <2>3 DEF IsLedger
  <2>5. \A g \in File : disk'[g] = IF g = f THEN bytes ELSE disk[g]
    BY <1>0 DEF ShapeInv
  <2> HIDE DEF f, bytes
  <2>6. \A q \in Run : ledger'[q].overwrite = ledger[q].overwrite
    BY <2>2, <2>4
  <2>7. \A q \in Run, g \in File : ledger'[q].outputs[g] =
           IF q = r /\ g = f THEN bytes ELSE ledger[q].outputs[g]
    BY <2>2, <2>4
  <2> QED
    BY <2>5, <2>6, <2>7
<1> HIDE DEF f, bytes
<1>3. ASSUME NEW g \in File \ Existing, NEW b, Stands(g, b)
      PROVE  Stands(g, b)'
  <2>1. CASE g # f
    BY <1>2, <1>3, <2>1 DEF Stands
  <2>2. CASE g = f
    <3>1. disk[f] # None
      BY <1>3, <2>2 DEF Stands
    <3>2. ledger[r].overwrite
      BY <1>0, <3>1 DEF MayAppear
    <3> QED
      BY <1>1, <1>2, <2>2, <3>2 DEF Stands
  <2> QED
    BY <2>1, <2>2
<1>4. ASSUME NEW q \in Run, NEW g \in File \ Existing, NEW b,
             ledger'[q].outputs[g] = b, b # None
      PROVE  Stands(g, b)'
  <2>1. CASE q = r /\ g = f
    BY <1>1, <1>2, <1>4, <2>1 DEF Stands
  <2>2. CASE ~ (q = r /\ g = f)
    <3>1. ledger[q].outputs[g] = b
      BY <1>2, <1>4, <2>2
    <3>2. Stands(g, b)
      BY <1>4, <3>1 DEF PipelineInv, PublishedInv
    <3> QED
      BY <1>3, <3>2
  <2> QED
    BY <2>1, <2>2
<1>5. \A q \in Run : PublishedInv(q)'
  <2> SUFFICES ASSUME NEW q \in Run, NEW g \in File \ Existing, ledger'[q].outputs[g] # None
               PROVE  /\ disk'[g] # None
                      /\ \/ disk'[g] = ledger'[q].outputs[g]
                         \/ \E p \in Run : ledger'[p].overwrite /\ disk'[g] = ledger'[p].outputs[g]
    BY DEF PublishedInv, Stands
  <2>1. PICK b : b = ledger'[q].outputs[g]
    OBVIOUS
  <2>2. Stands(g, b)'
    BY <1>4, <2>1
  <2> QED
    BY <2>1, <2>2 DEF Stands
<1>6. RecordedInv'
  BY <1>0, <1>3 DEF PipelineInv, RecordedInv
<1> QED
  BY <1>5, <1>6

(* No step undoes a publication.                                           *)
LEMMA PublicationsKept ==
  ASSUME ProductsExist, PipelineInv, [Next]_vars
  PROVE  (\A q \in Run : PublishedInv(q)') /\ RecordedInv'
<1>1. CASE UNCHANGED vars
  BY <1>1, NothingPublished DEF vars
<1>2. ASSUME NEW r \in Run, Publish(r)
      PROVE  (\A q \in Run : PublishedInv(q)') /\ RecordedInv'
  BY <1>2, PublishStands
<1>3. ASSUME NEW r \in Run, Load(r) \/ Step(r) \/ Throw(r), ~ Publish(r)
      PROVE  (\A q \in Run : PublishedInv(q)') /\ RecordedInv'
  <2>1. /\ ShapeInv /\ ProgressInv(r) /\ IsLedger(ledger[r])
        /\ plan[r] \in Studies[r] \cup {None}
    BY DEF PipelineInv, RunsInv, ProgressInv
  <2>2. PICK k : LedgerStep(r, k)
    BY <1>3, <2>1, LedgerSteps
  <2>3. ledger'[r] = k /\ \A q \in Run \ {r} : ledger'[q] = ledger[q]
    BY <2>1, <2>2, LedgersKept DEF LedgerStep, ShapeInv
  <2>4. Load(r) => ledger[r].outputs = NoFiles
    BY <2>1 DEF Load, ProgressInv
  <2>5. \A q \in Run : /\ ledger'[q].outputs = ledger[q].outputs
                       /\ \/ ledger'[q].overwrite = ledger[q].overwrite
                          \/ ledger[q].outputs = NoFiles
    BY <1>3, <2>2, <2>3, <2>4 DEF LedgerStep
  <2>6. disk' = disk
    BY <1>3 DEF Step, Load, Begin, ReadInput, ReserveOutputs, EnterStage, CheckOutput, LeaveStage,
       CloseRun, ReuseManifest, PrepareManifest, LinkManifest, Throw, fileVars
  <2>7. records' = records \/ records' = records \cup {Manifest(r)}
    BY <1>3 DEF Step, Load, Begin, ReadInput, ReserveOutputs, EnterStage, CheckOutput, LeaveStage,
       CloseRun, ReuseManifest, PrepareManifest, LinkManifest, Throw, fileVars
  <2>8. Manifest(r).outputs = ledger[r].outputs
    BY DEF Manifest
  <2>9. \A m \in records' : m \in records \/ \E q \in Run : m.outputs = ledger[q].outputs
    BY <2>7, <2>8
  <2> QED
    BY <2>5, <2>6, <2>9, NothingPublished
<1>4. ASSUME NEW f \in Editable, NEW bytes \in Given, Edit(f, bytes)
      PROVE  (\A q \in Run : PublishedInv(q)') /\ RecordedInv'
  <2>1. \A g \in File \ Existing : disk'[g] = disk[g]
    BY <1>4, PipelineAssumption DEF PipelineInv, RunsInv, ShapeInv, Edit
  <2>2. ledger' = ledger /\ records' = records
    BY <1>4 DEF Edit, runVars
  <2> QED
    BY <2>1, <2>2, NothingPublished
<1> QED
  BY <1>1, <1>2, <1>3, <1>4 DEF Next

-----------------------------------------------------------------------------
(* Nothing has happened at first.                                          *)
LEMMA InitPipeline ==
  ASSUME Init
  PROVE  PipelineInv
<1>1. ShapeInv
  <2>1. \A bytes \in Given : [f \in File |-> IF f \in Existing THEN bytes ELSE None]
                           = [f \in File |-> [g \in File |->
                                                IF g \in Existing THEN bytes ELSE None][f]]
    OBVIOUS
  <2>2. disk = [f \in File |-> disk[f]]
    BY <2>1 DEF Init
  <2> QED
    BY <2>2, PipelineAssumption DEF Init, ShapeInv
<1>2. ASSUME NEW r \in Run
      PROVE  ProgressInv(r) /\ CheckedInv(r) /\ PublishedInv(r)
  <2>1. ledger[r] = [inputs |-> NoFiles, outputs |-> NoFiles, overwrite |-> FALSE]
    BY DEF Init
  <2>2. NoFiles = [f \in File |-> NoFiles[f]] /\ \A f \in File : NoFiles[f] = None
    BY DEF NoFiles
  <2>3. IsLedger(ledger[r]) /\ ledger[r].outputs = NoFiles
    BY <2>1, <2>2 DEF IsLedger
  <2>4. pc[r] = "idle" /\ plan[r] = None /\ produced[r] = <<>>
    BY DEF Init
  <2>5. <<>> \in Seq(Range(<<>>))
    OBVIOUS
  <2>6. ProgressInv(r) /\ CheckedInv(r)
    BY <2>3, <2>4, <2>5 DEF ProgressInv, CheckedInv, Running, Active
  <2> QED
    BY <2>2, <2>3, <2>6 DEF PublishedInv
<1>3. RecordedInv
  BY DEF Init, RecordedInv
<1> QED
  BY <1>1, <1>2, <1>3 DEF PipelineInv, RunsInv

(* What the invariant says of types.                                       *)
LEMMA RunsHaveTypes ==
  ASSUME RunsInv
  PROVE  TypeOK
<1>1. DOMAIN disk = File
  BY DEF RunsInv, ShapeInv
<1>2. \A r \in Run : DOMAIN ledger[r].inputs = File /\ DOMAIN ledger[r].outputs = File
                     /\ ledger[r].overwrite \in BOOLEAN
  BY DEF RunsInv, ProgressInv, IsLedger
<1> QED
  BY <1>1, <1>2 DEF RunsInv, ShapeInv, ProgressInv, TypeOK

(* Only a publication adds to what a run has published, and it has been    *)
(* checked.                                                                *)
LEMMA InputsKept ==
  ASSUME RunsInv, [Next]_vars, NEW r \in Run, NEW f \in File,
         ledger'[r].outputs[f] # ledger[r].outputs[f], pc[r] # "idle"
  PROVE  /\ ledger[r].inputs[f] = None
         /\ ledger[r].outputs[f] = None
         /\ f # Executable
<1>0. /\ ShapeInv /\ CheckedInv(r) /\ IsLedger(ledger[r])
      /\ \A q \in Run : IsLedger(ledger[q]) /\ plan[q] \in Studies[q] \cup {None}
  BY DEF RunsInv, ProgressInv
<1>1. PICK q \in Run : Load(q) \/ Step(q) \/ Throw(q)
  BY DEF Next, vars, Edit, runVars
<1>2. PICK k : LedgerStep(q, k)
  BY <1>0, <1>1, LedgerSteps
<1>3. ledger'[q] = k /\ \A p \in Run \ {q} : ledger'[p] = ledger[p]
  BY <1>0, <1>2, LedgersKept DEF LedgerStep, ShapeInv
<1>4. q = r /\ ~ Load(r)
  BY <1>3 DEF Load
<1>5. Publish(r)
  BY <1>2, <1>3, <1>4 DEF LedgerStep
<1>6. f = Head(pending[r])
  <2>1. PICK bytes : ledger' = [ledger EXCEPT ![r].outputs[Head(pending[r])] = bytes]
    BY <1>5 DEF Publish
  <2>2. ledger'[r] = [ledger[r] EXCEPT !.outputs[Head(pending[r])] = bytes]
    BY <1>0, <2>1 DEF ShapeInv
  <2>3. ledger'[r].outputs = [ledger[r].outputs EXCEPT ![Head(pending[r])] = bytes]
    BY <1>0, <2>2 DEF IsLedger
  <2> QED
    BY <1>0, <2>3 DEF IsLedger
<1> QED
  BY <1>0, <1>5, <1>6 DEF Publish, CheckedInv, Collides

-----------------------------------------------------------------------------
(* Theorems                                                                *)

(* Runs and their ledgers stay well-formed and their checks hold until     *)
(* they publish.                                                           *)
THEOREM RunsInvariant == Spec => []RunsInv
<1>1. Init => RunsInv
  BY InitPipeline DEF PipelineInv
<1> QED
  BY <1>1, RunsKept, PTL DEF Spec

(* Every variable keeps its type.                                          *)
THEOREM TypeCorrect == Spec => []TypeOK
BY RunsInvariant, RunsHaveTypes, PTL

(* A run publishes over nothing it has read, nothing it has published      *)
(* before and never over the executable, whatever is asked of it.          *)
THEOREM InputsAlwaysSurvive == Spec => InputsSurvive
<1>1. RunsInv /\ [Next]_vars =>
        [\A r \in Run, f \in File :
           ledger'[r].outputs[f] # ledger[r].outputs[f] /\ pc[r] # "idle" =>
             /\ ledger[r].inputs[f] = None
             /\ ledger[r].outputs[f] = None
             /\ f # Executable]_vars
  BY InputsKept
<1> QED
  BY <1>1, RunsInvariant, PTL DEF Spec, InputsSurvive

(* The invariant of the publications is inductive.                         *)
LEMMA StepPipeline ==
  ASSUME ProductsExist, PipelineInv, [Next]_vars
  PROVE  PipelineInv'
BY RunsKept, PublicationsKept DEF PipelineInv

(* Under every name lies what was published there, in a file that is never *)
(* taken away.                                                             *)
THEOREM PublicationInvariant ==
  ASSUME ProductsExist
  PROVE  Spec => []PipelineInv
<1>1. Init => PipelineInv
  BY InitPipeline
<1>2. PipelineInv /\ [Next]_vars => PipelineInv'
  BY StepPipeline
<1> QED
  BY <1>1, <1>2, PTL DEF Spec

(* What a manifest lists of an output stands under its name, or what a run *)
(* that was told to overwrite has put there.                               *)
THEOREM RecordedOutputsAlwaysStand ==
  ASSUME ProductsExist
  PROVE  Spec => []RecordedOutputsStand
<1>1. PipelineInv => RecordedOutputsStand
  BY DEF PipelineInv, RecordedInv, RecordedOutputsStand, Stands
<1> QED
  BY <1>1, PublicationInvariant, PTL

-----------------------------------------------------------------------------
(* Records: the inductive invariant                                        *)

AtWork(r) == pc[r] \in {"writing", "publishing"}

(* A run follows the order of its study, and its stage at work has outputs *)
(* to publish.                                                             *)
OrderInv(r) ==
  /\ pc[r] = "refused" => plan[r] \in Studies[r] /\ ~ WellFormed(plan[r])
  /\ pc[r] = "loaded" => produced[r] = <<>>
  /\ Running(r) =>
       /\ WellFormed(plan[r])
       /\ produced[r] \in Seq(Ids(plan[r]))
       /\ \A i \in 1..Len(produced[r]) : produced[r][i] = ExecutionOrder(plan[r])[i]
  /\ pc[r] \in {"recording", "linking"} => AllDone(r)
  /\ AtWork(r) => /\ pending[r] \in Seq(File)
                  /\ Range(pending[r]) \subseteq Range(plan[r].writes[Stage(r)])
  /\ pc[r] = "publishing" => pending[r] # <<>>

(* The files of the stages that are through and of the one at work.        *)
Due(r) ==
  {f \in File : \/ \E s \in Range(produced[r]) : f \in Range(plan[r].writes[s])
                \/ AtWork(r) /\ f \in Range(plan[r].writes[Stage(r)])}

(* They are published, each computed from inputs the ledger still has, but *)
(* for those the stage at work is yet to publish.                          *)
FilesInv(r) == Running(r) =>
  \A f \in File :
    /\ f \in Due(r) => \/ ledger[r].outputs[f] # None
                       \/ AtWork(r) /\ f \in Range(pending[r])
    /\ ledger[r].outputs[f] # None =>
         /\ f \in Due(r)
         /\ \A g \in File : ledger[r].outputs[f].from[g] \in {None, ledger[r].inputs[g]}

(* A stage that is through has the evidence of what it depends on.         *)
Told(st, evid, s) == \A src \in Ids(st) :
  evid[s][src] = IF src = s \/ src \in DependsOn(st, s) THEN evid[src][src] ELSE None

EvidenceInv(r) == Running(r) /\ pc[r] # "loaded" =>
  /\ evidence[r] = [s \in Ids(plan[r]) |-> evidence[r][s]]
  /\ \A s \in Ids(plan[r]) : evidence[r][s] = [src \in Ids(plan[r]) |-> evidence[r][s][src]]
  /\ \A s \in Range(produced[r]) : Told(plan[r], evidence[r], s)

IsRecord(m) ==
  /\ IsExecutionOrder(m.order, m.study)
  /\ DOMAIN m.outputs = File
  /\ \A f \in File :
       IF \E s \in Ids(m.study) : f \in Range(m.study.writes[s])
       THEN /\ m.outputs[f] # None
            /\ \A g \in File : m.outputs[f].from[g] \in {None, m.inputs[g]}
       ELSE m.outputs[f] = None

OrderedInv == RunsInv /\ \A r \in Run : OrderInv(r)

EvidencedInv ==
  /\ OrderedInv
  /\ \A r \in Run : EvidenceInv(r)
  /\ EvidenceComesFromItsSource

WholeInv ==
  /\ OrderedInv
  /\ \A r \in Run : FilesInv(r)
  /\ \A m \in records : IsRecord(m)

-----------------------------------------------------------------------------
(* The order is followed                                                   *)

(* A study that is accepted, and the order of its stages.                  *)
LEMMA AcceptedStudy ==
  ASSUME NEW r \in Run, NEW st \in Studies[r]
  PROVE  /\ IsStudy(st) /\ Len(st.declared) \in Nat
         /\ \A s \in Ids(st) : st.writes[s] \in Seq(File)
         /\ WellFormed(st) => /\ Ordered(st, ExecutionOrder(st))
                              /\ Len(ExecutionOrder(st)) = Len(st.declared)
                              /\ IsExecutionOrder(ExecutionOrder(st), st)
                              /\ Defined(st)
<1>1. st \in UNION Range(Studies)
  BY PipelineAssumption DEF Range
<1>2. IsStudy(st) /\ Len(st.declared) \in Nat /\ \A s \in Ids(st) : st.writes[s] \in Seq(File)
  BY <1>1, PipelineAssumption DEF IsStudy, Ids
<1>3. WellFormed(st) => Len(ExecutionOrder(st)) = Len(st.declared) /\ Defined(st)
  BY DEF WellFormed, Defined
<1> QED
  BY <1>2, <1>3, OrderExecutes

(* The next stage is one of the study, has not run, and all it refers to   *)
(* has.                                                                    *)
LEMMA StageFacts ==
  ASSUME NEW r \in Run, ProgressInv(r), OrderInv(r), Running(r), ~ AllDone(r)
  PROVE  /\ Stage(r) \in Ids(plan[r])
         /\ Stage(r) \notin Range(produced[r])
         /\ plan[r].refs[Stage(r)] \subseteq Range(produced[r])
         /\ Stage(r) = ExecutionOrder(plan[r])[Len(produced[r]) + 1]
<1> DEFINE order == ExecutionOrder(plan[r])
           k == Len(produced[r])
<1>1. /\ Ordered(plan[r], order) /\ Len(order) = Len(plan[r].declared)
      /\ Len(plan[r].declared) \in Nat
  BY AcceptedStudy DEF ProgressInv, OrderInv
<1>2. /\ k \in Nat /\ k < Len(order) /\ Stage(r) = order[k + 1]
      /\ Range(produced[r]) = {produced[r][i] : i \in 1..k}
  <2>1. produced[r] \in Seq(Ids(plan[r])) /\ k <= Len(plan[r].declared)
    BY DEF OrderInv, ProgressInv
  <2> QED
    BY <1>1, <2>1 DEF AllDone, Stage, Range
<1>3. Range(produced[r]) = {order[i] : i \in 1..k}
  BY <1>2 DEF OrderInv
<1> HIDE DEF order, k
<1>4. order \in Seq(Ids(plan[r])) /\ DOMAIN order = 1..Len(order) /\ Len(order) \in Nat
  BY <1>1 DEF Ordered
<1>5. k + 1 \in DOMAIN order /\ (k + 1) - 1 = k /\ \A i \in 1..k : i \in DOMAIN order /\ i # k + 1
  BY <1>2, <1>4
<1>6. order[k + 1] \in Ids(plan[r])
  BY <1>4, <1>5
<1>7. \A i \in 1..k : order[i] # order[k + 1]
  BY <1>1, <1>5 DEF Ordered, IsInjective
<1>8. plan[r].refs[order[k + 1]] \subseteq {order[j] : j \in 1..k}
  BY <1>1, <1>5 DEF Ordered
<1> QED
  BY <1>2, <1>3, <1>6, <1>7, <1>8 DEF order, k

(* What a run knows of its stages and files stays true when another moves. *)
LEMMA OtherRecordKept ==
  ASSUME NEW q \in Run, pc'[q] = pc[q], plan'[q] = plan[q], ledger'[q] = ledger[q],
         produced'[q] = produced[q], evidence'[q] = evidence[q], pending'[q] = pending[q]
  PROVE  /\ OrderInv(q) => OrderInv(q)'
         /\ FilesInv(q) => FilesInv(q)'
         /\ EvidenceInv(q) => EvidenceInv(q)'
<1>1. /\ Running(q)' <=> Running(q)
      /\ AtWork(q)' <=> AtWork(q)
      /\ AllDone(q)' <=> AllDone(q)
      /\ Stage(q)' = Stage(q)
  BY DEF Running, AtWork, AllDone, Stage
<1>2. Due(q)' = Due(q)
  BY <1>1 DEF Due
<1>3. OrderInv(q) => OrderInv(q)'
  BY <1>1, <1>2 DEF OrderInv
<1>4. FilesInv(q) => FilesInv(q)'
  BY <1>1, <1>2 DEF FilesInv
<1>5. EvidenceInv(q) => EvidenceInv(q)'
  <2>1. PICK st, ev, pr : st = plan[q] /\ ev = evidence[q] /\ pr = produced[q]
    OBVIOUS
  <2>2. plan'[q] = st /\ evidence'[q] = ev /\ produced'[q] = pr /\ pc'[q] = pc[q]
    BY <2>1
  <2> QED
    BY <1>1, <2>1, <2>2 DEF EvidenceInv
<1> QED
  BY <1>3, <1>4, <1>5

(* A run's own step adds to its order the stage that is next in it.        *)
LEMMA OwnOrderKept ==
  ASSUME ShapeInv, NEW r \in Run, ProgressInv(r), OrderInv(r), Load(r) \/ Step(r) \/ Throw(r)
  PROVE  OrderInv(r)'
<1> USE DEF Goto
<1>0. /\ pc \in [Run -> Active \cup {"idle", "refused", "failed", "done"}]
      /\ plan = [q \in Run |-> plan[q]] /\ produced = [q \in Run |-> produced[q]]
      /\ pending = [q \in Run |-> pending[q]]
  BY DEF ShapeInv
<1>1. CASE Load(r)
  <2>1. PICK st \in Studies[r] :
          /\ plan' = [plan EXCEPT ![r] = st]
          /\ pc' = [pc EXCEPT ![r] = IF WellFormed(st) THEN "loaded" ELSE "refused"]
    BY <1>1 DEF Load
  <2>2. /\ plan'[r] = st /\ produced'[r] = <<>>
        /\ pc'[r] = IF WellFormed(st) THEN "loaded" ELSE "refused"
    BY <1>0, <1>1, <2>1 DEF Load, ProgressInv
  <2>3. <<>> \in Seq(Ids(st)) /\ Len(<<>>) = 0
    OBVIOUS
  <2> QED
    BY <2>2, <2>3 DEF OrderInv, Running, Active, AtWork
<1>2. CASE Begin(r) \/ ReadInput(r) \/ ReserveOutputs(r) \/ CloseRun(r) \/ PrepareManifest(r)
  <2>1. /\ UNCHANGED <<plan, produced, pending>> /\ Running(r)
        /\ pc'[r] \in {"reading", "stages", "recording", "linking"}
        /\ pc'[r] \in {"recording", "linking"} => AllDone(r)
    BY <1>0, <1>2 DEF Begin, ReadInput, ReserveOutputs, CloseRun, PrepareManifest, Running, Active,
       OrderInv
  <2> QED
    BY <2>1 DEF OrderInv, Running, Active, AtWork, AllDone
<1>3. CASE ReuseManifest(r) \/ LinkManifest(r) \/ Throw(r)
  <2>1. pc'[r] \in {"done", "failed"}
    BY <1>0, <1>3 DEF ReuseManifest, LinkManifest, Throw
  <2> QED
    BY <2>1 DEF OrderInv, Running, Active, AtWork
<1>4. CASE EnterStage(r)
  <2>1. /\ UNCHANGED <<plan, produced>> /\ pc[r] = "stages" /\ pc'[r] = "writing" /\ ~ AllDone(r)
        /\ pending'[r] = plan[r].writes[Stage(r)]
    BY <1>0, <1>4 DEF EnterStage
  <2>2. Running(r) /\ Stage(r)' = Stage(r)
    BY <2>1 DEF Running, Active, Stage
  <2>3. plan[r].writes[Stage(r)] \in Seq(File)
    BY <2>1, <2>2, StageFacts, AcceptedStudy DEF ProgressInv
  <2> QED
    BY <2>1, <2>2, <2>3 DEF OrderInv, AtWork, Running, Active
<1>5. CASE CheckOutput(r)
  <2>1. /\ UNCHANGED <<plan, produced, pending>> /\ pc[r] = "writing" /\ pc'[r] = "publishing"
        /\ pending[r] # <<>>
    BY <1>0, <1>5 DEF CheckOutput
  <2>2. Stage(r)' = Stage(r)
    BY <2>1 DEF Stage
  <2> QED
    BY <2>1, <2>2 DEF OrderInv, AtWork, Running, Active
<1>6. CASE Publish(r)
  <2>1. /\ UNCHANGED <<plan, produced>> /\ pc[r] = "publishing" /\ pc'[r] = "writing"
        /\ pending'[r] = Tail(pending[r])
    BY <1>0, <1>6 DEF Publish
  <2>2. Stage(r)' = Stage(r)
    BY <2>1 DEF Stage
  <2>3. pending[r] \in Seq(File) /\ pending[r] # <<>>
    BY <2>1 DEF OrderInv, AtWork
  <2>4. Tail(pending[r]) \in Seq(File) /\ Range(Tail(pending[r])) \subseteq Range(pending[r])
    BY <2>3 DEF Range
  <2> QED
    BY <2>1, <2>2, <2>4 DEF OrderInv, AtWork, Running, Active
<1>7. CASE LeaveStage(r)
  <2>1. /\ UNCHANGED plan /\ pc[r] = "writing" /\ pc'[r] = "stages"
        /\ produced'[r] = Append(produced[r], Stage(r))
    BY <1>0, <1>7 DEF LeaveStage
  <2>2. Running(r) /\ ~ AllDone(r) /\ produced[r] \in Seq(Ids(plan[r]))
    BY <2>1 DEF Running, Active, ProgressInv, OrderInv
  <2>3. /\ Stage(r) \in Ids(plan[r])
        /\ Stage(r) = ExecutionOrder(plan[r])[Len(produced[r]) + 1]
    BY <2>2, StageFacts
  <2>4. /\ produced'[r] \in Seq(Ids(plan[r])) /\ Len(produced'[r]) = Len(produced[r]) + 1
        /\ \A i \in 1..Len(produced[r]) : produced'[r][i] = produced[r][i]
        /\ produced'[r][Len(produced[r]) + 1] = Stage(r) /\ Len(produced[r]) \in Nat
    BY <2>1, <2>2, <2>3, AppendProperties
  <2>5. \A i \in 1..Len(produced'[r]) : produced'[r][i] = ExecutionOrder(plan[r])[i]
    <3>1. \A i \in 1..Len(produced'[r]) : i \in 1..Len(produced[r]) \/ i = Len(produced[r]) + 1
      BY <2>4
    <3> QED
      BY <2>2, <2>3, <2>4, <3>1 DEF OrderInv
  <2> QED
    BY <2>1, <2>2, <2>4, <2>5 DEF OrderInv, Running, Active, AtWork
<1> QED
  BY <1>1, <1>2, <1>3, <1>4, <1>5, <1>6, <1>7 DEF Step

(* That the order is followed is inductive.                                *)
LEMMA OrderKept ==
  ASSUME OrderedInv, [Next]_vars
  PROVE  OrderedInv'
<1>1. RunsInv'
  BY RunsKept DEF OrderedInv
<1>2. ASSUME NEW q \in Run
      PROVE  OrderInv(q)'
  <2>0. ShapeInv /\ ProgressInv(q) /\ OrderInv(q)
    BY DEF OrderedInv, RunsInv
  <2>1. ASSUME NEW r \in Run, Load(r) \/ Step(r) \/ Throw(r)
        PROVE  OrderInv(q)'
    <3>1. CASE r = q
      BY <2>0, <2>1, <3>1, OwnOrderKept
    <3>2. CASE r # q
      <4>1. ProgressInv(r)
        BY DEF OrderedInv, RunsInv
      <4>2. Moved(r)
        BY <2>0, <2>1, <4>1, RunMoves DEF ProgressInv
      <4> QED
        BY <2>0, <3>2, <4>2, OtherRecordKept DEF Moved
    <3> QED
      BY <3>1, <3>2
  <2>2. ASSUME UNCHANGED runVars
        PROVE  OrderInv(q)'
    BY <2>0, <2>2, OtherRecordKept DEF runVars
  <2> QED
    BY <2>1, <2>2 DEF Next, Edit, vars, runVars
<1> QED
  BY <1>1, <1>2 DEF OrderedInv

(* No run has begun at first.                                              *)
LEMMA InitOrder ==
  ASSUME Init
  PROVE  OrderedInv
<1>1. RunsInv
  BY InitPipeline DEF PipelineInv
<1>2. \A r \in Run : pc[r] = "idle"
  BY DEF Init
<1> QED
  BY <1>1, <1>2 DEF OrderedInv, OrderInv, Running, Active, AtWork

-----------------------------------------------------------------------------
(* Evidence                                                                *)

(* What a stage's evidence becomes is what it may claim of others and what *)
(* it was given.                                                           *)
LEMMA NothingMerged ==
  ASSUME NEW st, NEW evid, NEW s \in Ids(st), NEW claim, Acceptable(s, claim, st, evid),
         NEW src \in Ids(st), src # s, \A u \in st.refs[s] : evid[u][src] = None
  PROVE  Merge(s, claim, st, evid)[src] = None
<1>1. claim[src] = None
  BY DEF Acceptable
<1>2. Inherited(s, st, evid)[src] = None
  BY DEF Inherited
<1> QED
  BY <1>1, <1>2 DEF Merge

(* And what a stage it refers to passes on.                                *)
LEMMA SomethingMerged ==
  ASSUME NEW st, NEW evid, NEW s \in Ids(st), NEW claim, Acceptable(s, claim, st, evid),
         NEW src \in Ids(st), NEW u \in st.refs[s], evid[u][src] # None
  PROVE  Merge(s, claim, st, evid)[src] = evid[u][src]
BY DEF Acceptable

(* So a stage that follows all it refers to is told of just those it       *)
(* depends on, and nothing changes for those before it.                    *)
LEMMA StageIsTold ==
  ASSUME NEW st, Defined(st), NEW evid, evid = [t \in Ids(st) |-> evid[t]],
         NEW through, through \subseteq Ids(st),
         NEW s \in Ids(st), s \notin through, st.refs[s] \subseteq through,
         \A t \in through : Told(st, evid, t) /\ DependsOn(st, t) \subseteq through,
         NEW claim, Acceptable(s, claim, st, evid),
         NEW told, told = [evid EXCEPT ![s] = Merge(s, claim, st, evid)]
  PROVE  \A t \in through \cup {s} : Told(st, told, t)
<1> DEFINE merged == Merge(s, claim, st, evid)
<1>1. told[s] = merged /\ \A t \in Ids(st) \ {s} : told[t] = evid[t]
  OBVIOUS
<1>2. ASSUME NEW t \in through
      PROVE  Told(st, told, t)
  <2>1. \A src \in Ids(st) : src = t \/ src \in DependsOn(st, t) => src \in Ids(st) \ {s}
    BY <1>2
  <2>2. told[t] = evid[t] /\ Told(st, evid, t)
    BY <1>1, <1>2
  <2> QED
    BY <1>1, <2>1, <2>2 DEF Told
<1>3. ASSUME NEW src \in Ids(st), src # s
      PROVE  merged[src] = IF src \in DependsOn(st, s) THEN evid[src][src] ELSE None
  <2>1. \A u \in st.refs[s] :
          evid[u][src] = IF src = u \/ src \in DependsOn(st, u) THEN evid[src][src] ELSE None
    BY DEF Told
  <2>2. src \in DependsOn(st, s) <=> \E u \in st.refs[s] : src = u \/ src \in DependsOn(st, u)
    BY DependsUnfolds
  <2>3. CASE \A u \in st.refs[s] : evid[u][src] = None
    <3>1. merged[src] = None
      BY <1>3, <2>3, NothingMerged
    <3> QED
      BY <2>1, <2>2, <2>3, <3>1
  <2>4. ASSUME NEW u \in st.refs[s], evid[u][src] # None
        PROVE  merged[src] = IF src \in DependsOn(st, s) THEN evid[src][src] ELSE None
    <3>1. merged[src] = evid[u][src]
      BY <1>3, <2>4, SomethingMerged
    <3> QED
      BY <2>1, <2>2, <2>4, <3>1
  <2> QED
    BY <2>3, <2>4
<1>4. Told(st, told, s)
  <2> HIDE DEF merged
  <2>1. \A src \in DependsOn(st, s) : src \in through
    <3>1. \A src : src \in DependsOn(st, s)
             => \E u \in st.refs[s] : src = u \/ src \in DependsOn(st, u)
      BY DependsUnfolds
    <3> QED
      BY <3>1
  <2>2. ASSUME NEW src \in Ids(st), src # s
        PROVE  told[s][src] = IF src \in DependsOn(st, s) THEN told[src][src] ELSE None
    BY <1>1, <1>3, <2>2
  <2>3. ASSUME NEW src \in Ids(st), src = s
        PROVE  told[s][src] = told[src][src]
    BY <2>3
  <2> QED
    BY <2>2, <2>3 DEF Told
<1> QED
  BY <1>2, <1>4

(* The stages that are through, and what they depend on.                   *)
LEMMA ThroughFacts ==
  ASSUME NEW r \in Run, ProgressInv(r), OrderInv(r), Running(r)
  PROVE  /\ Range(produced[r]) \subseteq Ids(plan[r])
         /\ \A t \in Range(produced[r]) : DependsOn(plan[r], t) \subseteq Range(produced[r])
         /\ Defined(plan[r])
<1> DEFINE order == ExecutionOrder(plan[r])
           k == Len(produced[r])
<1>1. /\ Ordered(plan[r], order) /\ Len(order) = Len(plan[r].declared) /\ Defined(plan[r])
      /\ Len(plan[r].declared) \in Nat
  BY AcceptedStudy DEF ProgressInv, OrderInv
<1>2. /\ k \in Nat /\ k <= Len(order)
      /\ Range(produced[r]) = {produced[r][i] : i \in 1..k}
      /\ Range(produced[r]) \subseteq Ids(plan[r])
  <2>1. produced[r] \in Seq(Ids(plan[r])) /\ k <= Len(plan[r].declared)
    BY DEF OrderInv, ProgressInv
  <2> QED
    BY <1>1, <2>1 DEF Range
<1>3. Range(produced[r]) = {order[i] : i \in 1..k}
  BY <1>2 DEF OrderInv
<1> HIDE DEF order, k
<1>4. ASSUME NEW i \in 1..k
      PROVE  DependsOn(plan[r], order[i]) \subseteq {order[j] : j \in 1..k}
  <2>1. i \in DOMAIN order /\ 1..(i - 1) \subseteq 1..k
    BY <1>1, <1>2 DEF Ordered
  <2>2. DependsOn(plan[r], order[i]) \subseteq {order[j] : j \in 1..(i - 1)}
    BY <1>1, <2>1, DependsOnEarlier
  <2> QED
    BY <2>1, <2>2
<1> QED
  BY <1>1, <1>2, <1>3, <1>4

(* When all are through, that is every stage, in the order of the study.   *)
LEMMA AllThrough ==
  ASSUME NEW r \in Run, ProgressInv(r), OrderInv(r), Running(r), AllDone(r)
  PROVE  /\ produced[r] = ExecutionOrder(plan[r])
         /\ Range(produced[r]) = Ids(plan[r])
         /\ IsExecutionOrder(produced[r], plan[r])
<1>1. /\ ExecutionOrder(plan[r]) \in Seq(Ids(plan[r]))
      /\ Len(ExecutionOrder(plan[r])) = Len(plan[r].declared)
      /\ IsExecutionOrder(ExecutionOrder(plan[r]), plan[r])
  BY AcceptedStudy DEF ProgressInv, OrderInv, Ordered
<1>2. /\ produced[r] \in Seq(Ids(plan[r])) /\ Len(produced[r]) = Len(plan[r].declared)
      /\ \A i \in 1..Len(produced[r]) : produced[r][i] = ExecutionOrder(plan[r])[i]
  BY DEF OrderInv, AllDone
<1>3. produced[r] = ExecutionOrder(plan[r])
  BY <1>1, <1>2, SeqEqual
<1> QED
  BY <1>1, <1>3 DEF IsExecutionOrder

(* One more stage is through.                                              *)
LEMMA StageAppended ==
  ASSUME NEW S, NEW through \in Seq(S), NEW s \in S
  PROVE  Range(Append(through, s)) = Range(through) \cup {s}
<1>1. /\ Len(through) \in Nat /\ DOMAIN through = 1..Len(through)
      /\ \A i \in 1..Len(through) : Append(through, s)[i] = through[i]
      /\ Append(through, s)[Len(through) + 1] = s
      /\ DOMAIN Append(through, s) = 1..(Len(through) + 1)
  BY AppendProperties
<1> QED
  BY <1>1 DEF Range

(* A run's own step keeps the stages that are through told.                *)
LEMMA OwnEvidenceKept ==
  ASSUME ShapeInv, NEW r \in Run, ProgressInv(r), OrderInv(r), EvidenceInv(r),
         Load(r) \/ Step(r) \/ Throw(r)
  PROVE  EvidenceInv(r)'
<1> USE DEF Goto
<1>0. /\ pc \in [Run -> Active \cup {"idle", "refused", "failed", "done"}]
      /\ plan = [q \in Run |-> plan[q]] /\ produced = [q \in Run |-> produced[q]]
      /\ evidence = [q \in Run |-> evidence[q]]
  BY DEF ShapeInv
<1>1. CASE Load(r) \/ ReuseManifest(r) \/ LinkManifest(r) \/ Throw(r)
  <2>1. pc'[r] \in {"loaded", "refused", "done", "failed"}
    BY <1>0, <1>1 DEF Load, ReuseManifest, LinkManifest, Throw
  <2> QED
    BY <2>1 DEF EvidenceInv, Running, Active
<1>2. CASE Begin(r)
  <2> DEFINE none == [s \in Ids(plan[r]) |-> [src \in Ids(plan[r]) |-> None]]
  <2>1. /\ UNCHANGED <<plan, produced>> /\ pc[r] = "loaded" /\ evidence'[r] = none
    BY <1>0, <1>2 DEF Begin
  <2>2. produced[r] = <<>> /\ Range(<<>>) = {}
    BY <2>1 DEF OrderInv, Range
  <2>3. /\ none = [s \in Ids(plan[r]) |-> none[s]]
        /\ \A s \in Ids(plan[r]) : none[s] = [src \in Ids(plan[r]) |-> none[s][src]]
    OBVIOUS
  <2> HIDE DEF none
  <2> QED
    BY <2>1, <2>2, <2>3 DEF EvidenceInv
<1>3. CASE ReadInput(r) \/ ReserveOutputs(r) \/ EnterStage(r) \/ CheckOutput(r) \/ Publish(r)
           \/ CloseRun(r) \/ PrepareManifest(r)
  <2>1. /\ UNCHANGED <<plan, produced, evidence>> /\ Running(r) /\ pc[r] # "loaded"
    BY <1>3 DEF ReadInput, ReserveOutputs, EnterStage, CheckOutput, Publish, CloseRun,
       PrepareManifest, Running, Active
  <2> QED
    BY <2>1 DEF EvidenceInv, Told
<1>4. CASE LeaveStage(r)
  <2> DEFINE st == plan[r]
             s == Stage(r)
             evid == evidence[r]
  <2>1. PICK claim \in Claims(s, st, evid) :
          /\ Acceptable(s, claim, st, evid)
          /\ evidence' = [evidence EXCEPT ![r][s] = Merge(s, claim, st, evid)]
    BY <1>4 DEF LeaveStage
  <2>2. PICK merged : merged = Merge(s, claim, st, evid)
    OBVIOUS
  <2>3. /\ UNCHANGED plan /\ pc[r] = "writing" /\ produced'[r] = Append(produced[r], s)
        /\ evidence'[r] = [evid EXCEPT ![s] = merged]
    BY <1>0, <1>4, <2>1, <2>2 DEF LeaveStage
  <2>4. /\ Running(r) /\ ~ AllDone(r) /\ produced[r] \in Seq(Ids(st))
        /\ evid = [t \in Ids(st) |-> evid[t]]
        /\ \A t \in Ids(st) : evid[t] = [src \in Ids(st) |-> evid[t][src]]
        /\ \A t \in Range(produced[r]) : Told(st, evid, t)
    BY <2>3 DEF Running, Active, ProgressInv, OrderInv, EvidenceInv
  <2>5. s \in Ids(st) /\ s \notin Range(produced[r]) /\ st.refs[s] \subseteq Range(produced[r])
    BY <2>4, StageFacts
  <2>6. /\ Defined(st) /\ Range(produced[r]) \subseteq Ids(st)
        /\ \A t \in Range(produced[r]) : DependsOn(st, t) \subseteq Range(produced[r])
    BY <2>4, ThroughFacts
  <2>7. merged = [src \in Ids(st) |-> merged[src]]
    BY <2>2 DEF Merge
  <2>8. Range(produced'[r]) = Range(produced[r]) \cup {s}
    BY <2>3, <2>4, <2>5, StageAppended
  <2>9. PICK told : told = [evid EXCEPT ![s] = merged]
    OBVIOUS
  <2>10. \A t \in Range(produced[r]) \cup {s} : Told(st, told, t)
    <3>1. Acceptable(s, claim, st, evid) /\ told = [evid EXCEPT ![s] = Merge(s, claim, st, evid)]
      BY <2>1, <2>2, <2>9
    <3> HIDE DEF s, st, evid
    <3> QED
      BY <2>4, <2>5, <2>6, <3>1, StageIsTold
  <2>11. /\ told = [t \in Ids(st) |-> told[t]]
         /\ \A t \in Ids(st) : told[t] = [src \in Ids(st) |-> told[t][src]]
    <3> HIDE DEF s, st, evid
    <3> QED
      BY <2>4, <2>7, <2>9
  <2>12. evidence'[r] = told /\ plan'[r] = st
    BY <2>3, <2>9
  <2> HIDE DEF s
  <2> QED
    BY <2>8, <2>10, <2>11, <2>12 DEF EvidenceInv
<1> QED
  BY <1>1, <1>2, <1>3, <1>4 DEF Step

(* A record is made only when a run links its manifest.                    *)
LEMMA RecordsGrow ==
  ASSUME [Next]_vars
  PROVE  records' = records \/ \E r \in Run : LinkManifest(r)
BY DEF Next, vars, Edit, Step, Load, Begin, ReadInput, ReserveOutputs, EnterStage, CheckOutput,
   Publish, LeaveStage, CloseRun, ReuseManifest, PrepareManifest, Throw, fileVars

(* The invariant of the evidence is inductive.                             *)
LEMMA EvidenceKept ==
  ASSUME EvidencedInv, [Next]_vars
  PROVE  EvidencedInv'
<1>1. OrderedInv'
  BY OrderKept DEF EvidencedInv
<1>0. ShapeInv /\ \A q \in Run : ProgressInv(q) /\ OrderInv(q) /\ EvidenceInv(q)
  BY DEF EvidencedInv, OrderedInv, RunsInv
<1>2. ASSUME NEW q \in Run
      PROVE  EvidenceInv(q)'
  <2>1. ASSUME NEW r \in Run, Load(r) \/ Step(r) \/ Throw(r)
        PROVE  EvidenceInv(q)'
    <3>1. CASE r = q
      BY <1>0, <2>1, <3>1, OwnEvidenceKept
    <3>2. CASE r # q
      <4>1. Moved(r)
        BY <1>0, <2>1, RunMoves DEF ProgressInv
      <4> QED
        BY <1>0, <3>2, <4>1, OtherRecordKept DEF Moved
    <3> QED
      BY <3>1, <3>2
  <2>2. ASSUME UNCHANGED runVars
        PROVE  EvidenceInv(q)'
    BY <1>0, <2>2, OtherRecordKept DEF runVars
  <2> QED
    BY <2>1, <2>2 DEF Next, Edit, vars, runVars
<1>3. ASSUME NEW r \in Run, LinkManifest(r)
      PROVE  EvidenceComesFromItsSource'
  <2>1. /\ pc[r] = "linking" /\ records' = records \cup {Manifest(r)}
    BY <1>3 DEF LinkManifest
  <2>2. Running(r) /\ AllDone(r)
    BY <1>0, <2>1 DEF OrderInv, Running, Active
  <2>3. \A s \in Ids(plan[r]) : Told(plan[r], evidence[r], s)
    BY <1>0, <2>1, <2>2, AllThrough DEF EvidenceInv
  <2>4. Manifest(r).study = plan[r] /\ Manifest(r).evidence = evidence[r]
    BY DEF Manifest
  <2> QED
    BY <2>1, <2>3, <2>4 DEF EvidencedInv, EvidenceComesFromItsSource, Told
<1>4. ASSUME records' = records
      PROVE  EvidenceComesFromItsSource'
  BY <1>4 DEF EvidencedInv, EvidenceComesFromItsSource
<1> QED
  BY <1>1, <1>2, <1>3, <1>4, RecordsGrow DEF EvidencedInv

(* Every stage of every run, finished or not, has been told of the stages  *)
(* it depends on and of no other.                                          *)
THEOREM EvidenceInvariant == Spec => []EvidencedInv
<1>1. Init => EvidencedInv
  <2> SUFFICES ASSUME Init PROVE EvidencedInv
    OBVIOUS
  <2>1. OrderedInv
    BY InitOrder
  <2>2. \A r \in Run : ~ Running(r)
    BY DEF Init, Running, Active
  <2> QED
    BY <2>1, <2>2 DEF EvidencedInv, EvidenceInv, EvidenceComesFromItsSource, Init
<1> QED
  BY <1>1, EvidenceKept, PTL DEF Spec

(* A manifest has for each stage the evidence of the stages it depends on, *)
(* directly or through others, as they computed it, and no other.          *)
THEOREM RecordedEvidenceIsComplete == Spec => []EvidenceComesFromItsSource
<1>1. EvidencedInv => EvidenceComesFromItsSource
  BY DEF EvidencedInv
<1> QED
  BY <1>1, EvidenceInvariant, PTL

-----------------------------------------------------------------------------
(* Files                                                                   *)

(* Reading takes nothing from a ledger that was there.                     *)
InputsGrow(r) ==
  /\ ledger'[r].outputs = ledger[r].outputs
  /\ \A g \in File : ledger[r].inputs[g] # None => ledger'[r].inputs[g] = ledger[r].inputs[g]

(* Preflight and the late reads of a stage only add to the inputs.         *)
LEMMA ReadingAdds ==
  ASSUME ShapeInv, NEW r \in Run, IsLedger(ledger[r]), ReadInput(r) \/ EnterStage(r)
  PROVE  InputsGrow(r)
<1>1. \E inputs : /\ inputs = [g \in File |-> inputs[g]]
                  /\ ledger' = [ledger EXCEPT ![r] = [ledger[r] EXCEPT !.inputs = inputs]]
                  /\ \A g \in File : ledger[r].inputs[g] # None => inputs[g] = ledger[r].inputs[g]
  <2>1. CASE ReadInput(r)
    <3> DEFINE f == plan[r].inputs[role[r]]
               inputs == [ledger[r].inputs EXCEPT ![f] = Snapshot(r, f)]
    <3>1. ledger' = [ledger EXCEPT ![r] = [ledger[r] EXCEPT !.inputs = inputs]]
      BY <2>1 DEF ReadInput
    <3>2. inputs = [g \in File |-> inputs[g]]
      BY DEF IsLedger
    <3>3. \A g \in File : ledger[r].inputs[g] # None => inputs[g] = ledger[r].inputs[g]
      BY DEF IsLedger, Snapshot
    <3> HIDE DEF inputs
    <3> QED
      BY <3>1, <3>2, <3>3
  <2>2. CASE EnterStage(r)
    <3> DEFINE late == plan[r].late[Stage(r)]
               inputs == [g \in File |-> IF g \in late THEN Snapshot(r, g) ELSE ledger[r].inputs[g]]
    <3>1. ledger' = [ledger EXCEPT ![r] = [ledger[r] EXCEPT !.inputs = inputs]]
      BY <2>2 DEF EnterStage
    <3>2. inputs = [g \in File |-> inputs[g]]
      OBVIOUS
    <3>3. \A g \in File : ledger[r].inputs[g] # None => inputs[g] = ledger[r].inputs[g]
      BY DEF Snapshot
    <3> HIDE DEF inputs
    <3> QED
      BY <3>1, <3>2, <3>3
  <2> QED
    BY <2>1, <2>2
<1>2. PICK inputs : /\ inputs = [g \in File |-> inputs[g]]
                    /\ ledger' = [ledger EXCEPT ![r] = [ledger[r] EXCEPT !.inputs = inputs]]
                    /\ \A g \in File : ledger[r].inputs[g] # None => inputs[g] = ledger[r].inputs[g]
  BY <1>1
<1>3. PICK k : k = [ledger[r] EXCEPT !.inputs = inputs]
  OBVIOUS
<1>4. k.inputs = inputs /\ k.outputs = ledger[r].outputs
  BY <1>2, <1>3, LedgerRead
<1>5. ledger'[r] = k
  BY <1>2, <1>3, LedgersKept DEF ShapeInv
<1> QED
  BY <1>2, <1>4, <1>5 DEF InputsGrow

(* The outputs of a run are as they should be when those due and those yet *)
(* to come are these.                                                      *)
OutputsFit(l, due, coming) ==
  \A f \in File :
    /\ f \in due => l.outputs[f] # None \/ f \in coming
    /\ l.outputs[f] # None =>
         /\ f \in due
         /\ \A g \in File : l.outputs[f].from[g] \in {None, l.inputs[g]}

Coming(r) == IF AtWork(r) THEN Range(pending[r]) ELSE {}

(* The same in terms of the ledger alone.                                  *)
LEMMA FilesFit ==
  ASSUME NEW r \in Run
  PROVE  FilesInv(r) <=> (Running(r) => OutputsFit(ledger[r], Due(r), Coming(r)))
BY DEF FilesInv, OutputsFit, Coming

(* A run's own step publishes what is due, from inputs the ledger has and  *)
(* keeps.                                                                  *)
LEMMA OwnFilesKept ==
  ASSUME ProductsExist, ShapeInv, NEW r \in Run, ProgressInv(r), OrderInv(r), FilesInv(r),
         Load(r) \/ Step(r) \/ Throw(r)
  PROVE  FilesInv(r)'
<1> USE DEF Goto
<1>0. /\ pc \in [Run -> Active \cup {"idle", "refused", "failed", "done"}]
      /\ plan = [q \in Run |-> plan[q]] /\ produced = [q \in Run |-> produced[q]]
      /\ pending = [q \in Run |-> pending[q]]
  BY DEF ShapeInv
<1>1. CASE Load(r)
  <2>1. pc'[r] \in {"loaded", "refused"} /\ produced'[r] = <<>>
    BY <1>0, <1>1 DEF Load, ProgressInv
  <2>2. Due(r)' = {}
    BY <2>1 DEF Due, AtWork, Range
  <2>3. ledger'[r].outputs = NoFiles
    <3>1. PICK k : LedgerStep(r, k)
      BY <1>1, LedgerSteps DEF ProgressInv
    <3> QED
      BY <1>1, <3>1, LedgersKept DEF LedgerStep, ShapeInv
  <2> QED
    BY <2>2, <2>3 DEF FilesInv, NoFiles
<1>2. CASE ReuseManifest(r) \/ LinkManifest(r) \/ Throw(r)
  <2>1. pc'[r] \in {"done", "failed"}
    BY <1>0, <1>2 DEF ReuseManifest, LinkManifest, Throw
  <2> QED
    BY <2>1 DEF FilesInv, Running, Active
<1>3. CASE Begin(r) \/ ReserveOutputs(r) \/ CheckOutput(r) \/ CloseRun(r) \/ PrepareManifest(r)
  <2>1. /\ UNCHANGED <<plan, ledger, produced, pending>> /\ Running(r)
        /\ AtWork(r)' <=> AtWork(r)
    BY <1>0, <1>3 DEF Begin, ReserveOutputs, CheckOutput, CloseRun, PrepareManifest, Running,
       Active, AtWork
  <2>2. Due(r)' = Due(r)
    BY <2>1 DEF Due, Stage
  <2> QED
    BY <2>1, <2>2 DEF FilesInv
<1>4. CASE ReadInput(r)
  <2>1. UNCHANGED <<pc, plan, produced, pending>> /\ Running(r)
    BY <1>4 DEF ReadInput, Running, Active
  <2>2. Due(r)' = Due(r) /\ (AtWork(r)' <=> AtWork(r))
    BY <2>1 DEF Due, Stage, AtWork
  <2>3. InputsGrow(r)
    BY <1>4, ReadingAdds DEF ProgressInv
  <2> QED
    BY <2>1, <2>2, <2>3 DEF FilesInv, InputsGrow
<1>5. CASE EnterStage(r)
  <2>1. /\ UNCHANGED <<plan, produced>> /\ pc[r] = "stages" /\ pc'[r] = "writing"
        /\ pending'[r] = plan[r].writes[Stage(r)]
    BY <1>0, <1>5 DEF EnterStage
  <2>2. Stage(r)' = Stage(r) /\ Running(r) /\ ~ AtWork(r) /\ AtWork(r)'
    BY <2>1 DEF Stage, Running, Active, AtWork
  <2>3. Due(r)' = Due(r) \cup {f \in File : f \in Range(pending'[r])}
    BY <2>1, <2>2 DEF Due
  <2>4. InputsGrow(r)
    BY <1>5, ReadingAdds DEF ProgressInv
  <2> QED
    BY <2>2, <2>3, <2>4 DEF FilesInv, InputsGrow
<1>6. CASE Publish(r)
  <2> DEFINE f == Head(pending[r])
  <2>0. PICK bytes : bytes = Product(Stage(r), f, ledger[r].inputs)
    OBVIOUS
  <2>1. /\ UNCHANGED <<plan, produced>> /\ pc[r] = "publishing" /\ pc'[r] = "writing"
        /\ pending'[r] = Tail(pending[r])
        /\ ledger' = [ledger EXCEPT ![r].outputs[f] = bytes]
    BY <1>0, <1>6, <2>0 DEF Publish
  <2>2. Stage(r)' = Stage(r) /\ Running(r) /\ AtWork(r) /\ AtWork(r)'
    BY <2>1 DEF Stage, Running, Active, AtWork
  <2>3. Due(r)' = Due(r)
    BY <2>1, <2>2 DEF Due
  <2>4. bytes # None /\ bytes.from = ledger[r].inputs
    BY <2>0 DEF ProductsExist, Product
  <2>5. pending[r] \in Seq(File) /\ pending[r] # <<>>
        /\ Range(pending[r]) \subseteq Range(plan[r].writes[Stage(r)])
    BY <2>1, <2>2 DEF OrderInv
  <2>6. f \in File /\ f \in Range(pending[r])
        /\ \A g \in Range(pending[r]) : g = f \/ g \in Range(Tail(pending[r]))
    <3>1. /\ f = pending[r][1] /\ 1 \in DOMAIN pending[r] /\ DOMAIN pending[r] = 1..Len(pending[r])
          /\ Len(pending[r]) \in Nat /\ f \in File
      BY <2>5
    <3>2. ASSUME NEW i \in 1..Len(pending[r]), i # 1
          PROVE  i - 1 \in DOMAIN Tail(pending[r]) /\ Tail(pending[r])[i - 1] = pending[r][i]
      BY <2>5, <3>1, <3>2
    <3> HIDE DEF f
    <3> HIDE DEF f
    <3>3. \A i \in DOMAIN pending[r] : i = 1 \/ pending[r][i] \in Range(Tail(pending[r]))
      BY <3>1, <3>2 DEF Range
    <3> QED
      BY <3>1, <3>3 DEF Range
  <2> HIDE DEF f
  <2>7. f \in Due(r)
    BY <2>2, <2>5, <2>6 DEF Due
  <2>8. IsLedger(ledger[r]) /\ ledger'[r] = [ledger[r] EXCEPT !.outputs[f] = bytes]
    BY <2>1 DEF ShapeInv, ProgressInv
  <2>9. PICK k : k = [ledger[r] EXCEPT !.outputs[f] = bytes]
    OBVIOUS
  <2>10. k.inputs = ledger[r].inputs /\ k.outputs = [ledger[r].outputs EXCEPT ![f] = bytes]
    BY <2>6, <2>8, <2>9, LedgerWritten
  <2>11. \A g \in File : k.outputs[g] = IF g = f THEN bytes ELSE ledger[r].outputs[g]
    BY <2>6, <2>8, <2>10 DEF IsLedger
  <2>12. OutputsFit(ledger[r], Due(r), Range(pending[r]))
    BY <2>2, FilesFit DEF Coming
  <2>13. OutputsFit(k, Due(r), Range(Tail(pending[r])))
    BY <2>4, <2>6, <2>7, <2>10, <2>11, <2>12 DEF OutputsFit
  <2>14. ledger'[r] = k
    BY <2>8, <2>9
  <2> QED
    BY <2>1, <2>2, <2>3, <2>13, <2>14 DEF FilesInv, OutputsFit
<1>7. CASE LeaveStage(r)
  <2>1. /\ UNCHANGED <<plan, ledger>> /\ pc[r] = "writing" /\ pc'[r] = "stages"
        /\ pending[r] = <<>> /\ produced'[r] = Append(produced[r], Stage(r))
    BY <1>0, <1>7 DEF LeaveStage
  <2>2. Running(r) /\ ~ AllDone(r) /\ produced[r] \in Seq(Ids(plan[r])) /\ AtWork(r) /\ ~ AtWork(r)'
    BY <2>1 DEF Running, Active, ProgressInv, OrderInv, AtWork
  <2>3. Range(produced'[r]) = Range(produced[r]) \cup {Stage(r)}
    <3>1. Stage(r) \in Ids(plan[r])
      BY <2>2, StageFacts
    <3> QED
      BY <2>1, <2>2, <3>1, StageAppended
  <2>4. Due(r)' = Due(r)
    BY <2>1, <2>2, <2>3 DEF Due
  <2>5. Range(pending[r]) = {}
    BY <2>1 DEF Range
  <2> QED
    BY <2>1, <2>2, <2>4, <2>5 DEF FilesInv
<1> QED
  BY <1>1, <1>2, <1>3, <1>4, <1>5, <1>6, <1>7 DEF Step

(* The manifest of a run that is through is whole.                         *)
LEMMA ManifestIsWhole ==
  ASSUME NEW r \in Run, ProgressInv(r), OrderInv(r), FilesInv(r), pc[r] = "linking"
  PROVE  IsRecord(Manifest(r))
<1>1. Running(r) /\ AllDone(r) /\ ~ AtWork(r)
  BY DEF OrderInv, Running, Active, AtWork
<1>2. IsExecutionOrder(produced[r], plan[r]) /\ Range(produced[r]) = Ids(plan[r])
  BY <1>1, AllThrough
<1>3. Due(r) = {f \in File : \E s \in Ids(plan[r]) : f \in Range(plan[r].writes[s])}
  BY <1>1, <1>2 DEF Due
<1>4. DOMAIN ledger[r].outputs = File
  BY DEF ProgressInv, IsLedger
<1>5. \A f \in File :
        /\ f \in Due(r) => ledger[r].outputs[f] # None
        /\ ledger[r].outputs[f] # None =>
             /\ f \in Due(r)
             /\ \A g \in File : ledger[r].outputs[f].from[g] \in {None, ledger[r].inputs[g]}
  BY <1>1 DEF FilesInv
<1>6. /\ Manifest(r).order = produced[r] /\ Manifest(r).study = plan[r]
      /\ Manifest(r).inputs = ledger[r].inputs /\ Manifest(r).outputs = ledger[r].outputs
  BY DEF Manifest
<1> QED
  BY <1>2, <1>3, <1>4, <1>5, <1>6 DEF IsRecord

(* The invariant of the files is inductive.                                *)
LEMMA WholeKept ==
  ASSUME ProductsExist, WholeInv, [Next]_vars
  PROVE  WholeInv'
<1>1. OrderedInv'
  BY OrderKept DEF WholeInv
<1>0. ShapeInv /\ \A q \in Run : ProgressInv(q) /\ OrderInv(q) /\ FilesInv(q)
  BY DEF WholeInv, OrderedInv, RunsInv
<1>2. ASSUME NEW q \in Run
      PROVE  FilesInv(q)'
  <2>1. ASSUME NEW r \in Run, Load(r) \/ Step(r) \/ Throw(r)
        PROVE  FilesInv(q)'
    <3>1. CASE r = q
      BY <1>0, <2>1, <3>1, OwnFilesKept
    <3>2. CASE r # q
      <4>1. Moved(r)
        BY <1>0, <2>1, RunMoves DEF ProgressInv
      <4> QED
        BY <1>0, <3>2, <4>1, OtherRecordKept DEF Moved
    <3> QED
      BY <3>1, <3>2
  <2>2. ASSUME UNCHANGED runVars
        PROVE  FilesInv(q)'
    BY <1>0, <2>2, OtherRecordKept DEF runVars
  <2> QED
    BY <2>1, <2>2 DEF Next, Edit, vars, runVars
<1>3. \A m \in records' : IsRecord(m)
  <2>1. CASE records' = records
    BY <2>1 DEF WholeInv
  <2>2. ASSUME NEW r \in Run, LinkManifest(r)
        PROVE  \A m \in records' : IsRecord(m)
    <3>1. pc[r] = "linking" /\ records' = records \cup {Manifest(r)}
      BY <2>2 DEF LinkManifest
    <3>2. IsRecord(Manifest(r))
      BY <1>0, <3>1, ManifestIsWhole
    <3> QED
      BY <3>1, <3>2 DEF WholeInv
  <2> QED
    BY <2>1, <2>2, RecordsGrow
<1> QED
  BY <1>1, <1>2, <1>3 DEF WholeInv

(* Every run has published what its stages were to publish so far, from    *)
(* inputs its ledger has, and every record is whole.                       *)
THEOREM FilesInvariant ==
  ASSUME ProductsExist
  PROVE  Spec => []WholeInv
<1>1. Init => WholeInv
  <2> SUFFICES ASSUME Init PROVE WholeInv
    OBVIOUS
  <2>1. OrderedInv
    BY InitOrder
  <2>2. \A r \in Run : ~ Running(r)
    BY DEF Init, Running, Active
  <2> QED
    BY <2>1, <2>2 DEF WholeInv, FilesInv, Init
<1>2. WholeInv /\ [Next]_vars => WholeInv'
  BY WholeKept
<1> QED
  BY <1>1, <1>2, PTL DEF Spec

(* The studies that are run are those with stages, unique ids and no stage *)
(* that depends on itself or on an undefined one.                          *)
LEMMA AcceptedExactly ==
  ASSUME OrderedInv, NEW r \in Run, pc[r] \in {"loaded", "refused"}
  PROVE  pc[r] = "loaded" <=> /\ plan[r].declared # <<>>
                              /\ IsInjective(plan[r].declared)
                              /\ Acyclic(plan[r])
<1>1. pc[r] = "loaded" <=> WellFormed(plan[r])
  BY DEF OrderedInv, OrderInv, Running, Active
<1>2. plan[r] \in Studies[r]
  BY DEF OrderedInv, RunsInv, ProgressInv, OrderInv, Running, Active
<1>3. plan[r].declared \in Seq(Ids(plan[r]))
  BY <1>2, AcceptedStudy DEF IsStudy
<1> QED
  BY <1>1, <1>3, OrderIsRightForAll

(* A study is run exactly when its stages can be put in order, and what is *)
(* recorded names them in such an order with every file they publish, each *)
(* computed from the inputs the record names.                              *)
THEOREM RecordsAreWhole ==
  ASSUME ProductsExist
  PROVE  Spec => []RecordIsWhole
<1>1. WholeInv => RecordIsWhole
  <2> SUFFICES ASSUME WholeInv PROVE RecordIsWhole
    OBVIOUS
  <2>1. \A r \in Run : pc[r] \in {"loaded", "refused"} =>
          (pc[r] = "loaded" <=> /\ plan[r].declared # <<>>
                                /\ IsInjective(plan[r].declared)
                                /\ Acyclic(plan[r]))
    BY AcceptedExactly DEF WholeInv
  <2> QED
    BY <2>1 DEF WholeInv, IsRecord, RecordIsWhole
<1> QED
  BY <1>1, FilesInvariant, PTL

-----------------------------------------------------------------------------
(* Refinement                                                              *)

Outcome == [r \in Run |-> CASE pc[r] = "done" -> "completed"
                            [] pc[r] \in {"refused", "failed"} -> "abandoned"
                            [] OTHER -> "open"]

(* How the outcomes change when one run's label does.                      *)
LEMMA OutcomeMoves ==
  ASSUME ShapeInv, NEW r \in Run, NEW label, pc' = [pc EXCEPT ![r] = label]
  PROVE  /\ pc'[r] = label /\ \A q \in Run \ {r} : pc'[q] = pc[q]
         /\ label = "done" => Outcome' = [Outcome EXCEPT ![r] = "completed"]
         /\ label \in {"refused", "failed"} => Outcome' = [Outcome EXCEPT ![r] = "abandoned"]
         /\ label \notin {"done", "refused", "failed"} /\ Outcome[r] = "open" => Outcome' = Outcome
<1>1. pc'[r] = label /\ \A q \in Run \ {r} : pc'[q] = pc[q]
  BY DEF ShapeInv
<1>2. \A q \in Run \ {r} : Outcome'[q] = Outcome[q]
  BY <1>1 DEF Outcome
<1>3. /\ label = "done" => Outcome'[r] = "completed"
      /\ label \in {"refused", "failed"} => Outcome'[r] = "abandoned"
      /\ label \notin {"done", "refused", "failed"} => Outcome'[r] = "open"
  BY <1>1 DEF Outcome
<1>4. /\ Outcome' = [q \in Run |-> Outcome'[q]] /\ Outcome = [q \in Run |-> Outcome[q]]
  BY DEF Outcome
<1> QED
  BY <1>1, <1>2, <1>3, <1>4

(* A run that is neither through nor given up is open.                     *)
LEMMA OpenRuns ==
  ASSUME NEW r \in Run, pc[r] = "idle" \/ Running(r)
  PROVE  Outcome[r] = "open"
BY DEF Outcome, Running, Active

(* Such a record is whole in the sense of the promise.                     *)
LEMMA RecordIsMade ==
  ASSUME NEW m, IsRecord(m)
  PROVE  Record!Whole(m)
<1>1. \A f : Record!Range(f) = Range(f)
  BY DEF Record!Range, Range
<1>2. \A st : Record!Ids(st) = Ids(st)
  BY <1>1 DEF Record!Ids, Ids
<1>3. Record!IsExecutionOrder(m.order, m.study)
  BY <1>1, <1>2 DEF IsRecord, IsExecutionOrder, Record!IsExecutionOrder
<1>4. \A f \in DOMAIN m.outputs :
        m.outputs[f] # None <=> \E s \in Record!Ids(m.study) : f \in Record!Range(m.study.writes[s])
  BY <1>1, <1>2 DEF IsRecord
<1> QED
  BY <1>3, <1>4 DEF Record!Whole

(* Every step of the executor is one the promise allows, or none.          *)
LEMMA RefineStep ==
  ASSUME WholeInv, [Next]_vars
  PROVE  [Record!Next]_<<Outcome, records>>
<1>0. ShapeInv /\ \A r \in Run : ProgressInv(r) /\ OrderInv(r) /\ FilesInv(r)
  BY DEF WholeInv, OrderedInv, RunsInv
<1> DEFINE Goal == [Record!Next]_<<Outcome, records>>
<1>1. ASSUME NEW r \in Run, Load(r)
      PROVE  Goal
  <2>1. PICK label \in {"loaded", "refused"} : pc' = [pc EXCEPT ![r] = label]
    BY <1>1 DEF Load, Goto
  <2>2. records' = records /\ Outcome[r] = "open"
    BY <1>1, OpenRuns DEF Load
  <2> QED
    BY <1>0, <2>1, <2>2, OutcomeMoves DEF Record!Next, Record!Abandon, Outcome
<1>2. ASSUME NEW r \in Run, Throw(r)
      PROVE  Goal
  <2>1. pc' = [pc EXCEPT ![r] = "failed"] /\ records' = records /\ Outcome[r] = "open"
    BY <1>2, OpenRuns DEF Throw, Goto, fileVars
  <2>2. Outcome' = [Outcome EXCEPT ![r] = "abandoned"]
    BY <1>0, <2>1, OutcomeMoves
  <2>3. Record!Abandon(r)
    BY <2>1, <2>2 DEF Record!Abandon, Outcome
  <2> QED
    BY <2>3 DEF Record!Next
<1>3. ASSUME NEW r \in Run, ReuseManifest(r) \/ LinkManifest(r)
      PROVE  Goal
  <2>1. /\ pc' = [pc EXCEPT ![r] = "done"] /\ pc[r] \in {"recording", "linking"}
        /\ records' = records \cup {Manifest(r)}
        /\ Manifest(r) \in records \/ pc[r] = "linking"
    BY <1>3 DEF ReuseManifest, LinkManifest, Goto
  <2>2. PICK m : m = Manifest(r)
    OBVIOUS
  <2>3. IsRecord(m)
    <3>1. CASE Manifest(r) \in records
      BY <2>2, <3>1 DEF WholeInv
    <3>2. CASE pc[r] = "linking"
      BY <1>0, <2>2, <3>2, ManifestIsWhole
    <3> QED
      BY <2>1, <3>1, <3>2
  <2>4. Record!Whole(m) /\ m \in records' /\ records' = records \cup {m}
    BY <2>1, <2>2, <2>3, RecordIsMade
  <2>5. Outcome[r] = "open" /\ Outcome' = [Outcome EXCEPT ![r] = "completed"]
    BY <1>0, <2>1, OpenRuns, OutcomeMoves DEF Running, Active
  <2>6. Record!Complete(r)
    BY <2>4, <2>5 DEF Record!Complete, Outcome
  <2> QED
    BY <2>6 DEF Record!Next
<1>4. ASSUME NEW r \in Run, Step(r), ~ ReuseManifest(r), ~ LinkManifest(r)
      PROVE  Goal
  <2>1. /\ records' = records /\ Running(r)
        /\ \E label \in Active : pc' = [pc EXCEPT ![r] = label]
    <3>1. CASE ReadInput(r)
      BY <1>0, <3>1 DEF ReadInput, ShapeInv, Running, Active
    <3>2. CASE ~ ReadInput(r)
      BY <1>4, <3>2 DEF Step, Begin, ReserveOutputs, EnterStage, CheckOutput, Publish, LeaveStage,
         CloseRun, PrepareManifest, Goto, Running, Active
    <3> QED
      BY <3>1, <3>2
  <2>2. PICK label \in Active : pc' = [pc EXCEPT ![r] = label]
    BY <2>1
  <2>3. Outcome' = Outcome
    BY <1>0, <2>1, <2>2, OutcomeMoves, OpenRuns DEF Active
  <2> QED
    BY <2>1, <2>3
<1>5. ASSUME NEW f \in Editable, NEW bytes \in Given, Edit(f, bytes)
      PROVE  Goal
  BY <1>5 DEF Edit, runVars, Outcome
<1>6. CASE UNCHANGED vars
  BY <1>6 DEF vars, Outcome
<1> QED
  BY <1>1, <1>2, <1>3, <1>4, <1>5, <1>6 DEF Next, Step

(* The executor keeps its promise about manifests: every run is decided    *)
(* once, one that is given up leaves none, and one that completes leaves   *)
(* one, in one piece and whole.                                            *)
THEOREM RunsImplementRecord ==
  ASSUME ProductsExist
  PROVE  Spec => AllOrNothing
<1>1. Init => Record!Init
  BY DEF Init, Record!Init
<1>2. WholeInv /\ [Next]_vars => [Record!Next]_<<Outcome, records>>
  BY RefineStep
<1>3. Spec => []WholeInv
  BY FilesInvariant
<1> QED
  BY <1>1, <1>2, <1>3, PTL DEF Spec, AllOrNothing, Record!Spec, Record!vars, Outcome

=============================================================================
