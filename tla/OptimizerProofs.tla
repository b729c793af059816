---------------------------- MODULE OptimizerProofs ----------------------------
(***************************************************************************)
(* Proofs about Optimizer for every machine, knowledge base and set of     *)
(* thresholds.                                                             *)
(*                                                                         *)
(* The argument: what a round is going to apply was fixed when it began,   *)
(* from a usage that reached a threshold and from the last line of the     *)
(* knowledge base that names the resource (CauseInv); as long as every     *)
(* file has opened, each file holds what the last of the items applied so  *)
(* far gave it (RoundInv).                                                 *)
(***************************************************************************)
EXTENDS Optimizer, SequenceTheorems, FiniteSetTheorems, TLAPS

\* The values of the variables that are sequences or functions.
ShapeInv ==
  /\ IsSequence(request)
  /\ IsSequence(found)
  /\ files = [f \in KernelFiles |-> files[f]]
  /\ before = [f \in KernelFiles |-> before[f]]

\* A file an item of this round is written to belongs to the configuration
\* of an overloaded resource.
CauseInv ==
  step = "apply" =>
    \A i \in 1 .. Len(request) : \A f \in Targets(request[i]) :
      \E r \in Resources : Overloaded(judged, r) /\ Concerns(r, f)

\* Where the thresholds agree it belongs to a resource the detector found.
FoundInv ==
  (step = "apply" /\ DetectorAgrees) =>
    \A i \in 1 .. Len(request) : \A f \in Targets(request[i]) :
      \E k \in DOMAIN found : Concerns(found[k].resource, f)

\* The items before n that are written to f, and what f holds after them.
Earlier(f, n) == {i \in 1 .. n - 1 : f \in Targets(request[i])}

After(f, n) ==
  IF Earlier(f, n) = {} THEN before[f] ELSE request[Max(Earlier(f, n))].value

RoundInv ==
  (step = "apply" /\ refused = 0) => \A f \in KernelFiles : files[f] = After(f, next)

IInv == TypeOK /\ ShapeInv /\ SeverityInRange /\ CauseInv /\ FoundInv /\ RoundInv

------------------------------------------------------------------------------
(* Least and greatest elements: the form of induction used below.          *)

\* A set of natural numbers that is not empty has a least element.
LEMMA Least ==
  ASSUME NEW T \in SUBSET Nat, T # {}
  PROVE  \E m \in T : \A k \in T : m <= k
<1> DEFINE R == OpToRel(<, Nat)
<1>1. IsWellFoundedOn(R, Nat)
  BY NatLessThanWellFounded, Zenon
<1>2. R = {ss \in Nat \X Nat : ss[1] < ss[2]}
  BY Zenon DEF OpToRel
<1> HIDE DEF R
<1>3. PICK m \in T : \A k \in T : ~ (<<k, m>> \in R)
  BY <1>1, WFMin, Zenon
<1>4. \A k \in T : ~(k < m)
  BY <1>2, <1>3
<1> QED
  BY <1>4

\* A set of numbers up to n that is not empty has a maximum.
LEMMA Greatest ==
  ASSUME NEW n \in Nat, NEW T \in SUBSET (0 .. n), T # {}
  PROVE  Max(T) \in T /\ \A k \in T : k <= Max(T)
<1> DEFINE U == {k \in 0 .. n : n - k \in T}
<1>1. \A k \in T : n - k \in U
  OBVIOUS
<1>2. U \in SUBSET Nat
  OBVIOUS
<1>3. U # {}
  BY <1>1
<1> HIDE DEF U
<1>4. PICK m \in U : \A k \in U : m <= k
  BY <1>2, <1>3, Least
<1>5. n - m \in T /\ m \in 0 .. n
  BY DEF U
<1>6. ASSUME NEW k \in T PROVE n - m >= k
  <2>1. n - k \in U /\ m <= n - k
    BY <1>1, <1>4
  <2> QED
    BY <1>5, <2>1
<1> QED
  BY <1>5, <1>6 DEF Max

------------------------------------------------------------------------------
(* FlattenSeq.                                                             *)

\* The recursive function in FlattenSeq exists.
LEMMA FlattenExists ==
  ASSUME NEW ss, NEW n \in Nat
  PROVE  \E g : g = [i \in 1 .. n |-> IF i = 1 THEN ss[i] ELSE g[i - 1] \o ss[i]]
<1> DEFINE Has(m) == \E g : g = [i \in 1 .. m |-> IF i = 1 THEN ss[i] ELSE g[i - 1] \o ss[i]]
<1> DEFINE T == {m \in Nat : ~Has(m)}
<1>1. ASSUME NEW m \in T, \A k \in T : m <= k PROVE FALSE
  <2> HIDE DEF Has
  <2>1. m \in Nat /\ ~Has(m)
    OBVIOUS
  <2>2. Has(0)
    <3>1. <<>> = [i \in 1 .. 0 |-> IF i = 1 THEN ss[i] ELSE <<>>[i - 1] \o ss[i]]
      OBVIOUS
    <3> QED
      BY <3>1 DEF Has
  <2>3. m \in Nat \ {0} /\ m - 1 \in Nat
    BY <2>1, <2>2
  <2>4. Has(m - 1)
    BY <1>1, <2>3
  <2>5. PICK h : h = [i \in 1 .. m - 1 |-> IF i = 1 THEN ss[i] ELSE h[i - 1] \o ss[i]]
    BY <2>4 DEF Has
  <2>6. \A i \in 1 .. m - 1 : h[i] = IF i = 1 THEN ss[i] ELSE h[i - 1] \o ss[i]
    BY <2>5, Zenon
  <2> HIDE DEF T
  <2> DEFINE g == [i \in 1 .. m |-> IF i = m THEN IF i = 1 THEN ss[i] ELSE h[m - 1] \o ss[i]
                                    ELSE h[i]]
  <2>7. ASSUME NEW i \in 1 .. m
        PROVE  g[i] = IF i = 1 THEN ss[i] ELSE g[i - 1] \o ss[i]
    <3>1. CASE i = m
      <4>1. i # 1 => g[i - 1] = h[m - 1]
        BY <2>3, <3>1
      <4> QED
        BY <3>1, <4>1
    <3>2. CASE i # m
      <4>1. i \in 1 .. m - 1 /\ g[i] = h[i]
        BY <2>3, <3>2
      <4>2. i # 1 => i - 1 \in 1 .. m /\ i - 1 # m
        BY <2>3, <3>2
      <4>3. i # 1 => g[i - 1] = h[i - 1]
        BY <4>2
      <4> QED
        BY <2>6, <4>1, <4>3
    <3> QED
      BY <3>1, <3>2
  <2>8. g = [i \in 1 .. m |-> IF i = 1 THEN ss[i] ELSE g[i - 1] \o ss[i]]
    BY <2>7, Zenon
  <2> HIDE DEF g
  <2>9. Has(m)
    BY <2>8 DEF Has
  <2> QED
    BY <2>1, <2>9
<1> HIDE DEF Has
<1>2. T = {}
  BY <1>1, Least
<1>3. Has(n)
  BY <1>2
<1> QED
  BY <1>3 DEF Has

\* Flattening gives a sequence of the items that the sequences hold.
LEMMA FlattenItems ==
  ASSUME NEW S, NEW ss \in Seq(Seq(S))
  PROVE  /\ FlattenSeq(ss) \in Seq(S)
         /\ \A k \in 1 .. Len(FlattenSeq(ss)) : \E j \in 1 .. Len(ss) : \E l \in 1 .. Len(ss[j]) :
              FlattenSeq(ss)[k] = ss[j][l]
<1>1. Len(ss) \in Nat /\ \A i \in 1 .. Len(ss) : ss[i] \in Seq(S)
  OBVIOUS
<1>2. CASE Len(ss) = 0
  <2>1. FlattenSeq(ss) = ss /\ ss = <<>>
    BY <1>2 DEF FlattenSeq
  <2> QED
    BY <2>1
<1>3. CASE Len(ss) # 0
  <2> DEFINE n == Len(ss)
  <2> DEFINE F == CHOOSE g : g = [i \in 1 .. n |-> IF i = 1 THEN ss[i] ELSE g[i - 1] \o ss[i]]
  <2>1. FlattenSeq(ss) = F[n]
    BY <1>3 DEF FlattenSeq
  <2>2. \E g : g = [i \in 1 .. n |-> IF i = 1 THEN ss[i] ELSE g[i - 1] \o ss[i]]
    BY <1>1, FlattenExists, Zenon
  <2>3. F = [i \in 1 .. n |-> IF i = 1 THEN ss[i] ELSE F[i - 1] \o ss[i]]
    BY <2>2, Zenon
  <2> HIDE DEF F
  <2>4. \A i \in 1 .. n : F[i] = IF i = 1 THEN ss[i] ELSE F[i - 1] \o ss[i]
    BY <2>3
  <2> DEFINE Item(x) == \E j \in 1 .. n : \E l \in 1 .. Len(ss[j]) : x = ss[j][l]
  <2> DEFINE Good(i) == F[i] \in Seq(S) /\ \A k \in 1 .. Len(F[i]) : Item(F[i][k])
  <2> DEFINE T == {i \in 1 .. n : ~Good(i)}
  <2>5. ASSUME NEW j \in 1 .. n, NEW l \in 1 .. Len(ss[j]) PROVE Item(ss[j][l])
    OBVIOUS
  <2> HIDE DEF Item
  <2>6. ASSUME NEW i \in T, \A k \in T : i <= k PROVE FALSE
    <3>1. i \in 1 .. n /\ ~Good(i)
      OBVIOUS
    <3>2. CASE i = 1
      BY <1>1, <2>4, <2>5, <3>1, <3>2
    <3>3. CASE i # 1
      <4>1. i - 1 \in 1 .. n
        BY <1>1, <3>1, <3>3
      <4>2. Good(i - 1)
        <5> HIDE DEF Good
        <5> QED
          BY <1>1, <2>6, <3>1, <4>1
      <4>3. F[i] = F[i - 1] \o ss[i] /\ F[i - 1] \in Seq(S) /\ ss[i] \in Seq(S)
        BY <1>1, <2>4, <3>1, <3>3, <4>2
      <4>4. /\ F[i] \in Seq(S) /\ Len(F[i]) = Len(F[i - 1]) + Len(ss[i])
            /\ \A k \in 1 .. Len(F[i]) :
                 F[i][k] = IF k <= Len(F[i - 1]) THEN F[i - 1][k] ELSE ss[i][k - Len(F[i - 1])]
        <5> DEFINE s == F[i - 1] \o ss[i]
        <5>1. /\ s \in Seq(S) /\ Len(s) = Len(F[i - 1]) + Len(ss[i])
              /\ \A k \in 1 .. Len(F[i - 1]) + Len(ss[i]) :
                   s[k] = IF k <= Len(F[i - 1]) THEN F[i - 1][k] ELSE ss[i][k - Len(F[i - 1])]
          BY <4>3, ConcatProperties
        <5>2. F[i] = s
          BY <4>3
        <5> HIDE DEF s
        <5> QED
          BY <5>1, <5>2
      <4>5. ASSUME NEW k \in 1 .. Len(F[i]) PROVE Item(F[i][k])
        <5>1. Len(F[i - 1]) \in Nat /\ Len(ss[i]) \in Nat
          BY <4>3
        <5>2. CASE k <= Len(F[i - 1])
          <6>1. k \in 1 .. Len(F[i - 1])
            BY <5>1, <5>2
          <6> QED
            BY <4>2, <4>4, <5>2, <6>1
        <5>3. CASE ~(k <= Len(F[i - 1]))
          <6>1. k - Len(F[i - 1]) \in 1 .. Len(ss[i])
            <7>1. k \in 1 .. Len(F[i - 1]) + Len(ss[i])
              BY <4>4
            <7>2. \A a, b \in Nat : \A c \in 1 .. a + b : ~(c <= a) => c - a \in 1 .. b
              OBVIOUS
            <7> QED
              BY <5>1, <5>3, <7>1, <7>2, Zenon
          <6> QED
            BY <2>5, <3>1, <4>4, <5>3, <6>1
        <5> QED
          BY <5>2, <5>3
      <4> QED
        BY <3>1, <4>4, <4>5
    <3> QED
      BY <3>2, <3>3
  <2> HIDE DEF Good
  <2>7. T \in SUBSET Nat
    BY <1>1
  <2>8. T = {}
    BY <2>6, <2>7, Least
  <2>9. Good(n)
    <3>1. n \in 1 .. n
      BY <1>1, <1>3
    <3> QED
      BY <2>8, <3>1
  <2> QED
    BY <2>1, <2>9 DEF Good, Item
<1> QED
  BY <1>2, <1>3

------------------------------------------------------------------------------
(* The operators of the model.                                             *)

\* What a list of resources asks for is a sequence of items, each of which is
\* in the line in effect of one of these resources.
LEMMA ConfigurationItems ==
  ASSUME TypeOK, NEW rs, rs \in Seq(Resources)
  PROVE  /\ IsSequence(Configurations(rs))
         /\ \A i \in 1 .. Len(Configurations(rs)) : \E j \in 1 .. Len(rs) :
              \E config \in EffectiveConfig(rs[j]) : \E l \in DOMAIN config :
                Configurations(rs)[i] = config[l]
<1>1. /\ lines \in KnowledgeBases /\ IsSequence(lines)
      /\ \A i \in DOMAIN lines : IsSequence(lines[i].config)
  BY OptimizerAssumption DEF TypeOK
<1>2. Len(lines) \in Nat /\ DOMAIN lines = 1 .. Len(lines)
  BY <1>1 DEF IsSequence
<1> DEFINE S == UNION {Range(lines[i].config) : i \in DOMAIN lines}
<1>3. ASSUME NEW r \in Resources
      PROVE  /\ GetConfigValue(r) \in Seq(S)
             /\ GetConfigValue(r) # <<>> => GetConfigValue(r) \in EffectiveConfig(r)
  <2> DEFINE I == {i \in 1 .. Len(lines) : lines[i].key = r}
  <2>1. LineOf(r) = IF I # {} THEN Max(I) ELSE 0
    BY DEF LineOf, SelectLastInSeq
  <2>2. CASE I = {}
    BY <2>1, <2>2 DEF GetConfigValue
  <2>3. CASE I # {}
    <3>1. Max(I) \in I /\ \A k \in I : k <= Max(I)
      <4>1. I \in SUBSET (0 .. Len(lines))
        BY <1>2
      <4> QED
        BY <1>2, <2>3, <4>1, Greatest
    <3> DEFINE m == Max(I)
    <3> HIDE DEF m
    <3>2. m \in DOMAIN lines /\ lines[m].key = r /\ \A k \in DOMAIN lines : lines[k].key = r => k <= m
      BY <1>2, <3>1 DEF m
    <3>3. GetConfigValue(r) = lines[m].config
      BY <1>2, <2>1, <2>3, <3>1 DEF GetConfigValue, m
    <3>4. lines[m].config \in Seq(Range(lines[m].config)) /\ Range(lines[m].config) \subseteq S
      BY <1>1, <3>2 DEF IsSequence
    <3>5. lines[m].config \in Seq(S)
      BY <3>4, SeqMonotonic
    <3> QED
      BY <3>2, <3>3, <3>5 DEF EffectiveConfig
  <2> QED
    BY <2>2, <2>3
<1> HIDE DEF S
<1> DEFINE ss == [i \in DOMAIN rs |-> GetConfigValue(rs[i])]
<1>4. Len(rs) \in Nat /\ DOMAIN rs = 1 .. Len(rs) /\ \A i \in 1 .. Len(rs) : rs[i] \in Resources
  OBVIOUS
<1>5. ss \in Seq(Seq(S)) /\ Len(ss) = Len(rs) /\ \A j \in 1 .. Len(rs) : ss[j] = GetConfigValue(rs[j])
  BY <1>3, <1>4
<1>6. Configurations(rs) = FlattenSeq(ss)
  BY DEF Configurations
<1> HIDE DEF ss
<1>7. /\ Configurations(rs) \in Seq(S)
      /\ \A k \in 1 .. Len(Configurations(rs)) : \E j \in 1 .. Len(ss) : \E l \in 1 .. Len(ss[j]) :
           Configurations(rs)[k] = ss[j][l]
  <2>1. ss \in Seq(Seq(S))
    BY <1>5
  <2>2. /\ FlattenSeq(ss) \in Seq(S)
        /\ \A k \in 1 .. Len(FlattenSeq(ss)) : \E j \in 1 .. Len(ss) : \E l \in 1 .. Len(ss[j]) :
             FlattenSeq(ss)[k] = ss[j][l]
    BY <2>1, FlattenItems, Zenon
  <2> QED
    BY <1>6, <2>2
<1>8. IsSequence(Configurations(rs))
  BY <1>7, SeqOfRange DEF IsSequence
<1>9. ASSUME NEW k \in 1 .. Len(Configurations(rs))
      PROVE  \E j \in 1 .. Len(rs) : \E config \in EffectiveConfig(rs[j]) : \E l \in DOMAIN config :
               Configurations(rs)[k] = config[l]
  <2>1. PICK j \in 1 .. Len(ss) : \E l \in 1 .. Len(ss[j]) : Configurations(rs)[k] = ss[j][l]
    BY <1>7
  <2>2. PICK l \in 1 .. Len(ss[j]) : Configurations(rs)[k] = ss[j][l]
    BY <2>1
  <2>3. j \in 1 .. Len(rs) /\ ss[j] = GetConfigValue(rs[j]) /\ ss[j] \in Seq(S)
    BY <1>3, <1>4, <1>5
  <2>4. DOMAIN ss[j] = 1 .. Len(ss[j]) /\ ss[j] # <<>>
    BY <2>3
  <2>5. ss[j] \in EffectiveConfig(rs[j])
    BY <1>3, <1>4, <2>3, <2>4
  <2> QED
    BY <2>2, <2>3, <2>4, <2>5
<1> QED
  BY <1>8, <1>9

\* A usage whose severity is asked for has a sound one.
LEMMA SeverityRange ==
  ASSUME TypeOK, NEW u, u.cpu \in 0 .. 100, u.memory \in 0 .. 100, u.bytes \in Nat,
         NEW r \in Resources, Reached(u, r)
  PROVE  LET s == Severity(u, r) IN s[2] > 0 /\ 0 <= s[1] /\ s[1] <= s[2]
<1> DEFINE over == Level(u)[r] - thresholds[r]
<1> DEFINE span == IF r \in {"cpu", "memory"} THEN 100 - thresholds[r] ELSE thresholds[r]
<1>1. Level(u)[r] \in Nat
  BY DEF Level, Resources
<1>2. thresholds[r] \in Nat /\ (r \in {"cpu", "memory"} => thresholds[r] \in 0 .. 100)
  <2>1. /\ thresholds.cpu \in 0 .. 100 /\ thresholds.memory \in 0 .. 100
        /\ thresholds.network \in Nat /\ thresholds.storage \in Nat
    BY DEF TypeOK, ValidThresholds
  <2> QED
    BY <2>1 DEF Resources
<1>3. over \in Nat /\ span \in Nat
  BY <1>1, <1>2 DEF Reached
<1> HIDE DEF over, span
<1>4. \/ CappedQuotient(over, span) = <<over, span>> /\ over < span
      \/ CappedQuotient(over, span) = <<1, 1>>
  BY DEF CappedQuotient
<1>5. Severity(u, r) = CappedQuotient(over, span)
  BY DEF Severity, over, span
<1> QED
  BY <1>3, <1>4, <1>5

\* DetectBottlenecks lists resources that reached their threshold, with a
\* sound severity each.
LEMMA Detected ==
  ASSUME TypeOK, NEW u, u.cpu \in 0 .. 100, u.memory \in 0 .. 100, u.bytes \in Nat
  PROVE  LET d == DetectBottlenecks(u)
         IN /\ IsSequence(d)
            /\ \A i \in DOMAIN d :
                 /\ d[i].resource \in Resources /\ Reached(u, d[i].resource)
                 /\ d[i].severity[2] > 0 /\ 0 <= d[i].severity[1]
                 /\ d[i].severity[1] <= d[i].severity[2]
<1> DEFINE E == {[resource |-> r, severity |-> Severity(u, r)] : r \in {q \in Resources : Reached(u, q)}}
<1>1. ASSUME NEW r \in Resources PROVE Check(u, r) \in Seq(E)
  <2>1. CASE Reached(u, r)
    <3> DEFINE e == [resource |-> r, severity |-> Severity(u, r)]
    <3>1. e \in E /\ Check(u, r) = <<e>>
      BY <2>1 DEF Check
    <3> HIDE DEF e, E
    <3> QED
      BY <3>1
  <2>2. CASE ~Reached(u, r)
    BY <2>2 DEF Check
  <2> QED
    BY <2>1, <2>2
<1>2. \A e \in E : /\ e.resource \in Resources /\ Reached(u, e.resource)
                   /\ e.severity[2] > 0 /\ 0 <= e.severity[1] /\ e.severity[1] <= e.severity[2]
  BY SeverityRange
<1> HIDE DEF E
<1>3. /\ Check(u, "cpu") \in Seq(E) /\ Check(u, "memory") \in Seq(E)
      /\ Check(u, "network") \in Seq(E) /\ Check(u, "storage") \in Seq(E)
  BY <1>1 DEF Resources
<1>4. DetectBottlenecks(u) \in Seq(E)
  BY <1>3, ConcatProperties DEF DetectBottlenecks
<1>5. IsSequence(DetectBottlenecks(u))
  BY <1>4, SeqOfRange DEF IsSequence
<1>6. \A i \in DOMAIN DetectBottlenecks(u) : DetectBottlenecks(u)[i] \in E
  BY <1>4
<1> QED
  BY <1>2, <1>5, <1>6

\* The fallback names one resource whose threshold was reached, or none.
LEMMA FallbackCause ==
  ASSUME NEW u
  PROVE  /\ Fallback(u) \in Seq(Resources)
         /\ \A i \in 1 .. Len(Fallback(u)) : Overloaded(u, Fallback(u)[i])
<1> DEFINE B == GetBottleneckType(u)
<1>1. B = {} \/ \E r \in Resources : B = {r} /\ Overloaded(u, r)
  BY DEF GetBottleneckType, Resources, Overloaded
<1>2. Fallback(u) = CHOOSE f \in [1 .. Cardinality(B) -> B] : IsInjective(f)
  BY DEF Fallback, SetToSeq
<1> HIDE DEF B
<1>3. CASE B = {}
  <2>1. Cardinality(B) = 0
    BY <1>3, FS_EmptySet
  <2>2. \E f \in [1 .. Cardinality(B) -> B] : IsInjective(f)
    <3>1. <<>> \in [1 .. 0 -> B] /\ IsInjective(<<>>)
      BY DEF IsInjective
    <3> QED
      BY <2>1, <3>1
  <2>3. Fallback(u) \in [1 .. 0 -> B]
    BY <1>2, <2>1, <2>2
  <2>4. Fallback(u) = <<>>
    BY <2>3
  <2> QED
    BY <2>4
<1>4. ASSUME NEW r \in Resources, B = {r}, Overloaded(u, r)
      PROVE  /\ Fallback(u) \in Seq(Resources)
             /\ \A i \in 1 .. Len(Fallback(u)) : Overloaded(u, Fallback(u)[i])
  <2>1. Cardinality(B) = 1
    BY <1>4, FS_Singleton
  <2>2. \E f \in [1 .. Cardinality(B) -> B] : IsInjective(f)
    <3>1. [i \in 1 .. 1 |-> r] \in [1 .. 1 -> B] /\ IsInjective([i \in 1 .. 1 |-> r])
      BY <1>4 DEF IsInjective
    <3> QED
      BY <2>1, <3>1
  <2>3. Fallback(u) \in [1 .. 1 -> B]
    BY <1>2, <2>1, <2>2
  <2>4. Fallback(u) \in Seq(Resources) /\ Len(Fallback(u)) = 1 /\ Fallback(u)[1] = r
    <3>1. Fallback(u) = [i \in 1 .. 1 |-> r]
      BY <1>4, <2>3
    <3>2. [i \in 1 .. 1 |-> r] \in Seq(Resources) /\ Len([i \in 1 .. 1 |-> r]) = 1
      BY <1>4
    <3> QED
      BY <3>1, <3>2
  <2> QED
    BY <1>4, <2>4
<1> QED
  BY <1>1, <1>3, <1>4

\* An item is written to files of the kernel, finitely many.
LEMMA TargetFiles ==
  ASSUME NEW item
  PROVE  Targets(item) \subseteq KernelFiles /\ IsFiniteSet(Targets(item))
<1>1. FilesOf(item.key) \subseteq KernelFiles
  BY DEF FilesOf, KernelFiles
<1>2. IsFiniteSet(FilesOf(item.key))
  <2>1. IsFiniteSet(Cpus) /\ IsFiniteSet({}) /\ \A x : IsFiniteSet({x})
    BY OptimizerAssumption, FS_EmptySet, FS_Singleton
  <2> QED
    BY <2>1 DEF FilesOf
<1>3. Targets(item) \subseteq FilesOf(item.key)
  BY DEF Targets
<1> QED
  BY <1>1, <1>2, <1>3, FS_Subset

\* Whether an item that has been applied is the last one so far to write a
\* file: what the file holds after it.
LEMMA AfterOne ==
  ASSUME NEW n \in Nat \ {0}, NEW f
  PROVE  After(f, n + 1) = IF f \in Targets(request[n]) THEN request[n].value ELSE After(f, n)
<1>1. (n + 1) - 1 = n
  OBVIOUS
<1>2. CASE f \in Targets(request[n])
  <2>1. n \in Earlier(f, n + 1) /\ Earlier(f, n + 1) \subseteq 0 .. n
    BY <1>2 DEF Earlier
  <2>2. Max(Earlier(f, n + 1)) \in Earlier(f, n + 1) /\ n <= Max(Earlier(f, n + 1))
    BY <2>1, Greatest
  <2>3. Max(Earlier(f, n + 1)) = n
    BY <2>1, <2>2
  <2> QED
    BY <1>2, <2>1, <2>3 DEF After
<1>3. CASE f \notin Targets(request[n])
  <2>1. Earlier(f, n + 1) = Earlier(f, n)
    BY <1>3 DEF Earlier
  <2> QED
    BY <1>3, <2>1 DEF After
<1> QED
  BY <1>2, <1>3

\* What is in effect depends on the lines alone.
LEMMA EffectsStay ==
  ASSUME lines' = lines, NEW r, NEW f, Concerns(r, f)
  PROVE  Concerns(r, f)'
<1>1. EffectiveConfig(r)' = EffectiveConfig(r)
  BY DEF EffectiveConfig
<1> QED
  BY <1>1 DEF Concerns

\* The causes of a round stay as they are until the next.
LEMMA CausesStay ==
  ASSUME CauseInv, UNCHANGED <<thresholds, lines, step, judged, request>>
  PROVE  CauseInv'
<1> SUFFICES ASSUME step = "apply", NEW i \in 1 .. Len(request), NEW f \in Targets(request[i])
             PROVE  \E r \in Resources : Overloaded(judged, r)' /\ Concerns(r, f)'
  BY DEF CauseInv
<1>1. PICK r \in Resources : Overloaded(judged, r) /\ Concerns(r, f)
  BY DEF CauseInv
<1>2. Overloaded(judged, r)'
  BY <1>1 DEF Overloaded, Reached
<1> QED
  BY <1>1, <1>2, EffectsStay

\* So does what the detector found.
LEMMA FoundStays ==
  ASSUME FoundInv, UNCHANGED <<thresholds, lines, step, found, request>>
  PROVE  FoundInv'
<1> SUFFICES ASSUME step = "apply", DetectorAgrees, NEW i \in 1 .. Len(request),
                    NEW f \in Targets(request[i])
             PROVE  \E k \in DOMAIN found : Concerns(found[k].resource, f)'
  BY DEF FoundInv, DetectorAgrees
<1>1. PICK k \in DOMAIN found : Concerns(found[k].resource, f)
  BY DEF FoundInv
<1> QED
  BY <1>1, EffectsStay

\* A detector that finds nothing has looked at every resource.
LEMMA NothingFound ==
  ASSUME NEW u, DetectBottlenecks(u) = <<>>, NEW r \in Resources
  PROVE  ~Reached(u, r)
<1> DEFINE e(q) == [resource |-> q, severity |-> Severity(u, q)]
<1>1. ASSUME NEW q PROVE Check(u, q) = IF Reached(u, q) THEN <<e(q)>> ELSE <<>>
  BY DEF Check
<1> DEFINE E == {e(q) : q \in Resources}
<1>2. ASSUME NEW q \in Resources
      PROVE  Check(u, q) \in Seq(E) /\ (Reached(u, q) => Len(Check(u, q)) = 1)
  <2>1. e(q) \in E
    OBVIOUS
  <2> HIDE DEF e, E
  <2>2. <<e(q)>> \in Seq(E) /\ Len(<<e(q)>>) = 1 /\ <<>> \in Seq(E)
    BY <2>1
  <2>3. Check(u, q) = IF Reached(u, q) THEN <<e(q)>> ELSE <<>>
    BY <1>1
  <2> QED
    BY <2>2, <2>3, Zenon
<1> HIDE DEF e, E
<1> DEFINE a == Check(u, "cpu")
<1> DEFINE b == Check(u, "memory")
<1> DEFINE c == Check(u, "network")
<1> DEFINE d == Check(u, "storage")
<1>3. a \in Seq(E) /\ b \in Seq(E) /\ c \in Seq(E) /\ d \in Seq(E)
  BY <1>2 DEF Resources
<1>4. Len(a \o b \o c \o d) = 0
  BY DEF DetectBottlenecks
<1>5. Len(a) = 0 /\ Len(b) = 0 /\ Len(c) = 0 /\ Len(d) = 0
  <2> HIDE DEF a, b, c, d
  <2>1. Len(a \o b \o c \o d) = Len(a) + Len(b) + Len(c) + Len(d)
    BY <1>3
  <2> QED
    BY <1>3, <1>4, <2>1
<1> QED
  BY <1>2, <1>5 DEF Resources

------------------------------------------------------------------------------
(* The steps.                                                              *)

\* The initial states satisfy the invariant.
LEMMA InitIInv == Init => IInv
<1> SUFFICES ASSUME Init PROVE IInv
  OBVIOUS
<1>1. IsSequence(<<>>) /\ Len(<<>>) = 0 /\ DOMAIN <<>> = {}
  BY DEF IsSequence, Range
<1>2. TypeOK
  <2>1. thresholds \in ValidThresholds /\ MaxBytes \in Nat /\ MaxRefused \in Nat
    BY OptimizerAssumption DEF Init
  <2> QED
    BY <1>1, <2>1 DEF Init, TypeOK, NoUsage
<1>3. ShapeInv
  BY <1>1 DEF Init, ShapeInv
<1>4. SeverityInRange /\ CauseInv /\ FoundInv /\ RoundInv
  BY <1>1 DEF Init, SeverityInRange, CauseInv, FoundInv, RoundInv
<1> QED
  BY <1>2, <1>3, <1>4 DEF IInv

\* A round begins: the list, the items and their causes are what the latest
\* usage and the knowledge base say.
LEMMA OptimizeStep ==
  ASSUME IInv, OptimizeConfiguration
  PROVE  IInv'
<1>1. /\ judged' = latest /\ found' = DetectBottlenecks(latest) /\ next' = 1 /\ before' = files
      /\ step' = "apply"
      /\ request' = IF found' = <<>> THEN Configurations(Fallback(latest)) ELSE Requested(found')
      /\ UNCHANGED <<thresholds, lines, latest, files, refused>>
  BY DEF OptimizeConfiguration
<1>2. /\ latest.cpu \in 0 .. 100 /\ latest.memory \in 0 .. 100 /\ latest.bytes \in 0 .. MaxBytes
      /\ MaxBytes \in Nat
  BY OptimizerAssumption DEF IInv, TypeOK
<1>3. /\ IsSequence(found')
      /\ \A i \in DOMAIN found' :
           /\ found'[i].resource \in Resources /\ Reached(latest, found'[i].resource)
           /\ found'[i].severity[2] > 0 /\ 0 <= found'[i].severity[1]
           /\ found'[i].severity[1] <= found'[i].severity[2]
  <2> DEFINE d == DetectBottlenecks(latest)
  <2>1. /\ IsSequence(d)
        /\ \A i \in DOMAIN d :
             /\ d[i].resource \in Resources /\ Reached(latest, d[i].resource)
             /\ d[i].severity[2] > 0 /\ 0 <= d[i].severity[1] /\ d[i].severity[1] <= d[i].severity[2]
    BY <1>2, Detected DEF IInv
  <2> HIDE DEF d
  <2>2. found' = d
    BY <1>1 DEF d
  <2> QED
    BY <2>1, <2>2
<1> DEFINE rs == IF found' = <<>> THEN Fallback(latest) ELSE Resource(found')
<1>4. rs \in Seq(Resources) /\ \A j \in 1 .. Len(rs) : Overloaded(latest, rs[j])
  <2>1. CASE found' = <<>>
    BY <2>1, FallbackCause
  <2>2. CASE found' # <<>>
    <3>1. Len(found') \in Nat /\ DOMAIN found' = 1 .. Len(found')
      BY <1>3 DEF IsSequence
    <3>2. /\ Resource(found') \in Seq(Resources) /\ Len(Resource(found')) = Len(found')
          /\ \A j \in 1 .. Len(found') : Resource(found')[j] = found'[j].resource
      BY <1>3, <3>1 DEF Resource
    <3> QED
      BY <1>3, <2>2, <3>1, <3>2 DEF Overloaded
  <2> QED
    BY <2>1, <2>2
<1>5. request' = Configurations(rs)
  BY <1>1 DEF Requested
<1> HIDE DEF rs
<1>6. /\ IsSequence(request')
      /\ \A i \in 1 .. Len(request') : \E j \in 1 .. Len(rs) :
           \E config \in EffectiveConfig(rs[j]) : \E l \in DOMAIN config : request'[i] = config[l]
  BY <1>4, <1>5, ConfigurationItems DEF IInv
<1>7. Len(request') \in Nat
  BY <1>6 DEF IsSequence
<1>8. TypeOK'
  BY <1>1, <1>2, <1>3, <1>7 DEF IInv, TypeOK
<1>9. ShapeInv'
  BY <1>1, <1>3, <1>6 DEF IInv, ShapeInv, IsSequence
<1>10. SeverityInRange'
  BY <1>3 DEF SeverityInRange
<1>11. CauseInv'
  <2> SUFFICES ASSUME NEW i \in 1 .. Len(request'), NEW f \in Targets(request'[i])
               PROVE  \E r \in Resources : Overloaded(judged, r)' /\ Concerns(r, f)'
    BY DEF CauseInv
  <2>1. PICK j \in 1 .. Len(rs) : \E config \in EffectiveConfig(rs[j]) : \E l \in DOMAIN config : request'[i] = config[l]
    BY <1>6
  <2>2. Concerns(rs[j], f)
    BY <2>1 DEF Concerns
  <2>3. PICK r \in Resources : Overloaded(latest, r) /\ Concerns(r, f)
    BY <1>4, <2>2
  <2>4. Concerns(r, f)'
    BY <1>1, <2>3, EffectsStay
  <2>5. Overloaded(judged, r)'
    BY <1>1, <2>3 DEF Overloaded, Reached
  <2> QED
    BY <2>4, <2>5
<1>12. RoundInv'
  BY <1>1 DEF RoundInv, After, Earlier
<1>13. FoundInv'
  <2> SUFFICES ASSUME DetectorAgrees, NEW i \in 1 .. Len(request'), NEW f \in Targets(request'[i])
               PROVE  \E k \in DOMAIN found' : Concerns(found[k].resource, f)'
    BY <1>1 DEF FoundInv, DetectorAgrees
  <2>1. PICK j \in 1 .. Len(rs) : \E config \in EffectiveConfig(rs[j]) : \E l \in DOMAIN config : request'[i] = config[l]
    BY <1>6
  <2>2. Concerns(rs[j], f)
    BY <2>1 DEF Concerns
  <2>3. rs[j] \in Resources /\ Overloaded(latest, rs[j])
    BY <1>4
  <2>4. Reached(latest, rs[j])
    <3>1. /\ latest.bytes \in Nat
          /\ Level(latest).cpu = latest.cpu /\ Level(latest).memory = latest.memory
          /\ Level(latest).network = latest.bytes
      BY <1>2 DEF Level
    <3> QED
      BY <2>3, <3>1 DEF Overloaded, Reached, DetectorAgrees, Resources
  <2>5. found' # <<>>
    BY <1>1, <2>3, <2>4, NothingFound
  <2>6. rs = Resource(found')
    BY <2>5 DEF rs
  <2>7. Len(found') \in Nat /\ DOMAIN found' = 1 .. Len(found')
    BY <1>3 DEF IsSequence
  <2>8. Len(Resource(found')) = Len(found') /\ \A k \in 1 .. Len(found') : Resource(found')[k] = found'[k].resource
    BY <2>7 DEF Resource
  <2>9. j \in DOMAIN found' /\ rs[j] = found'[j].resource
    BY <2>6, <2>7, <2>8
  <2>10. Concerns(found[j].resource, f)'
    <3>1. PICK q \in Resources : q = rs[j]
      BY <2>3
    <3>2. Concerns(q, f)' /\ q = found'[j].resource
      BY <1>1, <2>2, <2>9, <3>1, EffectsStay
    <3> QED
      BY <3>2 DEF Concerns
  <2> QED
    BY <2>9, <2>10
<1> QED
  BY <1>8, <1>9, <1>10, <1>11, <1>12, <1>13 DEF IInv

\* An item is applied to the files that open.
LEMMA ApplyStep ==
  ASSUME IInv, ApplyItem
  PROVE  IInv'
<1>1. /\ step = "apply" /\ next <= Len(request) /\ next' = next + 1 /\ refused' <= MaxRefused
      /\ UNCHANGED <<thresholds, lines, latest, step, judged, found, request, before>>
  BY DEF ApplyItem, NextItem
<1>2. PICK opened \in SUBSET Targets(request[next]) :
        /\ files' = [f \in KernelFiles |-> IF f \in opened THEN request[next].value ELSE files[f]]
        /\ refused' = refused + Cardinality(Targets(request[next]) \ opened)
  BY DEF ApplyItem
<1>3. Len(request) \in Nat /\ next \in 1 .. Len(request)
  BY <1>1 DEF IInv, TypeOK, ShapeInv, IsSequence
<1> DEFINE closed == Targets(request[next]) \ opened
<1>4. IsFiniteSet(closed) /\ Cardinality(closed) \in Nat /\ (Cardinality(closed) = 0 => closed = {})
  BY TargetFiles, FS_Subset, FS_CardinalityType, FS_EmptySet
<1> HIDE DEF closed
<1>5. refused \in Nat /\ MaxRefused \in Nat /\ refused' = refused + Cardinality(closed)
  BY <1>2, OptimizerAssumption DEF IInv, TypeOK, closed
<1>6. TypeOK'
  BY <1>1, <1>2, <1>3, <1>4, <1>5 DEF IInv, TypeOK
<1>7. ShapeInv'
  BY <1>1, <1>2 DEF IInv, ShapeInv, IsSequence
<1>8. SeverityInRange' /\ CauseInv' /\ FoundInv'
  BY <1>1, CausesStay, FoundStays DEF IInv, SeverityInRange
<1>9. RoundInv'
  <2> SUFFICES ASSUME refused' = 0, NEW f \in KernelFiles PROVE files'[f] = After(f, next + 1)
    BY <1>1 DEF RoundInv, After, Earlier
  <2>1. refused = 0 /\ closed = {}
    BY <1>4, <1>5
  <2>2. opened = Targets(request[next])
    BY <2>1 DEF closed
  <2>3. files[f] = After(f, next)
    BY <1>1, <2>1 DEF IInv, RoundInv
  <2> QED
    BY <1>2, <1>3, <2>2, <2>3, AfterOne
<1> QED
  BY <1>6, <1>7, <1>8, <1>9 DEF IInv

\* A new sample, and the setters of the detector between two rounds.
LEMMA SurroundingStep ==
  ASSUME IInv, Sample \/ SetThreshold
  PROVE  IInv'
<1>1. CASE Sample
  <2>1. PICK c \in CpuLevels, m \in MemoryLevels, t \in Traffic :
          /\ latest.bytes + t <= MaxBytes
          /\ latest' = [cpu |-> c, memory |-> m, bytes |-> latest.bytes + t]
    BY <1>1 DEF Sample
  <2>2. UNCHANGED <<thresholds, lines, step, judged, found, request, next, before, files, refused>>
    BY <1>1 DEF Sample
  <2>3. TypeOK'
    <3>1. latest'.cpu \in 0 .. 100 /\ latest'.memory \in 0 .. 100 /\ latest'.bytes \in 0 .. MaxBytes
      BY <2>1, OptimizerAssumption DEF IInv, TypeOK
    <3> QED
      BY <2>2, <3>1 DEF IInv, TypeOK
  <2>4. ShapeInv' /\ SeverityInRange' /\ RoundInv'
    BY <2>2 DEF IInv, ShapeInv, IsSequence, SeverityInRange, RoundInv, After, Earlier
  <2>5. CauseInv' /\ FoundInv'
    BY <2>2, CausesStay, FoundStays DEF IInv
  <2> QED
    BY <2>3, <2>4, <2>5 DEF IInv
<1>2. CASE SetThreshold
  <2>1. PICK t \in DetectorThresholds, r \in Resources : thresholds' = [thresholds EXCEPT ![r] = t[r]]
    BY <1>2 DEF SetThreshold
  <2>2. /\ step = "loop"
        /\ UNCHANGED <<lines, latest, step, judged, found, request, next, before, files, refused>>
    BY <1>2 DEF SetThreshold
  <2>3. thresholds' \in ValidThresholds
    <3>1. t \in ValidThresholds /\ thresholds \in ValidThresholds
      BY OptimizerAssumption DEF IInv, TypeOK
    <3> QED
      BY <2>1, <3>1 DEF ValidThresholds, Resources
  <2>4. TypeOK'
    BY <2>2, <2>3 DEF IInv, TypeOK
  <2>5. ShapeInv' /\ SeverityInRange' /\ RoundInv' /\ CauseInv' /\ FoundInv'
    BY <2>2 DEF IInv, ShapeInv, IsSequence, SeverityInRange, RoundInv, CauseInv, FoundInv
  <2> QED
    BY <2>4, <2>5 DEF IInv
<1> QED
  BY <1>1, <1>2

\* Every step keeps the invariant.
LEMMA StepIInv == IInv /\ [Next]_vars => IInv'
<1> SUFFICES ASSUME IInv, [Next]_vars PROVE IInv'
  OBVIOUS
<1>1. CASE Optimized
  <2>1. step' = "loop" /\ UNCHANGED <<thresholds, lines, latest, judged, found, request, next, before, files, refused>>
    BY <1>1 DEF Optimized
  <2> QED
    BY <2>1 DEF IInv, TypeOK, ShapeInv, IsSequence, SeverityInRange, RoundInv, CauseInv, FoundInv
<1>2. CASE UNCHANGED vars
  <2>1. UNCHANGED <<thresholds, lines, latest, step, judged, found, request, next, before, files, refused>>
    BY <1>2 DEF vars
  <2>2. TypeOK' /\ ShapeInv' /\ SeverityInRange'
    BY <2>1 DEF IInv, TypeOK, ShapeInv, IsSequence, SeverityInRange
  <2>3. RoundInv'
    BY <2>1 DEF IInv, RoundInv, After, Earlier
  <2>4. CauseInv' /\ FoundInv'
    BY <2>1, CausesStay, FoundStays DEF IInv
  <2> QED
    BY <2>2, <2>3, <2>4 DEF IInv
<1> QED
  BY <1>1, <1>2, OptimizeStep, ApplyStep, SurroundingStep DEF Next, LoopStep

------------------------------------------------------------------------------
(* What follows from the invariant.                                        *)

\* The strengthened invariant holds in every reachable state.
THEOREM Invariance == Spec => []IInv
BY InitIInv, StepIInv, PTL DEF Spec

\* Every variable keeps its type: the next item is one of the round's, or
\* the one behind the last, and only resources are found.
THEOREM TypeCorrect == Spec => []TypeOK
<1>1. IInv => TypeOK
  BY DEF IInv
<1> QED
  BY <1>1, Invariance, PTL

\* BottleneckInfo's constructor never throws: every severity is between 0 and
\* 1, for every threshold the detector accepts and every usage.
THEOREM SeveritySound == Spec => []SeverityInRange
<1>1. IInv => SeverityInRange
  BY DEF IInv
<1> QED
  BY <1>1, Invariance, PTL

\* When every file opened, a round leaves each kernel file with the last value
\* its items give it, whatever items in error are among them.
THEOREM RoundCorrect == Spec => []RoundResult
<1>1. IInv => RoundResult
  <2> SUFFICES ASSUME IInv, step = "apply", next = Len(request) + 1, refused = 0
               PROVE  files = [f \in KernelFiles |->
                                 IF LastWriter(f) = 0 THEN before[f] ELSE request[LastWriter(f)].value]
    BY DEF RoundResult
  <2>1. Len(request) \in Nat /\ next - 1 = Len(request)
    BY DEF IInv, ShapeInv, IsSequence
  <2>2. ASSUME NEW f \in KernelFiles
        PROVE  files[f] = IF LastWriter(f) = 0 THEN before[f] ELSE request[LastWriter(f)].value
    <3>1. LastWriter(f) = IF Earlier(f, next) # {} THEN Max(Earlier(f, next)) ELSE 0
      BY <2>1 DEF LastWriter, SelectLastInSeq, Earlier
    <3>2. Earlier(f, next) # {} => Max(Earlier(f, next)) # 0
      <4>1. Earlier(f, next) \in SUBSET (0 .. Len(request)) /\ 0 \notin Earlier(f, next)
        BY <2>1 DEF Earlier
      <4> QED
        BY <2>1, <4>1, Greatest
    <3>3. files[f] = After(f, next)
      BY DEF IInv, RoundInv
    <3> QED
      BY <3>1, <3>2, <3>3 DEF After
  <2>3. files = [f \in KernelFiles |-> files[f]]
    BY DEF IInv, ShapeInv
  <2> QED
    BY <2>2, <2>3, Zenon
<1> QED
  BY <1>1, Invariance, PTL

\* A kernel file changes only in a round whose usage reached a threshold, and
\* only by the configuration in effect of that resource.
THEOREM OnlyWithCause == Spec => NothingWithoutCause
<1>1. IInv /\ [Next]_vars =>
        [\A f \in KernelFiles : files'[f] # files[f] =>
           \E r \in Resources : Overloaded(judged, r) /\ Concerns(r, f)]_vars
  <2> SUFFICES ASSUME IInv, Next, NEW f \in KernelFiles, files'[f] # files[f]
               PROVE  \E r \in Resources : Overloaded(judged, r) /\ Concerns(r, f)
    OBVIOUS
  <2>1. ApplyItem
    <3>1. files' # files
      OBVIOUS
    <3> QED
      BY <3>1 DEF Next, LoopStep, OptimizeConfiguration, Optimized, Sample, SetThreshold
  <2>2. PICK opened \in SUBSET Targets(request[next]) :
          files' = [g \in KernelFiles |-> IF g \in opened THEN request[next].value ELSE files[g]]
    BY <2>1 DEF ApplyItem
  <2>3. f \in Targets(request[next])
    BY <2>2
  <2>4. step = "apply" /\ next \in 1 .. Len(request)
    BY <2>1 DEF ApplyItem, IInv, TypeOK, ShapeInv, IsSequence
  <2> QED
    BY <2>3, <2>4 DEF IInv, CauseInv
<1> QED
  BY <1>1, Invariance, PTL DEF Spec, NothingWithoutCause

\* With the detector's thresholds those of the optimizer, a kernel file changes
\* only by the configuration of a resource the detector reported.
THEOREM DetectorFirst == Spec => DetectorDecides
<1>1. IInv /\ [Next]_vars =>
        [DetectorAgrees => \A f \in KernelFiles : files'[f] # files[f] =>
           \E i \in DOMAIN found : Concerns(found[i].resource, f)]_vars
  <2> SUFFICES ASSUME IInv, Next, DetectorAgrees, NEW f \in KernelFiles, files'[f] # files[f]
               PROVE  \E i \in DOMAIN found : Concerns(found[i].resource, f)
    OBVIOUS
  <2>1. ApplyItem
    <3>1. files' # files
      OBVIOUS
    <3> QED
      BY <3>1 DEF Next, LoopStep, OptimizeConfiguration, Optimized, Sample, SetThreshold
  <2>2. PICK opened \in SUBSET Targets(request[next]) :
          files' = [g \in KernelFiles |-> IF g \in opened THEN request[next].value ELSE files[g]]
    BY <2>1 DEF ApplyItem
  <2>3. f \in Targets(request[next])
    BY <2>2
  <2>4. step = "apply" /\ next \in 1 .. Len(request)
    BY <2>1 DEF ApplyItem, IInv, TypeOK, ShapeInv, IsSequence
  <2> QED
    BY <2>3, <2>4 DEF IInv, FoundInv
<1> QED
  BY <1>1, Invariance, PTL DEF Spec, DetectorDecides

==============================================================================
