------------------------- MODULE RowSequenceProofs -------------------------
(***************************************************************************)
(* What the operators on tables of rows give, for tables of any length:    *)
(* what is selected, cut, flattened and put in order.  The recursion they  *)
(* are computed by is unfolded by an induction over the natural numbers    *)
(* that rests on the pigeon-hole principle of finite sets.                 *)
(***************************************************************************)
EXTENDS RowSequences, FiniteSetTheorems, SequenceTheorems, TLAPS

\* Induction over the members of a set, by the pigeon-hole principle.
LEMMA SetInduction ==
  ASSUME NEW S, 0 \in S, \A n \in Nat : n \in S => n + 1 \in S
  PROVE  Nat \subseteq S
  <1> SUFFICES ASSUME NEW n \in Nat, n \notin S PROVE FALSE
    OBVIOUS
  <1> DEFINE T == {m \in 0 .. n : m \in S}
             U == T \ {0}
             F == [m \in T |-> m + 1]
  <1>1. IsFiniteSet(T) /\ T \subseteq 0 .. n
    BY FS_Interval, FS_Subset, 0 \in Int, n \in Int
  <1>2. 0 \in T
    OBVIOUS
  <1>3. \A m \in T : m + 1 \in U
    OBVIOUS
  <1>4. IsFiniteSet(U) /\ Cardinality(U) = Cardinality(T) - 1 /\ Cardinality(T) \in Nat
    BY <1>1, <1>2, FS_RemoveElement, FS_CardinalityType
  <1>5. F \in [T -> U] /\ \A m \in T : m \in Nat /\ F[m] = m + 1
    BY <1>1, <1>3
  <1>6. Cardinality(U) < Cardinality(T)
    BY <1>4
  <1> HIDE DEF T, U, F
  <1>7. \E x, y \in T : x # y /\ F[x] = F[y]
    <2>1. /\ IsFiniteSet(T) /\ IsFiniteSet(U) /\ Cardinality(U) < Cardinality(T)
          /\ F \in [T -> U]
      BY <1>1, <1>4, <1>5, <1>6
    <2>2. \A A, B : IsFiniteSet(A) /\ IsFiniteSet(B) /\ Cardinality(B) < Cardinality(A) =>
            \A f \in [A -> B] : \E x, y \in A : x # y /\ f[x] = f[y]
      BY FS_PigeonHole
    <2> QED BY <2>1, <2>2
  <1> QED BY <1>5, <1>7

\* What a step computes from the value before it exists for any number of steps.
LEMMA StepsExist ==
  ASSUME NEW V, NEW v \in V, NEW N \in Nat, NEW F \in [1 .. N -> [V -> V]]
  PROVE  \E g \in [0 .. N -> V] : g[0] = v /\ \A m \in 1 .. N : g[m] = F[m][g[m - 1]]
  <1> DEFINE P(n, g) == g[0] = v /\ \A m \in 1 .. n : g[m] = F[m][g[m - 1]]
             S == {n \in Nat : n <= N => \E g \in [0 .. n -> V] : P(n, g)}
  <1>1. 0 \in S
    <2> DEFINE g == [i \in 0 .. 0 |-> v]
    <2>1. g \in [0 .. 0 -> V] /\ P(0, g)
      OBVIOUS
    <2> QED BY <2>1
  <1>2. ASSUME NEW n \in Nat, n \in S PROVE n + 1 \in S
    <2> SUFFICES ASSUME n + 1 <= N PROVE \E g \in [0 .. n + 1 -> V] : P(n + 1, g)
      OBVIOUS
    <2>1. PICK g \in [0 .. n -> V] : P(n, g)
      BY <1>2
    <2> DEFINE h == [i \in 0 .. n + 1 |-> IF i = n + 1 THEN F[n + 1][g[n]] ELSE g[i]]
    <2>2. g[n] \in V /\ F[n + 1][g[n]] \in V
      OBVIOUS
    <2>3. h \in [0 .. n + 1 -> V]
      BY <2>2
    <2>4. /\ \A i \in 0 .. n : h[i] = g[i]
          /\ h[n + 1] = F[n + 1][g[n]]
      OBVIOUS
    <2> HIDE DEF h
    <2>5. h[0] = v
      BY <2>1, <2>4
    <2>6. ASSUME NEW m \in 1 .. n + 1 PROVE h[m] = F[m][h[m - 1]]
      <3>1. CASE m = n + 1
        BY <3>1, <2>4
      <3>2. CASE m # n + 1
        <4>1. m \in 1 .. n /\ m - 1 \in 0 .. n /\ m \in 0 .. n
          BY <3>2
        <4> QED BY <4>1, <2>1, <2>4
      <3> QED BY <3>1, <3>2
    <2> QED BY <2>3, <2>5, <2>6
  <1> HIDE DEF S
  <1>3. Nat \subseteq S
    BY <1>1, <1>2, SetInduction
  <1> QED BY <1>3 DEF S

\* g is computed by the steps F.
ComputedBy(g, F, N) == \A m \in 1 .. N : g[m] = F[m][g[m - 1]]

\* A computation by steps has one result.
LEMMA StepsAgree ==
  ASSUME NEW N \in Nat, NEW F, NEW g, NEW h, g[0] = h[0], ComputedBy(g, F, N), ComputedBy(h, F, N)
  PROVE  \A m \in 0 .. N : g[m] = h[m]
  <1> DEFINE S == {m \in Nat : m <= N => g[m] = h[m]}
  <1>1. 0 \in S
    OBVIOUS
  <1>2. ASSUME NEW m \in Nat, m \in S PROVE m + 1 \in S
    <2> SUFFICES ASSUME m + 1 <= N PROVE g[m + 1] = h[m + 1]
      OBVIOUS
    <2>1. m + 1 \in 1 .. N /\ (m + 1) - 1 = m /\ g[m] = h[m]
      BY <1>2
    <2>2. g[m + 1] = F[m + 1][g[m]] /\ h[m + 1] = F[m + 1][h[m]]
      BY <2>1 DEF ComputedBy
    <2> QED BY <2>1, <2>2
  <1> HIDE DEF S
  <1>3. Nat \subseteq S
    BY <1>1, <1>2, SetInduction
  <1> QED BY <1>3 DEF S

\* A computation by steps has a result.
LEMMA StepsFrom ==
  ASSUME NEW V, NEW v \in V, NEW N \in Nat, NEW F \in [1 .. N -> [V -> V]]
  PROVE  \E g \in [0 .. N -> V] : g[0] = v /\ ComputedBy(g, F, N)
  BY StepsExist DEF ComputedBy

\* Induction over sequences.
LEMMA SeqInduction ==
  ASSUME NEW X, NEW P, << >> \in P,
         \A s \in Seq(X), x \in X : s \in P => Append(s, x) \in P
  PROVE  Seq(X) \subseteq P
  <1> DEFINE S == {n \in Nat : \A s \in Seq(X) : Len(s) = n => s \in P}
  <1>1. 0 \in S
    <2> SUFFICES ASSUME NEW s \in Seq(X), Len(s) = 0 PROVE s \in P
      OBVIOUS
    <2>1. s = << >>
      BY EmptySeq
    <2> QED BY <2>1
  <1>2. ASSUME NEW n \in Nat, n \in S PROVE n + 1 \in S
    <2> SUFFICES ASSUME NEW s \in Seq(X), Len(s) = n + 1 PROVE s \in P
      OBVIOUS
    <2>1. s # << >>
      BY EmptySeq
    <2>2. PICK t \in Seq(X), x \in X : s = Append(t, x)
      BY <2>1, SequenceEmptyOrAppend
    <2>3. Len(t) = n
      BY <2>2, AppendProperties, LenProperties
    <2> QED BY <1>2, <2>2, <2>3
  <1> HIDE DEF S
  <1>3. Nat \subseteq S
    BY <1>1, <1>2, SetInduction
  <1> SUFFICES ASSUME NEW s \in Seq(X) PROVE s \in P
    OBVIOUS
  <1>4. Len(s) \in Nat
    BY LenProperties
  <1> QED BY <1>3, <1>4 DEF S

-----------------------------------------------------------------------------
(* Selections *)

\* One step of Select.
Keep(y, x, W) == IF x \in W THEN Append(y, x) ELSE y

\* The steps k of Select.
SelectingBy(k, s, W) ==
  k[0] = << >> /\ \A m \in 1 .. Len(s) : k[m] = Keep(k[m - 1], s[m], W)

\* Types of Keep.
LEMMA KeepIsSeq ==
  ASSUME NEW X, NEW y \in Seq(X), NEW x \in X, NEW W PROVE Keep(y, x, W) \in Seq(X)
  BY AppendProperties DEF Keep

\* Select is computed by steps.
LEMMA SelectSteps ==
  ASSUME NEW X, NEW s \in Seq(X), NEW W
  PROVE  \E k \in [0 .. Len(s) -> Seq(X)] : SelectingBy(k, s, W) /\ Select(s, W) = k[Len(s)]
  <1> DEFINE N == Len(s)
             V == Seq(X)
             F == [m \in 1 .. N |-> [y \in V |-> Keep(y, s[m], W)]]
             Body(g) == [n \in 0 .. N |-> IF n = 0 THEN << >>
                                          ELSE IF s[n] \in W THEN Append(g[n - 1], s[n]) ELSE g[n - 1]]
             k == CHOOSE g : g = Body(g)
  <1>1. N \in Nat /\ \A m \in 1 .. N : s[m] \in X
    BY LenProperties, ElementOfSeq
  <1>2. << >> \in V
    BY EmptySeq
  <1>3. /\ F \in [1 .. N -> [V -> V]]
        /\ \A m \in 1 .. N, y \in V : F[m][y] = Keep(y, s[m], W)
    <2>1. \A m \in 1 .. N, y \in V : Keep(y, s[m], W) \in V
      BY <1>1, KeepIsSeq
    <2> HIDE DEF V, N
    <2> QED BY <2>1
  <1> HIDE DEF V, F, N
  <1>4. PICK g \in [0 .. N -> V] : g[0] = << >> /\ \A m \in 1 .. N : g[m] = F[m][g[m - 1]]
    <2>1. N \in Nat /\ F \in [1 .. N -> [V -> V]]
      BY <1>1, <1>3
    <2> QED BY <1>2, <2>1, StepsExist, SMTT(30)
  <1>5. \A m \in 1 .. N : g[m] = Keep(g[m - 1], s[m], W)
    <2> SUFFICES ASSUME NEW m \in 1 .. N PROVE g[m] = Keep(g[m - 1], s[m], W)
      OBVIOUS
    <2>1. m - 1 \in 0 .. N
      BY <1>1
    <2> QED BY <1>3, <1>4, <2>1
  <1>6. g = Body(g)
    <2>1. ASSUME NEW n \in 0 .. N PROVE g[n] = Body(g)[n]
      <3>1. CASE n = 0
        BY <1>4, <3>1
      <3>2. CASE n # 0
        <4>1. n \in 1 .. N
          BY <1>1, <3>2
        <4>2. g[n] = Keep(g[n - 1], s[n], W)
          BY <1>5, <4>1
        <4> QED BY <3>2, <4>2 DEF Keep
      <3> QED BY <3>1, <3>2
    <2>2. g = [n \in 0 .. N |-> g[n]]
      BY <1>4
    <2> QED BY <2>1, <2>2
  <1>7. k = Body(k)
    BY <1>6
  <1>8. Select(s, W) = k[N]
    BY DEF Select, N
  <1>9. k[0] = << >> /\ \A m \in 1 .. N : k[m] = Keep(k[m - 1], s[m], W)
    <2> HIDE DEF k
    <2>1. \A n \in 0 .. N : k[n] = IF n = 0 THEN << >>
                                   ELSE IF s[n] \in W THEN Append(k[n - 1], s[n]) ELSE k[n - 1]
      BY <1>7
    <2>2. 0 \in 0 .. N /\ \A m \in 1 .. N : m \in 0 .. N /\ m # 0
      BY <1>1
    <2> QED BY <2>1, <2>2 DEF Keep
  <1>10. \A m \in 0 .. N : k[m] \in V
    <2> HIDE DEF k
    <2> DEFINE S == {m \in Nat : m <= N => k[m] \in V}
    <2>1. 0 \in S
      BY <1>2, <1>9
    <2>2. ASSUME NEW m \in Nat, m \in S PROVE m + 1 \in S
      <3> SUFFICES ASSUME m + 1 <= N PROVE k[m + 1] \in V
        OBVIOUS
      <3>1. m + 1 \in 1 .. N /\ (m + 1) - 1 = m /\ k[m] \in V
        BY <1>1, <2>2
      <3>2. k[m + 1] = Keep(k[m], s[m + 1], W) /\ s[m + 1] \in X
        BY <1>1, <1>9, <3>1
      <3> QED BY <3>1, <3>2, KeepIsSeq DEF V
    <2> HIDE DEF S
    <2>3. Nat \subseteq S
      BY <2>1, <2>2, SetInduction
    <2> QED BY <1>1, <2>3 DEF S
  <1>11. k \in [0 .. N -> V]
    <2> HIDE DEF k
    <2>1. k = [n \in 0 .. N |-> k[n]]
      BY <1>7
    <2> QED BY <1>10, <2>1
  <1> HIDE DEF k
  <1>12. SelectingBy(k, s, W)
    BY <1>9 DEF SelectingBy, N
  <1> QED BY <1>8, <1>11, <1>12 DEF N, V

\* Select by recursion.
LEMMA SelectFacts ==
  ASSUME NEW X, NEW W
  PROVE  /\ Select(<< >>, W) = << >>
         /\ \A s \in Seq(X) : Select(s, W) \in Seq(X)
         /\ \A s \in Seq(X), x \in X : Select(Append(s, x), W) = Keep(Select(s, W), x, W)
  <1>1. Select(<< >>, W) = << >>
    <2>1. << >> \in Seq(X) /\ Len(<< >>) = 0
      BY EmptySeq
    <2>2. PICK k \in [0 .. Len(<< >>) -> Seq(X)] : SelectingBy(k, << >>, W) /\ Select(<< >>, W) = k[Len(<< >>)]
      BY <2>1, SelectSteps
    <2> QED BY <2>1, <2>2 DEF SelectingBy
  <1>2. ASSUME NEW s \in Seq(X) PROVE Select(s, W) \in Seq(X)
    <2>1. PICK k \in [0 .. Len(s) -> Seq(X)] : SelectingBy(k, s, W) /\ Select(s, W) = k[Len(s)]
      BY SelectSteps
    <2>2. Len(s) \in 0 .. Len(s)
      BY LenProperties
    <2> QED BY <2>1, <2>2
  <1>3. ASSUME NEW s \in Seq(X), NEW x \in X PROVE Select(Append(s, x), W) = Keep(Select(s, W), x, W)
    <2> DEFINE t == Append(s, x)
               N == Len(s)
               F == [m \in 1 .. N |-> [y \in Seq(X) |-> Keep(y, s[m], W)]]
    <2>1. /\ t \in Seq(X) /\ Len(t) = N + 1 /\ N \in Nat /\ t[N + 1] = x
          /\ \A m \in 1 .. N : t[m] = s[m]
      BY AppendProperties, LenProperties
    <2> HIDE DEF t
    <2>2. PICK k \in [0 .. Len(s) -> Seq(X)] : SelectingBy(k, s, W) /\ Select(s, W) = k[Len(s)]
      BY SelectSteps
    <2>3. PICK j \in [0 .. Len(t) -> Seq(X)] : SelectingBy(j, t, W) /\ Select(t, W) = j[Len(t)]
      BY <2>1, SelectSteps
    <2> HIDE DEF N
    <2>4. \A m \in 1 .. N : k[m] = F[m][k[m - 1]]
      <3> SUFFICES ASSUME NEW m \in 1 .. N PROVE k[m] = F[m][k[m - 1]]
        OBVIOUS
      <3>0. m - 1 \in 0 .. N
        BY <2>1
      <3>1. k[m - 1] \in Seq(X) /\ k[m] = Keep(k[m - 1], s[m], W)
        BY <2>2, <3>0 DEF SelectingBy, N
      <3> QED BY <3>1
    <2>5. \A m \in 1 .. N : j[m] = F[m][j[m - 1]]
      <3> SUFFICES ASSUME NEW m \in 1 .. N PROVE j[m] = F[m][j[m - 1]]
        OBVIOUS
      <3>0. m - 1 \in 0 .. N + 1 /\ m \in 1 .. N + 1
        BY <2>1
      <3>1. j[m - 1] \in Seq(X) /\ j[m] = Keep(j[m - 1], t[m], W) /\ t[m] = s[m]
        BY <2>1, <2>3, <3>0 DEF SelectingBy
      <3> QED BY <3>1
    <2>6. k[0] = j[0]
      BY <2>2, <2>3 DEF SelectingBy
    <2> HIDE DEF F
    <2>7. \A m \in 0 .. N : k[m] = j[m]
      <3>1. \A M \in Nat : \A G, a, b :
              a[0] = b[0] /\ ComputedBy(a, G, M) /\ ComputedBy(b, G, M) => \A m \in 0 .. M : a[m] = b[m]
        BY StepsAgree
      <3>2. N \in Nat
        BY <2>1
      <3>3. ComputedBy(k, F, N) /\ ComputedBy(j, F, N)
        BY <2>4, <2>5 DEF ComputedBy
      <3>4. \A a, b : a[0] = b[0] /\ ComputedBy(a, F, N) /\ ComputedBy(b, F, N) => \A m \in 0 .. N : a[m] = b[m]
        BY <3>1, <3>2
      <3> QED BY <3>3, <3>4, <2>6, Zenon
    <2>8. j[N + 1] = Keep(j[N], x, W)
      BY <2>1, <2>3 DEF SelectingBy
    <2> QED BY <2>1, <2>2, <2>3, <2>7, <2>8 DEF N, t
  <1> QED BY <1>1, <1>2, <1>3

-----------------------------------------------------------------------------
(* Sequences joined into one *)

\* The empty sequence adds nothing.
LEMMA EmptyConcat ==
  ASSUME NEW X, NEW s \in Seq(X)
  PROVE  << >> \o s = s /\ s \o << >> = s
  BY ConcatEmptySeq

\* FlattenSeq is computed by steps.
LEMMA FlattenSteps ==
  ASSUME NEW X, NEW ss \in Seq(Seq(X))
  PROVE  \E k \in [0 .. Len(ss) -> Seq(X)] :
           /\ k[0] = << >>
           /\ \A m \in 1 .. Len(ss) : k[m] = k[m - 1] \o ss[m]
           /\ FlattenSeq(ss) = k[Len(ss)]
  <1> DEFINE N == Len(ss)
             V == Seq(X)
             F == [m \in 1 .. N |-> [y \in V |-> y \o ss[m]]]
             Body(f) == [i \in 1 .. N |-> IF i = 1 THEN ss[i] ELSE f[i - 1] \o ss[i]]
             k == CHOOSE f : f = Body(f)
  <1>1. N \in Nat /\ \A m \in 1 .. N : ss[m] \in V
    BY LenProperties, ElementOfSeq
  <1>2. << >> \in V
    BY EmptySeq
  <1>3. /\ F \in [1 .. N -> [V -> V]]
        /\ \A m \in 1 .. N, y \in V : F[m][y] = y \o ss[m]
    <2>1. \A m \in 1 .. N, y \in V : y \o ss[m] \in V
      BY <1>1, ConcatProperties
    <2> HIDE DEF V, N
    <2> QED BY <2>1
  <1>0. \A y \in V : << >> \o y = y
    BY EmptyConcat
  <1> HIDE DEF V, F, N
  <1>4. PICK g \in [0 .. N -> V] : g[0] = << >> /\ \A m \in 1 .. N : g[m] = F[m][g[m - 1]]
    <2>1. N \in Nat /\ F \in [1 .. N -> [V -> V]]
      BY <1>1, <1>3
    <2>2. PICK g \in [0 .. N -> V] : g[0] = << >> /\ ComputedBy(g, F, N)
      BY <1>2, <2>1, StepsFrom
    <2> QED BY <2>2 DEF ComputedBy
  <1>5. \A m \in 1 .. N : g[m] = g[m - 1] \o ss[m]
    <2> SUFFICES ASSUME NEW m \in 1 .. N PROVE g[m] = g[m - 1] \o ss[m]
      OBVIOUS
    <2>1. m - 1 \in 0 .. N
      BY <1>1
    <2> QED BY <1>3, <1>4, <2>1
  <1> DEFINE h == [m \in 1 .. N |-> g[m]]
  <1>6. h = Body(h)
    <2>1. ASSUME NEW n \in 1 .. N PROVE h[n] = Body(h)[n]
      <3>1. CASE n = 1
        <4>0. 1 \in 1 .. N /\ 1 - 1 = 0
          BY <3>1
        <4>1. g[1] = g[0] \o ss[1] /\ ss[1] \in V
          BY <1>1, <1>5, <4>0
        <4> QED BY <3>1, <4>1, <1>0, <1>4
      <3>2. CASE n # 1
        <4>1. n - 1 \in 1 .. N
          BY <1>1, <3>2
        <4>2. g[n] = g[n - 1] \o ss[n]
          BY <1>5
        <4> QED BY <3>2, <4>1, <4>2
      <3> QED BY <3>1, <3>2
    <2> QED BY <2>1
  <1>7. k = Body(k)
    BY <1>6
  <1> HIDE DEF k, h
  <1>8. \A m \in 1 .. N : k[m] = g[m]
    <2> DEFINE S == {m \in Nat : m + 1 <= N => k[m + 1] = g[m + 1]}
    <2>0. \A m \in 1 .. N : k[m] = IF m = 1 THEN ss[m] ELSE k[m - 1] \o ss[m]
      BY <1>7
    <2>1. 0 \in S
      <3> SUFFICES ASSUME 1 <= N PROVE k[1] = g[1]
        OBVIOUS
      <3>0. 1 \in 1 .. N /\ 1 - 1 = 0
        BY <1>1
      <3>1. k[1] = ss[1] /\ g[1] = g[0] \o ss[1] /\ ss[1] \in V
        BY <1>1, <1>5, <2>0, <3>0
      <3> QED BY <3>1, <1>0, <1>4
    <2>2. ASSUME NEW m \in Nat, m \in S PROVE m + 1 \in S
      <3> SUFFICES ASSUME (m + 1) + 1 <= N PROVE k[(m + 1) + 1] = g[(m + 1) + 1]
        OBVIOUS
      <3> DEFINE n == (m + 1) + 1
      <3>1. n \in 1 .. N /\ n # 1 /\ n - 1 = m + 1 /\ k[m + 1] = g[m + 1]
        BY <1>1, <2>2
      <3> HIDE DEF n
      <3>2. k[n] = k[n - 1] \o ss[n] /\ g[n] = g[n - 1] \o ss[n]
        BY <2>0, <1>5, <3>1
      <3> QED BY <3>1, <3>2 DEF n
    <2> HIDE DEF S
    <2>3. Nat \subseteq S
      BY <2>1, <2>2, SetInduction
    <2> SUFFICES ASSUME NEW m \in 1 .. N PROVE k[m] = g[m]
      OBVIOUS
    <2>4. m - 1 \in Nat /\ (m - 1) + 1 = m /\ m <= N
      BY <1>1
    <2> QED BY <2>3, <2>4 DEF S
  <1>9. FlattenSeq(ss) = g[N]
    <2>1. CASE N = 0
      <3>1. ss = << >>
        BY <2>1, EmptySeq DEF N
      <3> QED BY <2>1, <3>1, <1>4 DEF FlattenSeq, N
    <2>2. CASE N # 0
      <3>1. FlattenSeq(ss) = k[N]
        BY <2>2 DEF FlattenSeq, N, k
      <3> QED BY <1>1, <1>8, <2>2, <3>1
    <2> QED BY <2>1, <2>2
  <1> QED BY <1>4, <1>5, <1>9 DEF N, V

\* FlattenSeq by recursion.
LEMMA FlattenFacts ==
  ASSUME NEW X
  PROVE  /\ FlattenSeq(<< >>) = << >>
         /\ \A ss \in Seq(Seq(X)) : FlattenSeq(ss) \in Seq(X)
         /\ \A ss \in Seq(Seq(X)), t \in Seq(X) : FlattenSeq(Append(ss, t)) = FlattenSeq(ss) \o t
  <1>1. FlattenSeq(<< >>) = << >>
    BY EmptySeq DEF FlattenSeq
  <1>2. ASSUME NEW ss \in Seq(Seq(X)) PROVE FlattenSeq(ss) \in Seq(X)
    <2>1. PICK k \in [0 .. Len(ss) -> Seq(X)] : FlattenSeq(ss) = k[Len(ss)]
      BY FlattenSteps
    <2>2. Len(ss) \in 0 .. Len(ss)
      BY LenProperties
    <2> QED BY <2>1, <2>2
  <1>3. ASSUME NEW ss \in Seq(Seq(X)), NEW t \in Seq(X) PROVE FlattenSeq(Append(ss, t)) = FlattenSeq(ss) \o t
    <2> DEFINE N == Len(ss)
               tt == Append(ss, t)
    <2>1. /\ tt \in Seq(Seq(X)) /\ Len(tt) = N + 1 /\ N \in Nat /\ tt[N + 1] = t
          /\ \A m \in 1 .. N : tt[m] = ss[m]
      BY AppendProperties, LenProperties
    <2> HIDE DEF tt
    <2>2. PICK k \in [0 .. Len(ss) -> Seq(X)] :
            /\ k[0] = << >>
            /\ \A m \in 1 .. Len(ss) : k[m] = k[m - 1] \o ss[m]
            /\ FlattenSeq(ss) = k[Len(ss)]
      BY FlattenSteps
    <2>3. PICK j \in [0 .. Len(tt) -> Seq(X)] :
            /\ j[0] = << >>
            /\ \A m \in 1 .. Len(tt) : j[m] = j[m - 1] \o tt[m]
            /\ FlattenSeq(tt) = j[Len(tt)]
      BY <2>1, FlattenSteps
    <2> HIDE DEF N
    <2> DEFINE S == {m \in Nat : m <= N => k[m] = j[m]}
    <2>4. 0 \in S
      BY <2>2, <2>3
    <2>5. ASSUME NEW m \in Nat, m \in S PROVE m + 1 \in S
      <3> SUFFICES ASSUME m + 1 <= N PROVE k[m + 1] = j[m + 1]
        OBVIOUS
      <3> DEFINE n == m + 1
      <3>1. n \in 1 .. N /\ n \in 1 .. Len(tt) /\ n - 1 = m /\ k[m] = j[m] /\ tt[n] = ss[n]
        BY <2>1, <2>5
      <3> HIDE DEF n
      <3>2. k[n] = k[n - 1] \o ss[n] /\ j[n] = j[n - 1] \o tt[n]
        BY <2>2, <2>3, <3>1 DEF N
      <3> QED BY <3>1, <3>2 DEF n
    <2> HIDE DEF S
    <2>6. Nat \subseteq S
      BY <2>4, <2>5, SetInduction
    <2>7. k[N] = j[N]
      BY <2>1, <2>6 DEF S
    <2>8. j[N + 1] = j[N] \o t
      <3>1. N + 1 \in 1 .. Len(tt) /\ (N + 1) - 1 = N
        BY <2>1
      <3> QED BY <2>1, <2>3, <3>1
    <2> QED BY <2>1, <2>2, <2>3, <2>7, <2>8 DEF N, tt
  <1> QED BY <1>1, <1>2, <1>3

-----------------------------------------------------------------------------
(* Order, selection, members *)

\* Whatever comes later in s is related by R to what came before it.
Ordered(s, R) == \A i, j \in DOMAIN s : i < j => <<s[i], s[j]>> \in R

\* What Append does.
LEMMA AppendedSeq ==
  ASSUME NEW X, NEW s \in Seq(X), NEW x \in X
  PROVE  /\ Append(s, x) \in Seq(X) /\ Len(s) \in Nat /\ Len(Append(s, x)) = Len(s) + 1
         /\ DOMAIN s = 1 .. Len(s) /\ DOMAIN Append(s, x) = 1 .. Len(s) + 1
         /\ \A i \in DOMAIN s : Append(s, x)[i] = s[i]
         /\ Append(s, x)[Len(s) + 1] = x
         /\ Range(Append(s, x)) = Range(s) \union {x}
  <1>1. /\ Append(s, x) \in Seq(X) /\ Len(s) \in Nat /\ Len(Append(s, x)) = Len(s) + 1
        /\ DOMAIN s = 1 .. Len(s) /\ \A i \in 1 .. Len(s) : Append(s, x)[i] = s[i]
        /\ Append(s, x)[Len(s) + 1] = x
    BY AppendProperties, LenProperties
  <1>2. DOMAIN Append(s, x) = 1 .. Len(s) + 1
    BY <1>1, LenProperties
  <1>3. Range(Append(s, x)) = Range(s) \union {x}
    BY <1>1, <1>2 DEF Range
  <1> QED BY <1>1, <1>2, <1>3

\* The empty sequence.
LEMMA EmptyFacts == Len(<< >>) = 0 /\ DOMAIN << >> = {} /\ Range(<< >>) = {}
  BY EmptySeq DEF Range

\* Ordered, one element at a time.
LEMMA OrderedAppend ==
  ASSUME NEW X, NEW R, NEW s \in Seq(X), NEW x \in X
  PROVE  Ordered(Append(s, x), R) <=> Ordered(s, R) /\ \A y \in Range(s) : <<y, x>> \in R
  <1> DEFINE t == Append(s, x)
             n == Len(s)
  <1>1. /\ n \in Nat /\ DOMAIN s = 1 .. n /\ DOMAIN t = 1 .. n + 1
        /\ \A i \in DOMAIN s : t[i] = s[i]
        /\ t[n + 1] = x
    BY AppendedSeq
  <1> HIDE DEF t, n
  <1>2. ASSUME Ordered(t, R) PROVE Ordered(s, R)
    <2>1. \A i \in DOMAIN s : i \in DOMAIN t
      BY <1>1
    <2> QED BY <1>1, <1>2, <2>1 DEF Ordered
  <1>3. ASSUME Ordered(t, R), NEW y \in Range(s) PROVE <<y, x>> \in R
    <2>1. PICK i \in DOMAIN s : y = s[i]
      BY DEF Range
    <2>2. i \in DOMAIN t /\ n + 1 \in DOMAIN t /\ i < n + 1
      BY <1>1
    <2> QED BY <1>1, <1>3, <2>1, <2>2 DEF Ordered
  <1>4. ASSUME Ordered(s, R), \A y \in Range(s) : <<y, x>> \in R PROVE Ordered(t, R)
    <2> SUFFICES ASSUME NEW i \in DOMAIN t, NEW j \in DOMAIN t, i < j PROVE <<t[i], t[j]>> \in R
      BY DEF Ordered
    <2>1. i \in DOMAIN s /\ t[i] = s[i] /\ s[i] \in Range(s)
      BY <1>1 DEF Range
    <2>2. CASE j = n + 1
      BY <1>1, <1>4, <2>1, <2>2
    <2>3. CASE j # n + 1
      <3>1. j \in DOMAIN s
        BY <1>1, <2>3
      <3> QED BY <1>1, <1>4, <2>1, <3>1 DEF Ordered
    <2> QED BY <2>2, <2>3
  <1> QED BY <1>2, <1>3, <1>4 DEF t

\* Types of Select.
LEMMA SelectedSeq ==
  ASSUME NEW X, NEW W, NEW s \in Seq(X)
  PROVE  Select(s, W) \in Seq(X)
  BY SelectFacts

\* Select, one element at a time.
LEMMA SelectAppend ==
  ASSUME NEW X, NEW W, NEW s \in Seq(X), NEW x \in X
  PROVE  Select(Append(s, x), W) = IF x \in W THEN Append(Select(s, W), x) ELSE Select(s, W)
  <1>1. Select(Append(s, x), W) = Keep(Select(s, W), x, W)
    BY SelectFacts
  <1> QED BY <1>1 DEF Keep

\* Nothing is selected of nothing.
LEMMA SelectEmpty == ASSUME NEW W PROVE Select(<< >>, W) = << >>
  BY SelectFacts

\* What is selected is what is wanted.
LEMMA SelectRange ==
  ASSUME NEW X, NEW W, NEW s \in Seq(X)
  PROVE  Range(Select(s, W)) = Range(s) \intersect W
  <1> DEFINE P == {r \in Seq(X) : Range(Select(r, W)) = Range(r) \intersect W}
  <1>1. << >> \in P
    BY EmptySeq, EmptyFacts, SelectEmpty
  <1>2. ASSUME NEW r \in Seq(X), NEW x \in X, r \in P PROVE Append(r, x) \in P
    <2>1. Append(r, x) \in Seq(X) /\ Range(Append(r, x)) = Range(r) \union {x}
      BY AppendedSeq
    <2>2. Select(r, W) \in Seq(X)
      BY SelectedSeq
    <2>3. Range(Append(Select(r, W), x)) = Range(Select(r, W)) \union {x}
      BY <2>2, AppendedSeq
    <2>4. Select(Append(r, x), W) = IF x \in W THEN Append(Select(r, W), x) ELSE Select(r, W)
      BY SelectAppend
    <2> QED BY <1>2, <2>1, <2>3, <2>4
  <1> HIDE DEF P
  <1>3. Seq(X) \subseteq P
    BY <1>1, <1>2, SeqInduction
  <1> QED BY <1>3 DEF P

\* Only what is in the sequence matters.
LEMMA SelectSame ==
  ASSUME NEW X, NEW W, NEW U, NEW s \in Seq(X), \A x \in Range(s) : x \in W <=> x \in U
  PROVE  Select(s, W) = Select(s, U)
  <1> DEFINE P == {r \in Seq(X) : (\A x \in Range(r) : x \in W <=> x \in U) => Select(r, W) = Select(r, U)}
  <1>1. << >> \in P
    BY EmptySeq, SelectEmpty
  <1>2. ASSUME NEW r \in Seq(X), NEW x \in X, r \in P PROVE Append(r, x) \in P
    <2>1. Append(r, x) \in Seq(X) /\ Range(Append(r, x)) = Range(r) \union {x}
      BY AppendedSeq
    <2> SUFFICES ASSUME \A y \in Range(Append(r, x)) : y \in W <=> y \in U
                 PROVE  Select(Append(r, x), W) = Select(Append(r, x), U)
      BY <2>1
    <2>2. Select(r, W) = Select(r, U) /\ (x \in W <=> x \in U)
      BY <1>2, <2>1
    <2> QED BY <2>2, SelectAppend
  <1> HIDE DEF P
  <1>3. Seq(X) \subseteq P
    BY <1>1, <1>2, SeqInduction
  <1> QED BY <1>3 DEF P

\* What is selected is in the same order.
LEMMA SelectOrdered ==
  ASSUME NEW X, NEW W, NEW R, NEW s \in Seq(X), Ordered(s, R)
  PROVE  Ordered(Select(s, W), R)
  <1> DEFINE P == {r \in Seq(X) : Ordered(r, R) => Ordered(Select(r, W), R)}
  <1>1. << >> \in P
    BY EmptySeq, SelectEmpty
  <1>2. ASSUME NEW r \in Seq(X), NEW x \in X, r \in P PROVE Append(r, x) \in P
    <2>1. Append(r, x) \in Seq(X)
      BY AppendedSeq
    <2> SUFFICES ASSUME Ordered(Append(r, x), R) PROVE Ordered(Select(Append(r, x), W), R)
      BY <2>1
    <2>2. Ordered(r, R) /\ \A y \in Range(r) : <<y, x>> \in R
      BY OrderedAppend
    <2>3. Select(r, W) \in Seq(X) /\ Range(Select(r, W)) \subseteq Range(r) /\ Ordered(Select(r, W), R)
      BY <1>2, <2>2, SelectedSeq, SelectRange
    <2>4. Ordered(Append(Select(r, W), x), R)
      BY <2>2, <2>3, OrderedAppend
    <2>5. Select(Append(r, x), W) = IF x \in W THEN Append(Select(r, W), x) ELSE Select(r, W)
      BY SelectAppend
    <2> QED BY <2>3, <2>4, <2>5
  <1> HIDE DEF P
  <1>3. Seq(X) \subseteq P
    BY <1>1, <1>2, SeqInduction
  <1> QED BY <1>3 DEF P

\* Concatenation, one element at a time.
LEMMA ConcatAppend ==
  ASSUME NEW X, NEW s \in Seq(X), NEW t \in Seq(X), NEW x \in X
  PROVE  s \o Append(t, x) = Append(s \o t, x) /\ s \o t \in Seq(X)
  <1>1. Append(t, x) = t \o <<x>> /\ Append(s \o t, x) = (s \o t) \o <<x>> /\ s \o t \in Seq(X) /\ <<x>> \in Seq(X)
    BY AppendIsConcat, ConcatProperties
  <1> QED BY <1>1, ConcatAssociative

\* Select of two parts.
LEMMA SelectConcat ==
  ASSUME NEW X, NEW W, NEW s \in Seq(X), NEW t \in Seq(X)
  PROVE  Select(s \o t, W) = Select(s, W) \o Select(t, W)
  <1> DEFINE P == {r \in Seq(X) : Select(s \o r, W) = Select(s, W) \o Select(r, W)}
  <1>0. Select(s, W) \in Seq(X)
    BY SelectedSeq
  <1>1. << >> \in P
    BY <1>0, EmptySeq, SelectEmpty, EmptyConcat
  <1>2. ASSUME NEW r \in Seq(X), NEW x \in X, r \in P PROVE Append(r, x) \in P
    <2>1. Append(r, x) \in Seq(X)
      BY AppendedSeq
    <2>2. s \o Append(r, x) = Append(s \o r, x) /\ s \o r \in Seq(X)
      BY ConcatAppend
    <2>3. Select(r, W) \in Seq(X)
      BY SelectedSeq
    <2>4. Select(s, W) \o Append(Select(r, W), x) = Append(Select(s, W) \o Select(r, W), x)
      BY <1>0, <2>3, ConcatAppend
    <2>5. Select(s \o r, W) = Select(s, W) \o Select(r, W)
      BY <1>2
    <2>6. Select(Append(s \o r, x), W) = IF x \in W THEN Append(Select(s \o r, W), x) ELSE Select(s \o r, W)
      <3>1. \A u \in Seq(X) : Select(Append(u, x), W) = IF x \in W THEN Append(Select(u, W), x) ELSE Select(u, W)
        BY SelectAppend
      <3> QED BY <2>2, <3>1
    <2>7. Select(Append(r, x), W) = IF x \in W THEN Append(Select(r, W), x) ELSE Select(r, W)
      BY SelectAppend
    <2> QED BY <2>1, <2>2, <2>4, <2>5, <2>6, <2>7
  <1> HIDE DEF P
  <1>3. Seq(X) \subseteq P
    BY <1>1, <1>2, SeqInduction
  <1> QED BY <1>3 DEF P

-----------------------------------------------------------------------------
(* What is made of every element *)

\* G of each element.
Mapped(s, G) == [i \in DOMAIN s |-> G[s[i]]]

\* A function on 1 .. n is a sequence.
LEMMA FunIsSeq ==
  ASSUME NEW Y, NEW n \in Nat, NEW f \in [1 .. n -> Y]
  PROVE  f \in Seq(Y) /\ Len(f) = n
  OBVIOUS

\* Mapped by recursion.
LEMMA MappedFacts ==
  ASSUME NEW X, NEW Y, NEW G \in [X -> Y]
  PROVE  /\ Mapped(<< >>, G) = << >>
         /\ \A s \in Seq(X) : Mapped(s, G) \in Seq(Y)
         /\ \A s \in Seq(X), x \in X : Mapped(Append(s, x), G) = Append(Mapped(s, G), G[x])
  <1>1. Mapped(<< >>, G) = << >>
    BY EmptyFacts, EmptySeq DEF Mapped
  <1>2. ASSUME NEW s \in Seq(X) PROVE Mapped(s, G) \in Seq(Y) /\ Len(Mapped(s, G)) = Len(s)
    <2>1. Len(s) \in Nat /\ DOMAIN s = 1 .. Len(s) /\ \A i \in DOMAIN s : s[i] \in X
      BY LenProperties, ElementOfSeq
    <2>2. Mapped(s, G) \in [1 .. Len(s) -> Y]
      BY <2>1 DEF Mapped
    <2> QED BY <2>1, <2>2, FunIsSeq
  <1>3. ASSUME NEW s \in Seq(X), NEW x \in X PROVE Mapped(Append(s, x), G) = Append(Mapped(s, G), G[x])
    <2> DEFINE a == Mapped(Append(s, x), G)
               b == Append(Mapped(s, G), G[x])
               n == Len(s)
    <2>1. /\ n \in Nat /\ Append(s, x) \in Seq(X) /\ Len(Append(s, x)) = n + 1
          /\ DOMAIN Append(s, x) = 1 .. n + 1 /\ DOMAIN s = 1 .. n
          /\ Append(s, x)[n + 1] = x /\ \A i \in 1 .. n : Append(s, x)[i] = s[i]
      BY AppendedSeq
    <2>2. Mapped(s, G) \in Seq(Y) /\ Len(Mapped(s, G)) = n /\ G[x] \in Y
      BY <1>2
    <2>3. /\ b \in Seq(Y) /\ Len(b) = n + 1
          /\ b[n + 1] = G[x] /\ \A i \in 1 .. n : b[i] = Mapped(s, G)[i]
      BY <2>2, AppendedSeq
    <2>4. a \in Seq(Y) /\ Len(a) = n + 1
      BY <1>2, <2>1
    <2>5. \A i \in 1 .. n : a[i] = G[s[i]] /\ Mapped(s, G)[i] = G[s[i]]
      BY <2>1 DEF Mapped
    <2>6. a[n + 1] = G[x]
      BY <2>1 DEF Mapped
    <2> HIDE DEF a, b, n
    <2>7. \A i \in 1 .. n + 1 : a[i] = b[i]
      BY <2>1, <2>3, <2>5, <2>6
    <2>8. a = b
      BY <2>3, <2>4, <2>7, SeqEqual
    <2> QED BY <2>8 DEF a, b
  <1> QED BY <1>1, <1>2, <1>3

\* Mapped, one element at a time.
LEMMA MappedAppend ==
  ASSUME NEW X, NEW Y, NEW G \in [X -> Y], NEW s \in Seq(X), NEW x \in X
  PROVE  Mapped(Append(s, x), G) = Append(Mapped(s, G), G[x]) /\ Mapped(s, G) \in Seq(Y)
  <1>1. /\ \A r \in Seq(X) : Mapped(r, G) \in Seq(Y)
        /\ \A r \in Seq(X), y \in X : Mapped(Append(r, y), G) = Append(Mapped(r, G), G[y])
    BY MappedFacts
  <1> QED BY <1>1

-----------------------------------------------------------------------------
(* Joining, continued *)

\* Types of FlattenSeq.
LEMMA FlattenedSeq ==
  ASSUME NEW X, NEW ss \in Seq(Seq(X))
  PROVE  FlattenSeq(ss) \in Seq(X)
  BY FlattenFacts

\* FlattenSeq, one part at a time.
LEMMA FlattenAppend ==
  ASSUME NEW X, NEW ss \in Seq(Seq(X)), NEW t \in Seq(X)
  PROVE  FlattenSeq(Append(ss, t)) = FlattenSeq(ss) \o t
  BY FlattenFacts

\* Of no parts there is nothing.
LEMMA FlattenEmpty == FlattenSeq(<< >>) = << >>
  BY FlattenFacts

\* The elements of two parts.
LEMMA ConcatRange ==
  ASSUME NEW X, NEW s \in Seq(X), NEW t \in Seq(X)
  PROVE  Range(s \o t) = Range(s) \union Range(t)
  BY RangeConcatenation

\* The elements of all parts.
LEMMA FlattenRange ==
  ASSUME NEW X, NEW ss \in Seq(Seq(X))
  PROVE  Range(FlattenSeq(ss)) = UNION {Range(t) : t \in Range(ss)}
  <1> DEFINE P == {rr \in Seq(Seq(X)) : Range(FlattenSeq(rr)) = UNION {Range(t) : t \in Range(rr)}}
  <1>1. << >> \in P
    BY EmptySeq, EmptyFacts, FlattenEmpty
  <1>2. ASSUME NEW rr \in Seq(Seq(X)), NEW x \in Seq(X), rr \in P PROVE Append(rr, x) \in P
    <2>1. Append(rr, x) \in Seq(Seq(X)) /\ Range(Append(rr, x)) = Range(rr) \union {x}
      BY AppendedSeq
    <2>2. FlattenSeq(Append(rr, x)) = FlattenSeq(rr) \o x /\ FlattenSeq(rr) \in Seq(X)
      BY FlattenAppend, FlattenedSeq
    <2>3. Range(FlattenSeq(rr) \o x) = Range(FlattenSeq(rr)) \union Range(x)
      BY <2>2, ConcatRange
    <2>4. UNION {Range(t) : t \in Range(rr) \union {x}} = (UNION {Range(t) : t \in Range(rr)}) \union Range(x)
      OBVIOUS
    <2> QED BY <1>2, <2>1, <2>2, <2>3, <2>4
  <1> HIDE DEF P
  <1>3. Seq(Seq(X)) \subseteq P
    BY <1>1, <1>2, SeqInduction
  <1> QED BY <1>3 DEF P

\* Two ordered parts, all of the first before all of the second.
LEMMA ConcatOrdered ==
  ASSUME NEW X, NEW R, NEW s \in Seq(X), NEW t \in Seq(X),
         Ordered(s, R), Ordered(t, R), \A y \in Range(s), z \in Range(t) : <<y, z>> \in R
  PROVE  Ordered(s \o t, R)
  <1> DEFINE Fits(r) == Ordered(r, R) /\ \A y \in Range(s), z \in Range(r) : <<y, z>> \in R
             P == {r \in Seq(X) : Fits(r) => Ordered(s \o r, R)}
  <1>1. << >> \in P
    BY EmptySeq, EmptyConcat
  <1>2. ASSUME NEW r \in Seq(X), NEW x \in X, r \in P PROVE Append(r, x) \in P
    <2>1. Append(r, x) \in Seq(X) /\ Range(Append(r, x)) = Range(r) \union {x}
      BY AppendedSeq
    <2> SUFFICES ASSUME Fits(Append(r, x)) PROVE Ordered(s \o Append(r, x), R)
      BY <2>1
    <2>2. Ordered(r, R) /\ \A y \in Range(r) : <<y, x>> \in R
      BY OrderedAppend
    <2>3. Ordered(s \o r, R)
      BY <1>2, <2>1, <2>2
    <2>4. s \o Append(r, x) = Append(s \o r, x) /\ s \o r \in Seq(X)
      BY ConcatAppend
    <2>5. Range(s \o r) = Range(s) \union Range(r)
      BY ConcatRange
    <2>6. \A y \in Range(s \o r) : <<y, x>> \in R
      BY <2>1, <2>2, <2>5
    <2>7. \A u \in Seq(X) : Ordered(Append(u, x), R) <=> Ordered(u, R) /\ \A y \in Range(u) : <<y, x>> \in R
      BY OrderedAppend
    <2> HIDE DEF Fits
    <2> QED BY <2>3, <2>4, <2>6, <2>7
  <1>3. Fits(t)
    OBVIOUS
  <1> HIDE DEF P, Fits
  <1>4. Seq(X) \subseteq P
    BY <1>1, <1>2, SeqInduction
  <1> QED BY <1>3, <1>4 DEF P

\* Sequences of which the one may come before the other.
Follow(X, R) == {p \in Seq(X) \X Seq(X) : \A y \in Range(p[1]), z \in Range(p[2]) : <<y, z>> \in R}

\* Ordered parts in order.
LEMMA FlattenOrdered ==
  ASSUME NEW X, NEW R, NEW ss \in Seq(Seq(X)),
         \A t \in Range(ss) : Ordered(t, R), Ordered(ss, Follow(X, R))
  PROVE  Ordered(FlattenSeq(ss), R)
  <1> DEFINE Fits(rr) == (\A t \in Range(rr) : Ordered(t, R)) /\ Ordered(rr, Follow(X, R))
             P == {rr \in Seq(Seq(X)) : Fits(rr) => Ordered(FlattenSeq(rr), R)}
  <1>1. << >> \in P
    BY EmptySeq, FlattenEmpty, EmptyFacts DEF Ordered
  <1>2. ASSUME NEW rr \in Seq(Seq(X)), NEW x \in Seq(X), rr \in P PROVE Append(rr, x) \in P
    <2>1. Append(rr, x) \in Seq(Seq(X)) /\ Range(Append(rr, x)) = Range(rr) \union {x}
      BY AppendedSeq
    <2> SUFFICES ASSUME Fits(Append(rr, x)) PROVE Ordered(FlattenSeq(Append(rr, x)), R)
      BY <2>1
    <2>2. Ordered(rr, Follow(X, R)) /\ \A y \in Range(rr) : <<y, x>> \in Follow(X, R)
      BY OrderedAppend
    <2>3. Ordered(FlattenSeq(rr), R) /\ Ordered(x, R)
      BY <1>2, <2>1, <2>2
    <2>4. FlattenSeq(Append(rr, x)) = FlattenSeq(rr) \o x /\ FlattenSeq(rr) \in Seq(X)
      BY FlattenAppend, FlattenedSeq
    <2>5. Range(FlattenSeq(rr)) = UNION {Range(t) : t \in Range(rr)}
      BY FlattenRange
    <2>6. \A y \in Range(FlattenSeq(rr)), z \in Range(x) : <<y, z>> \in R
      BY <2>2, <2>5 DEF Follow
    <2>7. Ordered(FlattenSeq(rr) \o x, R)
      BY <2>3, <2>4, <2>6, ConcatOrdered
    <2> QED BY <2>4, <2>7
  <1>3. Fits(ss)
    OBVIOUS
  <1> HIDE DEF P, Fits
  <1>4. Seq(Seq(X)) \subseteq P
    BY <1>1, <1>2, SeqInduction
  <1> QED BY <1>3, <1>4 DEF P

\* Two lists of parts.
LEMMA FlattenConcat ==
  ASSUME NEW X, NEW ss \in Seq(Seq(X)), NEW tt \in Seq(Seq(X))
  PROVE  FlattenSeq(ss \o tt) = FlattenSeq(ss) \o FlattenSeq(tt)
  <1> DEFINE P == {rr \in Seq(Seq(X)) : FlattenSeq(ss \o rr) = FlattenSeq(ss) \o FlattenSeq(rr)}
  <1>0. FlattenSeq(ss) \in Seq(X)
    BY FlattenedSeq
  <1>1. << >> \in P
    BY <1>0, EmptySeq, FlattenEmpty, EmptyConcat
  <1>2. ASSUME NEW rr \in Seq(Seq(X)), NEW x \in Seq(X), rr \in P PROVE Append(rr, x) \in P
    <2>1. Append(rr, x) \in Seq(Seq(X)) /\ FlattenSeq(rr) \in Seq(X)
      BY AppendedSeq, FlattenedSeq
    <2>2. ss \o Append(rr, x) = Append(ss \o rr, x) /\ ss \o rr \in Seq(Seq(X))
      BY ConcatAppend
    <2>3. \A uu \in Seq(Seq(X)) : FlattenSeq(Append(uu, x)) = FlattenSeq(uu) \o x
      BY FlattenAppend
    <2>4. FlattenSeq(ss \o rr) = FlattenSeq(ss) \o FlattenSeq(rr)
      BY <1>2
    <2>5. (FlattenSeq(ss) \o FlattenSeq(rr)) \o x = FlattenSeq(ss) \o (FlattenSeq(rr) \o x)
      BY <1>0, <2>1, ConcatAssociative
    <2> QED BY <2>1, <2>2, <2>3, <2>4, <2>5
  <1> HIDE DEF P
  <1>3. Seq(Seq(X)) \subseteq P
    BY <1>1, <1>2, SeqInduction
  <1> QED BY <1>3 DEF P

\* Empty sequences may be left out.
LEMMA FlattenSelected ==
  ASSUME NEW X, NEW W, NEW ss \in Seq(Seq(X)), \A t \in Range(ss) : t \in W \/ t = << >>
  PROVE  FlattenSeq(Select(ss, W)) = FlattenSeq(ss)
  <1> DEFINE Fits(rr) == \A t \in Range(rr) : t \in W \/ t = << >>
             P == {rr \in Seq(Seq(X)) : Fits(rr) => FlattenSeq(Select(rr, W)) = FlattenSeq(rr)}
  <1>1. << >> \in P
    BY EmptySeq, SelectEmpty
  <1>2. ASSUME NEW rr \in Seq(Seq(X)), NEW x \in Seq(X), rr \in P PROVE Append(rr, x) \in P
    <2>1. Append(rr, x) \in Seq(Seq(X)) /\ Range(Append(rr, x)) = Range(rr) \union {x}
      BY AppendedSeq
    <2> SUFFICES ASSUME Fits(Append(rr, x)) PROVE FlattenSeq(Select(Append(rr, x), W)) = FlattenSeq(Append(rr, x))
      BY <2>1
    <2>2. Fits(rr) /\ (x \in W \/ x = << >>)
      BY <2>1
    <2> HIDE DEF Fits
    <2>3. FlattenSeq(Select(rr, W)) = FlattenSeq(rr) /\ Select(rr, W) \in Seq(Seq(X)) /\ FlattenSeq(rr) \in Seq(X)
      BY <1>2, <2>2, SelectedSeq, FlattenedSeq
    <2>4. Select(Append(rr, x), W) = IF x \in W THEN Append(Select(rr, W), x) ELSE Select(rr, W)
      BY SelectAppend
    <2>5. \A uu \in Seq(Seq(X)) : FlattenSeq(Append(uu, x)) = FlattenSeq(uu) \o x
      BY FlattenAppend
    <2>6. FlattenSeq(rr) \o << >> = FlattenSeq(rr)
      BY <2>3, EmptyConcat
    <2> QED BY <2>2, <2>3, <2>4, <2>5, <2>6
  <1>3. Fits(ss)
    OBVIOUS
  <1> HIDE DEF P, Fits
  <1>4. Seq(Seq(X)) \subseteq P
    BY <1>1, <1>2, SeqInduction
  <1> QED BY <1>3, <1>4 DEF P

\* Selecting from each piece is selecting from the whole.
LEMMA FlattenOfSelections ==
  ASSUME NEW X, NEW W, NEW ss \in Seq(Seq(X))
  PROVE  FlattenSeq(Mapped(ss, [t \in Seq(X) |-> Select(t, W)])) = Select(FlattenSeq(ss), W)
  <1> DEFINE G == [t \in Seq(X) |-> Select(t, W)]
             P == {rr \in Seq(Seq(X)) : FlattenSeq(Mapped(rr, G)) = Select(FlattenSeq(rr), W)}
  <1>0. G \in [Seq(X) -> Seq(X)] /\ \A t \in Seq(X) : G[t] = Select(t, W)
    BY SelectedSeq
  <1> HIDE DEF G
  <1>1. << >> \in P
    <2>1. Mapped(<< >>, G) = << >>
      BY <1>0, MappedFacts
    <2> QED BY <2>1, EmptySeq, FlattenEmpty, SelectEmpty
  <1>2. ASSUME NEW rr \in Seq(Seq(X)), NEW x \in Seq(X), rr \in P PROVE Append(rr, x) \in P
    <2>1. Append(rr, x) \in Seq(Seq(X)) /\ FlattenSeq(rr) \in Seq(X) /\ Select(x, W) \in Seq(X)
      BY AppendedSeq, FlattenedSeq, SelectedSeq
    <2>2. Mapped(Append(rr, x), G) = Append(Mapped(rr, G), Select(x, W)) /\ Mapped(rr, G) \in Seq(Seq(X))
      <3>1. \A H \in [Seq(X) -> Seq(X)] :
              Mapped(Append(rr, x), H) = Append(Mapped(rr, H), H[x]) /\ Mapped(rr, H) \in Seq(Seq(X))
        BY MappedAppend
      <3> QED BY <1>0, <3>1
    <2>3. FlattenSeq(Append(Mapped(rr, G), Select(x, W))) = FlattenSeq(Mapped(rr, G)) \o Select(x, W)
      BY <2>1, <2>2, FlattenAppend
    <2>4. FlattenSeq(Append(rr, x)) = FlattenSeq(rr) \o x
      BY FlattenAppend
    <2>5. Select(FlattenSeq(rr) \o x, W) = Select(FlattenSeq(rr), W) \o Select(x, W)
      BY <2>1, SelectConcat
    <2> QED BY <1>2, <2>1, <2>2, <2>3, <2>4, <2>5
  <1> HIDE DEF P
  <1>3. Seq(Seq(X)) \subseteq P
    BY <1>1, <1>2, SeqInduction
  <1> QED BY <1>3 DEF P, G

\* Joining pieces of pieces.
LEMMA FlattenTwice ==
  ASSUME NEW X, NEW sss \in Seq(Seq(Seq(X)))
  PROVE  FlattenSeq(FlattenSeq(sss)) = FlattenSeq(Mapped(sss, [ss \in Seq(Seq(X)) |-> FlattenSeq(ss)]))
  <1> DEFINE G == [ss \in Seq(Seq(X)) |-> FlattenSeq(ss)]
             P == {rrr \in Seq(Seq(Seq(X))) : FlattenSeq(FlattenSeq(rrr)) = FlattenSeq(Mapped(rrr, G))}
  <1>0. G \in [Seq(Seq(X)) -> Seq(X)] /\ \A ss \in Seq(Seq(X)) : G[ss] = FlattenSeq(ss)
    BY FlattenedSeq
  <1> HIDE DEF G
  <1>1. << >> \in P
    <2>1. Mapped(<< >>, G) = << >>
      BY <1>0, MappedFacts
    <2> QED BY <2>1, EmptySeq, FlattenEmpty
  <1>2. ASSUME NEW rrr \in Seq(Seq(Seq(X))), NEW x \in Seq(Seq(X)), rrr \in P PROVE Append(rrr, x) \in P
    <2>1. Append(rrr, x) \in Seq(Seq(Seq(X))) /\ FlattenSeq(rrr) \in Seq(Seq(X)) /\ FlattenSeq(x) \in Seq(X)
      BY AppendedSeq, FlattenedSeq
    <2>2. Mapped(Append(rrr, x), G) = Append(Mapped(rrr, G), FlattenSeq(x)) /\ Mapped(rrr, G) \in Seq(Seq(X))
      <3>1. \A H \in [Seq(Seq(X)) -> Seq(X)] :
              Mapped(Append(rrr, x), H) = Append(Mapped(rrr, H), H[x]) /\ Mapped(rrr, H) \in Seq(Seq(X))
        BY MappedAppend
      <3> QED BY <1>0, <3>1
    <2>3. FlattenSeq(Append(Mapped(rrr, G), FlattenSeq(x))) = FlattenSeq(Mapped(rrr, G)) \o FlattenSeq(x)
      BY <2>1, <2>2, FlattenAppend
    <2>4. FlattenSeq(Append(rrr, x)) = FlattenSeq(rrr) \o x
      BY FlattenAppend
    <2>5. FlattenSeq(FlattenSeq(rrr) \o x) = FlattenSeq(FlattenSeq(rrr)) \o FlattenSeq(x)
      BY <2>1, FlattenConcat
    <2> QED BY <1>2, <2>1, <2>2, <2>3, <2>4, <2>5
  <1> HIDE DEF P
  <1>3. Seq(Seq(Seq(X))) \subseteq P
    BY <1>1, <1>2, SeqInduction
  <1> QED BY <1>3 DEF P, G

-----------------------------------------------------------------------------
(* Division *)

\* Division is exact up to the divisor.
LEMMA DivFacts ==
  ASSUME NEW a \in Int, NEW b \in Nat \ {0}
  PROVE  a \div b \in Int /\ (a \div b) * b <= a /\ a < (a \div b) * b + b
  OBVIOUS

\* Multiples keep the order.
LEMMA Scaled ==
  ASSUME NEW p \in Int, NEW q \in Int, NEW b \in Nat \ {0}
  PROVE  /\ p * b \in Int /\ q * b \in Int /\ (p + 1) * b = p * b + b /\ (-p) * b = -(p * b)
         /\ p <= q => p * b <= q * b
         /\ p < q => p * b + b <= q * b
  <1>1. p * b \in Int /\ q * b \in Int /\ (p + 1) * b = p * b + b /\ (-p) * b = -(p * b)
    OBVIOUS
  <1>2. \A r \in Int : r <= q => r * b <= q * b
    OBVIOUS
  <1>3. ASSUME p < q PROVE p * b + b <= q * b
    <2>1. p + 1 \in Int /\ p + 1 <= q
      BY <1>3
    <2>2. (p + 1) * b <= q * b
      BY <2>1, <1>2
    <2> QED BY <1>1, <2>2
  <1> QED BY <1>1, <1>2, <1>3

\* Division rounds down.
LEMMA FloorIs ==
  ASSUME NEW a \in Int, NEW b \in Nat \ {0}, NEW q \in Int
  PROVE  q <= a \div b <=> q * b <= a
  <1> DEFINE d == a \div b
  <1>1. d \in Int /\ d * b <= a /\ a < d * b + b
    BY DivFacts
  <1> HIDE DEF d
  <1>2. CASE q <= d
    BY <1>1, <1>2, Scaled
  <1>3. CASE d < q
    BY <1>1, <1>3, Scaled
  <1> QED BY <1>1, <1>2, <1>3 DEF d

-----------------------------------------------------------------------------
(* Parts of sequences, and sequences put in order *)

\* The parts of an ordered sequence.
LEMMA ConcatOrderedParts ==
  ASSUME NEW X, NEW R, NEW s \in Seq(X), NEW t \in Seq(X), Ordered(s \o t, R)
  PROVE  Ordered(s, R) /\ Ordered(t, R) /\ \A y \in Range(s), z \in Range(t) : <<y, z>> \in R
  <1> DEFINE st == s \o t
             m == Len(s)
             n == Len(t)
  <1>1. /\ m \in Nat /\ n \in Nat /\ DOMAIN s = 1 .. m /\ DOMAIN t = 1 .. n
        /\ st \in Seq(X) /\ Len(st) = m + n /\ DOMAIN st = 1 .. m + n
        /\ \A i \in 1 .. m + n : st[i] = IF i <= m THEN s[i] ELSE t[i - m]
    BY ConcatProperties, LenProperties
  <1>2. \A i, j \in DOMAIN st : i < j => <<st[i], st[j]>> \in R
    BY DEF Ordered
  <1> HIDE DEF st, m, n
  <1>3. \A i \in DOMAIN s : i \in DOMAIN st /\ st[i] = s[i]
    BY <1>1
  <1>4. \A i \in DOMAIN t : i + m \in DOMAIN st /\ st[i + m] = t[i]
    <2> SUFFICES ASSUME NEW i \in 1 .. n PROVE i + m \in 1 .. m + n /\ st[i + m] = t[i]
      BY <1>1
    <2>1. i + m \in 1 .. m + n /\ ~(i + m <= m) /\ (i + m) - m = i
      BY <1>1
    <2> QED BY <1>1, <2>1
  <1>5. Ordered(s, R)
    BY <1>2, <1>3 DEF Ordered
  <1>6. Ordered(t, R)
    <2> SUFFICES ASSUME NEW i \in DOMAIN t, NEW j \in DOMAIN t, i < j PROVE <<t[i], t[j]>> \in R
      BY DEF Ordered
    <2>1. i + m < j + m
      BY <1>1
    <2> QED BY <1>2, <1>4, <2>1
  <1>7. ASSUME NEW i \in DOMAIN s, NEW j \in DOMAIN t PROVE <<s[i], t[j]>> \in R
    <2>1. i < j + m
      BY <1>1
    <2> QED BY <1>2, <1>3, <1>4, <2>1
  <1>8. \A y \in Range(s), z \in Range(t) : <<y, z>> \in R
    BY <1>7 DEF Range
  <1> QED BY <1>5, <1>6, <1>8

\* The parts of an ordered sequence, as many as there are.
LEMMA FlattenOrderedParts ==
  ASSUME NEW X, NEW R, NEW ss \in Seq(Seq(X)), Ordered(FlattenSeq(ss), R)
  PROVE  (\A t \in Range(ss) : Ordered(t, R)) /\ Ordered(ss, Follow(X, R))
  <1> DEFINE Fits(rr) == (\A t \in Range(rr) : Ordered(t, R)) /\ Ordered(rr, Follow(X, R))
             P == {rr \in Seq(Seq(X)) : Ordered(FlattenSeq(rr), R) => Fits(rr)}
  <1>1. << >> \in P
    BY EmptySeq, EmptyFacts DEF Ordered
  <1>2. ASSUME NEW rr \in Seq(Seq(X)), NEW x \in Seq(X), rr \in P PROVE Append(rr, x) \in P
    <2>1. Append(rr, x) \in Seq(Seq(X)) /\ Range(Append(rr, x)) = Range(rr) \union {x}
      BY AppendedSeq
    <2> SUFFICES ASSUME Ordered(FlattenSeq(Append(rr, x)), R) PROVE Fits(Append(rr, x))
      BY <2>1
    <2>2. FlattenSeq(Append(rr, x)) = FlattenSeq(rr) \o x /\ FlattenSeq(rr) \in Seq(X)
      BY FlattenAppend, FlattenedSeq
    <2>3. Ordered(FlattenSeq(rr) \o x, R)
      BY <2>2
    <2>4. /\ Ordered(FlattenSeq(rr), R) /\ Ordered(x, R)
          /\ \A y \in Range(FlattenSeq(rr)), z \in Range(x) : <<y, z>> \in R
      BY <2>2, <2>3, ConcatOrderedParts
    <2>5. Range(FlattenSeq(rr)) = UNION {Range(t) : t \in Range(rr)}
      BY FlattenRange
    <2>6. \A t \in Range(rr) : t \in Seq(X)
      BY RangeOfSeq
    <2>7. \A t \in Range(rr) : <<t, x>> \in Follow(X, R)
      BY <2>4, <2>5, <2>6 DEF Follow
    <2>8. Fits(rr)
      BY <1>2, <2>4
    <2>9. Ordered(Append(rr, x), Follow(X, R))
      BY <2>7, <2>8, OrderedAppend
    <2> QED BY <2>1, <2>4, <2>8, <2>9
  <1>3. Seq(Seq(X)) \subseteq P
    <2> HIDE DEF P
    <2> QED BY <1>1, <1>2, SeqInduction
  <1> QED BY <1>3

\* A sequence cut in two.
LEMMA SplitAt ==
  ASSUME NEW X, NEW s \in Seq(X), NEW k \in 1 .. Len(s) + 1
  PROVE  /\ SubSeq(s, 1, k - 1) \in Seq(X) /\ SubSeq(s, k, Len(s)) \in Seq(X)
         /\ SubSeq(s, 1, k - 1) \o SubSeq(s, k, Len(s)) = s
         /\ \A x \in Range(SubSeq(s, 1, k - 1)) : \E i \in 1 .. k - 1 : x = s[i]
         /\ \A i \in k .. Len(s) : s[i] \in Range(SubSeq(s, k, Len(s)))
  <1> DEFINE n == Len(s)
             a == SubSeq(s, 1, k - 1)
             b == SubSeq(s, k, n)
  <1>1. n \in Nat /\ DOMAIN s = 1 .. n /\ \A i \in 1 .. n : s[i] \in X
    BY LenProperties, ElementOfSeq
  <1>2. a \in Seq(X) /\ Len(a) = k - 1 /\ \A i \in 1 .. k - 1 : a[i] = s[i]
    <2>1. 1 \in Int /\ k - 1 \in Int /\ \A i \in 1 .. k - 1 : s[i] \in X
      BY <1>1
    <2>2. a \in Seq(X) /\ Len(a) = (IF 1 <= k - 1 THEN (k - 1) - 1 + 1 ELSE 0)
          /\ \A i \in 1 .. (k - 1) - 1 + 1 : a[i] = s[1 + i - 1]
      BY <2>1, SubSeqProperties
    <2>3. \A i \in 1 .. k - 1 : i \in 1 .. (k - 1) - 1 + 1 /\ 1 + i - 1 = i
      BY <1>1
    <2>4. (IF 1 <= k - 1 THEN (k - 1) - 1 + 1 ELSE 0) = k - 1
      BY <1>1
    <2> HIDE DEF a
    <2> QED BY <2>2, <2>3, <2>4
  <1>3. b \in Seq(X) /\ Len(b) = n - k + 1 /\ \A i \in 1 .. n - k + 1 : b[i] = s[k + i - 1]
    <2>1. k \in Int /\ n \in Int /\ \A i \in k .. n : s[i] \in X
      BY <1>1
    <2>2. b \in Seq(X) /\ Len(b) = (IF k <= n THEN n - k + 1 ELSE 0)
          /\ \A i \in 1 .. n - k + 1 : b[i] = s[k + i - 1]
      BY <2>1, SubSeqProperties
    <2>3. (IF k <= n THEN n - k + 1 ELSE 0) = n - k + 1
      BY <1>1
    <2> HIDE DEF b
    <2> QED BY <2>2, <2>3
  <1>4. a \o b = s
    <2>1. 1 \in 1 .. Len(s) + 1 /\ k - 1 \in 1 - 1 .. Len(s) /\ Len(s) \in k - 1 .. Len(s) /\ (k - 1) + 1 = k
      BY <1>1
    <2>2. SubSeq(s, 1, k - 1) \o SubSeq(s, (k - 1) + 1, Len(s)) = SubSeq(s, 1, Len(s))
      BY <2>1, ConcatAdjacentSubSeq
    <2> QED BY <2>1, <2>2, SubSeqFull
  <1>5. \A x \in Range(a) : \E i \in 1 .. k - 1 : x = s[i]
    <2> HIDE DEF a
    <2>1. DOMAIN a = 1 .. k - 1
      BY <1>2, LenProperties
    <2> QED BY <1>2, <2>1 DEF Range
  <1>6. \A i \in k .. n : s[i] \in Range(b)
    <2> SUFFICES ASSUME NEW i \in k .. n PROVE s[i] \in Range(b)
      OBVIOUS
    <2> HIDE DEF b
    <2>1. DOMAIN b = 1 .. n - k + 1
      BY <1>3, LenProperties
    <2>2. i - k + 1 \in 1 .. n - k + 1 /\ k + (i - k + 1) - 1 = i
      BY <1>1
    <2>3. b[i - k + 1] = s[k + (i - k + 1) - 1]
      BY <1>3, <2>2
    <2> QED BY <2>1, <2>2, <2>3 DEF Range
  <1> QED BY <1>2, <1>3, <1>4, <1>5, <1>6

\* A set of numbers has a least one.
LEMMA LeastPlace ==
  ASSUME NEW I \in SUBSET Nat, I # {}
  PROVE  \E i \in I : \A j \in I : i <= j
  <1> DEFINE S == {n \in Nat : (\E i \in I : i <= n) => \E i \in I : \A j \in I : i <= j}
  <1>1. 0 \in S
    OBVIOUS
  <1>2. ASSUME NEW n \in Nat, n \in S PROVE n + 1 \in S
    <2> SUFFICES ASSUME NEW i \in I, i <= n + 1 PROVE \E k \in I : \A j \in I : k <= j
      OBVIOUS
    <2>1. CASE \E k \in I : k <= n
      BY <1>2, <2>1
    <2>2. CASE \A k \in I : ~(k <= n)
      <3>1. \A j \in I : i <= j
        BY <2>2
      <3> QED BY <3>1
    <2> QED BY <2>1, <2>2
  <1>3. Nat \subseteq S
    <2> HIDE DEF S
    <2> QED BY <1>1, <1>2, SetInduction
  <1>4. PICK i \in I : TRUE
    OBVIOUS
  <1>5. i \in S /\ i <= i
    BY <1>3
  <1> QED BY <1>5

\* PlaceOf gives the first place.
LEMMA PlaceFacts ==
  ASSUME NEW X, NEW W, NEW s \in Seq(X)
  PROVE  LET k == PlaceOf(s, W)
         IN \/ k = 0 /\ \A x \in Range(s) : x \notin W
            \/ k \in 1 .. Len(s) /\ s[k] \in W /\ \A i \in 1 .. k - 1 : s[i] \notin W
  <1> DEFINE I == {i \in DOMAIN s : s[i] \in W}
             k == PlaceOf(s, W)
  <1>1. Len(s) \in Nat /\ DOMAIN s = 1 .. Len(s)
    BY LenProperties
  <1>2. CASE I = {}
    <2>1. k = 0
      BY <1>2 DEF PlaceOf
    <2>2. \A x \in Range(s) : x \notin W
      BY <1>2 DEF Range
    <2> QED BY <2>1, <2>2
  <1>3. CASE I # {}
    <2>1. I \in SUBSET Nat
      BY <1>1
    <2>2. k = CHOOSE i \in I : \A j \in I : i <= j
      BY <1>3 DEF PlaceOf
    <2> HIDE DEF I, k
    <2>3. \E i \in I : \A j \in I : i <= j
      BY <1>3, <2>1, LeastPlace
    <2>4. k \in I /\ \A j \in I : k <= j
      BY <2>2, <2>3
    <2>5. k \in 1 .. Len(s) /\ s[k] \in W
      BY <1>1, <2>4 DEF I
    <2>6. \A i \in 1 .. k - 1 : s[i] \notin W
      <3> SUFFICES ASSUME NEW i \in 1 .. k - 1, s[i] \in W PROVE FALSE
        OBVIOUS
      <3>1. i \in DOMAIN s /\ ~(k <= i)
        BY <1>1, <2>5
      <3> QED BY <2>4, <3>1 DEF I
    <2> QED BY <2>5, <2>6 DEF k
  <1> QED BY <1>2, <1>3

\* Head and tail.
LEMMA TailFacts ==
  ASSUME NEW X, NEW s \in Seq(X), s # << >>
  PROVE  /\ s[1] \in X /\ Tail(s) \in Seq(X) /\ Range(s) = {s[1]} \union Range(Tail(s))
         /\ s[1] \in Range(s)
         /\ \A R : Ordered(s, R) => Ordered(Tail(s), R) /\ \A y \in Range(Tail(s)) : <<s[1], y>> \in R
  <1> DEFINE t == Tail(s)
             n == Len(t)
  <1>1. /\ t \in Seq(X) /\ n \in Nat /\ DOMAIN t = 1 .. n
        /\ Len(s) = n + 1 /\ DOMAIN s = 1 .. n + 1 /\ \A i \in 1 .. n : t[i] = s[i + 1]
    <2>1. t \in Seq(X) /\ n = Len(s) - 1 /\ \A i \in 1 .. n : t[i] = s[i + 1]
      BY HeadTailProperties
    <2>2. n \in Nat /\ DOMAIN t = 1 .. n /\ Len(s) \in Nat /\ DOMAIN s = 1 .. Len(s)
      BY <2>1, LenProperties
    <2> QED BY <2>1, <2>2
  <1> HIDE DEF t, n
  <1>2. 1 \in DOMAIN s /\ s[1] \in X
    BY <1>1, ElementOfSeq
  <1>3. \A i \in DOMAIN s : i = 1 \/ (i - 1 \in DOMAIN t /\ t[i - 1] = s[i])
    <2> SUFFICES ASSUME NEW i \in 1 .. n + 1, i # 1 PROVE i - 1 \in 1 .. n /\ t[i - 1] = s[i]
      BY <1>1
    <2>1. i - 1 \in 1 .. n /\ (i - 1) + 1 = i
      BY <1>1
    <2> QED BY <1>1, <2>1
  <1>4. \A i \in DOMAIN t : i + 1 \in DOMAIN s /\ t[i] = s[i + 1]
    BY <1>1
  <1>5. Range(s) = {s[1]} \union Range(t)
    <2>1. ASSUME NEW i \in DOMAIN s PROVE s[i] \in {s[1]} \union Range(t)
      BY <1>3 DEF Range
    <2>2. ASSUME NEW i \in DOMAIN t PROVE t[i] \in Range(s)
      BY <1>4 DEF Range
    <2>3. s[1] \in Range(s)
      BY <1>2 DEF Range
    <2>4. Range(s) \subseteq {s[1]} \union Range(t)
      BY <2>1 DEF Range
    <2>5. Range(t) \subseteq Range(s)
      BY <2>2 DEF Range
    <2> QED BY <2>3, <2>4, <2>5
  <1>6. ASSUME NEW R, Ordered(s, R)
        PROVE  Ordered(t, R) /\ \A y \in Range(t) : <<s[1], y>> \in R
    <2>1. \A i, j \in DOMAIN s : i < j => <<s[i], s[j]>> \in R
      BY <1>6 DEF Ordered
    <2>2. ASSUME NEW i \in DOMAIN t, NEW j \in DOMAIN t, i < j PROVE <<t[i], t[j]>> \in R
      <3>1. i + 1 < j + 1
        BY <1>1, <2>2
      <3> QED BY <1>4, <2>1, <3>1
    <2>3. ASSUME NEW i \in DOMAIN t PROVE <<s[1], t[i]>> \in R
      <3>1. 1 < i + 1
        BY <1>1
      <3> QED BY <1>2, <1>4, <2>1, <3>1
    <2>4. \A y \in Range(t) : <<s[1], y>> \in R
      BY <2>3 DEF Range
    <2> QED BY <2>2, <2>4 DEF Ordered
  <1> QED BY <1>1, <1>2, <1>5, <1>6 DEF t

\* Sorting by a strict total order puts rows in that order, and only moves them.
LEMMA ArrangedFacts ==
  ASSUME NEW X, NEW s \in Seq(X), NEW B, NEW R,
         \A i \in DOMAIN s : <<s[i], s[i]>> \notin B,
         \A i, j \in DOMAIN s : i # j => <<s[i], s[j]>> \in B \/ <<s[j], s[i]>> \in B,
         \A i, j, k \in DOMAIN s : <<s[i], s[j]>> \in B /\ <<s[j], s[k]>> \in B => <<s[i], s[k]>> \in B,
         \A i, j \in DOMAIN s : i # j => <<s[i], s[j]>> \in R
  PROVE  /\ Arranged(s, B) \in Seq(X)
         /\ Range(Arranged(s, B)) = Range(s)
         /\ Ordered(Arranged(s, B), R) /\ Ordered(Arranged(s, B), B)
  <1> DEFINE n == Len(s)
             D == 1 .. n
             Pre(i) == {j \in D : <<s[j], s[i]>> \in B}
             Rank(i) == Cardinality(Pre(i))
             rank == [i \in D |-> Rank(i)]
             At(k) == CHOOSE i \in D : Rank(i) = k - 1
             a == Arranged(s, B)
  <1>1. n \in Nat /\ DOMAIN s = D /\ \A i \in D : s[i] \in X
    BY LenProperties, ElementOfSeq
  <1>2. a = [k \in D |-> s[At(k)]]
    BY <1>1 DEF Arranged
  <1>3. IsFiniteSet(D) /\ Cardinality(D) = n /\ IsFiniteSet(0 .. n - 1) /\ Cardinality(0 .. n - 1) = n
    <2>1. IsFiniteSet(1 .. n) /\ Cardinality(1 .. n) = IF 1 > n THEN 0 ELSE n - 1 + 1
      BY <1>1, FS_Interval
    <2>2. 0 \in Int /\ n - 1 \in Int
      BY <1>1
    <2>3. IsFiniteSet(0 .. n - 1) /\ Cardinality(0 .. n - 1) = IF 0 > n - 1 THEN 0 ELSE (n - 1) - 0 + 1
      BY <2>2, FS_Interval
    <2>4. (IF 1 > n THEN 0 ELSE n - 1 + 1) = n /\ (IF 0 > n - 1 THEN 0 ELSE (n - 1) - 0 + 1) = n
      BY <1>1
    <2> QED BY <2>1, <2>3, <2>4
  <1>4. ASSUME NEW i \in D
        PROVE  /\ IsFiniteSet(Pre(i)) /\ Rank(i) \in 0 .. n - 1
               /\ IsFiniteSet(Pre(i) \union {i}) /\ Cardinality(Pre(i) \union {i}) = Rank(i) + 1
    <2>1. i \notin Pre(i) /\ Pre(i) \in SUBSET D /\ Pre(i) \union {i} \in SUBSET D
      BY <1>1
    <2> HIDE DEF Pre
    <2>2. IsFiniteSet(Pre(i)) /\ IsFiniteSet(Pre(i) \union {i}) /\ Cardinality(Pre(i) \union {i}) <= n
      BY <1>3, <2>1, FS_Subset
    <2>3. Cardinality(Pre(i) \union {i}) = Rank(i) + 1
      BY <2>1, <2>2, FS_AddElement
    <2>4. Rank(i) \in Nat
      BY <2>2, FS_CardinalityType
    <2> HIDE DEF Rank
    <2> QED BY <1>1, <2>2, <2>3, <2>4
  <1>5. ASSUME NEW i \in D, NEW j \in D, <<s[i], s[j]>> \in B PROVE Rank(i) < Rank(j)
    <2>1. Pre(i) \union {i} \in SUBSET Pre(j)
      <3>1. \A k \in Pre(i) : k \in D /\ <<s[k], s[i]>> \in B
        OBVIOUS
      <3>2. \A k \in Pre(i) : <<s[k], s[j]>> \in B
        <4> HIDE DEF Pre
        <4> QED BY <1>1, <1>5, <3>1
      <3> QED BY <1>5, <3>1, <3>2
    <2> HIDE DEF Pre
    <2>2. Cardinality(Pre(i) \union {i}) <= Cardinality(Pre(j))
      BY <1>4, <2>1, FS_Subset
    <2>3. Rank(i) + 1 <= Rank(j) /\ Rank(i) \in 0 .. n - 1 /\ Rank(j) \in 0 .. n - 1
      BY <1>4, <2>2
    <2> HIDE DEF Rank
    <2> QED BY <1>1, <2>3
  <1>6. ASSUME NEW i \in D, NEW j \in D, Rank(i) = Rank(j) PROVE i = j
    <2> SUFFICES ASSUME i # j PROVE FALSE
      OBVIOUS
    <2>1. <<s[i], s[j]>> \in B \/ <<s[j], s[i]>> \in B
      BY <1>1
    <2>2. Rank(i) < Rank(j) \/ Rank(j) < Rank(i)
      <3> HIDE DEF Rank, D
      <3> QED BY <1>5, <2>1
    <2>3. Rank(i) \in 0 .. n - 1
      BY <1>4
    <2> HIDE DEF Rank
    <2> QED BY <1>1, <1>6, <2>2, <2>3
  <1> HIDE DEF Pre, Rank
  <1>7. rank \in [D -> 0 .. n - 1] /\ \A i \in D : rank[i] = Rank(i)
    BY <1>4
  <1> HIDE DEF rank
  <1>8. rank \in Injection(D, 0 .. n - 1)
    <2> HIDE DEF D
    <2>1. \A i, j \in D : rank[i] = rank[j] => i = j
      BY <1>6, <1>7
    <2>2. DOMAIN rank = D
      BY <1>7
    <2> QED BY <1>7, <2>1, <2>2 DEF Injection, IsInjective
  <1>9. rank \in Surjection(D, 0 .. n - 1)
    <2> HIDE DEF D
    <2> QED BY <1>3, <1>8, FS_Injection
  <1>10. ASSUME NEW k \in D PROVE At(k) \in D /\ Rank(At(k)) = k - 1
    <2>1. k - 1 \in 0 .. n - 1
      BY <1>1
    <2>2. \E i \in D : rank[i] = k - 1
      BY <1>9, <2>1 DEF Surjection
    <2>3. \E i \in D : Rank(i) = k - 1
      BY <1>7, <2>2
    <2> QED BY <2>3
  <1>11. ASSUME NEW i \in D PROVE \E k \in D : At(k) = i
    <2>1. Rank(i) \in 0 .. n - 1
      BY <1>4
    <2>2. PICK k \in D : Rank(i) = k - 1
      <3>1. Rank(i) + 1 \in D /\ Rank(i) = (Rank(i) + 1) - 1
        BY <1>1, <2>1
      <3> QED BY <3>1
    <2>3. At(k) \in D /\ Rank(At(k)) = k - 1
      BY <1>10
    <2> HIDE DEF At
    <2>4. At(k) = i
      BY <1>6, <2>2, <2>3
    <2> QED BY <2>4
  <1>12. ASSUME NEW k \in D, NEW l \in D, k # l PROVE At(k) # At(l)
    <2>1. Rank(At(k)) = k - 1 /\ Rank(At(l)) = l - 1
      BY <1>10
    <2>2. k - 1 # l - 1
      BY <1>1, <1>12
    <2> HIDE DEF At
    <2> QED BY <2>1, <2>2
  <1> HIDE DEF At
  <1>13. a \in Seq(X)
    <2>1. a \in [1 .. n -> X]
      BY <1>1, <1>2, <1>10
    <2> QED BY <1>1, <2>1, FunIsSeq
  <1>14. Range(a) = Range(s)
    <2>1. \A k \in D : a[k] = s[At(k)] /\ At(k) \in D
      BY <1>2, <1>10
    <2>2. \A i \in D : \E k \in D : s[i] = a[k]
      BY <1>11, <2>1
    <2>3. DOMAIN a = D
      BY <1>2
    <2> HIDE DEF D, a
    <2> QED BY <1>1, <2>1, <2>2, <2>3 DEF Range
  <1>15. Ordered(a, R)
    <2> SUFFICES ASSUME NEW k \in D, NEW l \in D, k < l PROVE <<a[k], a[l]>> \in R
      BY <1>2 DEF Ordered
    <2>1. k # l
      BY <1>1
    <2>2. At(k) \in D /\ At(l) \in D /\ At(k) # At(l)
      BY <1>10, <1>12, <2>1
    <2>3. <<s[At(k)], s[At(l)]>> \in R
      BY <1>1, <2>2
    <2> QED BY <1>2, <2>3
  <1>16. Ordered(a, B)
    <2> SUFFICES ASSUME NEW k \in D, NEW l \in D, k < l PROVE <<a[k], a[l]>> \in B
      BY <1>2 DEF Ordered
    <2>1. At(k) \in D /\ At(l) \in D /\ Rank(At(k)) = k - 1 /\ Rank(At(l)) = l - 1
      BY <1>10
    <2>2. ~(Rank(At(l)) < Rank(At(k))) /\ k # l
      BY <1>1, <2>1
    <2>3. At(k) # At(l)
      BY <1>12, <2>2
    <2>4. <<s[At(k)], s[At(l)]>> \in B
      <3> DEFINE i == At(k)
                 j == At(l)
      <3>1. i \in D /\ j \in D /\ i # j /\ ~(Rank(j) < Rank(i))
        BY <2>1, <2>2, <2>3
      <3> HIDE DEF i, j, D
      <3>2. <<s[i], s[j]>> \in B
        BY <1>1, <1>5, <3>1
      <3> QED BY <3>2 DEF i, j
    <2> QED BY <1>2, <2>4
  <1> QED BY <1>13, <1>14, <1>15, <1>16

\* All of s before all of t.
Cross(s, t, R) == \A y \in Range(s), z \in Range(t) : <<y, z>> \in R

\* Until and From cut a sequence at the first that is wanted.
LEMMA CutFacts ==
  ASSUME NEW X, NEW W, NEW s \in Seq(X)
  PROVE  /\ Until(s, W) \in Seq(X) /\ From(s, W) \in Seq(X) /\ Until(s, W) \o From(s, W) = s
         /\ \A x \in Range(Until(s, W)) : x \notin W
         /\ Range(s) = Range(Until(s, W)) \union Range(From(s, W))
         /\ (\A x \in Range(s) : x \notin W) => From(s, W) = << >>
  <1> DEFINE k == PlaceOf(s, W)
             u == Until(s, W)
             v == From(s, W)
  <1>1. \/ k = 0 /\ \A x \in Range(s) : x \notin W
        \/ k \in 1 .. Len(s) /\ s[k] \in W /\ \A i \in 1 .. k - 1 : s[i] \notin W
    BY PlaceFacts
  <1>2. Len(s) \in Nat /\ DOMAIN s = 1 .. Len(s)
    BY LenProperties
  <1>3. /\ u \in Seq(X) /\ v \in Seq(X) /\ u \o v = s
        /\ \A x \in Range(u) : x \notin W
        /\ (\A x \in Range(s) : x \notin W) => v = << >>
    <2>1. CASE k = 0
      <3>1. u = s /\ v = << >>
        BY <2>1 DEF Until, From
      <3>2. \A x \in Range(s) : x \notin W
        BY <1>1, <1>2, <2>1
      <3> HIDE DEF u, v
      <3>3. << >> \in Seq(X) /\ s \o << >> = s
        BY EmptySeq, EmptyConcat
      <3> QED BY <3>1, <3>2, <3>3
    <2>2. CASE k # 0
      <3>1. u = SubSeq(s, 1, k - 1) /\ v = SubSeq(s, k, Len(s))
        BY <2>2 DEF Until, From
      <3>2. k \in 1 .. Len(s) /\ s[k] \in W /\ \A i \in 1 .. k - 1 : s[i] \notin W
        BY <1>1, <2>2
      <3>3. k \in 1 .. Len(s) + 1
        BY <1>2, <3>2
      <3> HIDE DEF u, v, k
      <3>4. /\ u \in Seq(X) /\ v \in Seq(X) /\ u \o v = s
            /\ \A x \in Range(u) : \E i \in 1 .. k - 1 : x = s[i]
        BY <3>1, <3>3, SplitAt
      <3>5. s[k] \in Range(s)
        BY <1>2, <3>2 DEF Range
      <3> QED BY <3>2, <3>4, <3>5
    <2> QED BY <2>1, <2>2
  <1>4. Range(s) = Range(u) \union Range(v)
    <2>1. \A p, q \in Seq(X) : Range(p \o q) = Range(p) \union Range(q)
      BY ConcatRange
    <2> HIDE DEF u, v
    <2> QED BY <1>3, <2>1
  <1> QED BY <1>3, <1>4

\* Three ordered parts.
LEMMA ThreeParts ==
  ASSUME NEW X, NEW R, NEW a \in Seq(X), NEW b \in Seq(X), NEW c \in Seq(X)
  PROVE  Ordered(a \o b \o c, R) <=>
           /\ Ordered(a, R) /\ Ordered(b, R) /\ Ordered(c, R)
           /\ Cross(a, b, R) /\ Cross(a, c, R) /\ Cross(b, c, R)
  <1>1. a \o b \in Seq(X) /\ Range(a \o b) = Range(a) \union Range(b)
    BY ConcatProperties, ConcatRange
  <1>2. ASSUME NEW s \in Seq(X), NEW t \in Seq(X)
        PROVE  Ordered(s \o t, R) <=> Ordered(s, R) /\ Ordered(t, R) /\ Cross(s, t, R)
    BY ConcatOrdered, ConcatOrderedParts DEF Cross
  <1>3. Cross(a \o b, c, R) <=> Cross(a, c, R) /\ Cross(b, c, R)
    BY <1>1 DEF Cross
  <1>4. Ordered(a \o b \o c, R) <=> Ordered(a \o b, R) /\ Ordered(c, R) /\ Cross(a \o b, c, R)
    BY <1>1, <1>2
  <1>5. Ordered(a \o b, R) <=> Ordered(a, R) /\ Ordered(b, R) /\ Cross(a, b, R)
    BY <1>2
  <1> QED BY <1>3, <1>4, <1>5

-----------------------------------------------------------------------------
(* Places *)

\* To select twice is to select once.
LEMMA SelectTwice ==
  ASSUME NEW X, NEW s \in Seq(X), NEW W, NEW U
  PROVE  Select(Select(s, W), U) = Select(s, W \intersect U)
  <1> DEFINE P == {r \in Seq(X) : Select(Select(r, W), U) = Select(r, W \intersect U)}
  <1>1. << >> \in P
    BY EmptySeq, SelectEmpty
  <1>2. ASSUME NEW r \in Seq(X), NEW x \in X, r \in P PROVE Append(r, x) \in P
    <2>1. Append(r, x) \in Seq(X) /\ Select(r, W) \in Seq(X)
      BY AppendedSeq, SelectedSeq
    <2>2. Select(Append(r, x), W) = IF x \in W THEN Append(Select(r, W), x) ELSE Select(r, W)
      BY SelectAppend
    <2>3. Select(Append(r, x), W \intersect U)
            = IF x \in W \intersect U THEN Append(Select(r, W \intersect U), x) ELSE Select(r, W \intersect U)
      BY SelectAppend
    <2>4. Select(Append(Select(r, W), x), U)
            = IF x \in U THEN Append(Select(Select(r, W), U), x) ELSE Select(Select(r, W), U)
      BY <2>1, SelectAppend
    <2>5. Select(Select(r, W), U) = Select(r, W \intersect U)
      BY <1>2
    <2>6. Select(Select(Append(r, x), W), U) = Select(Append(r, x), W \intersect U)
      <3>1. CASE x \in W /\ x \in U
        BY <2>2, <2>3, <2>4, <2>5, <3>1
      <3>2. CASE x \in W /\ x \notin U
        BY <2>2, <2>3, <2>4, <2>5, <3>2
      <3>3. CASE x \notin W
        BY <2>2, <2>3, <2>5, <3>3
      <3> QED BY <3>1, <3>2, <3>3
    <2> QED BY <2>1, <2>6
  <1> HIDE DEF P
  <1>3. Seq(X) \subseteq P
    BY <1>1, <1>2, SeqInduction
  <1> QED BY <1>3 DEF P

\* A sequence that is not empty ends in some element.
LEMMA EndsIn ==
  ASSUME NEW X, NEW s \in Seq(X), s # << >>
  PROVE  \E t \in Seq(X), x \in X : s = Append(t, x)
  <1> DEFINE P == {r \in Seq(X) : r = << >> \/ \E t \in Seq(X), x \in X : r = Append(t, x)}
  <1>1. << >> \in P
    BY EmptySeq
  <1>2. ASSUME NEW r \in Seq(X), NEW x \in X, r \in P PROVE Append(r, x) \in P
    BY AppendedSeq
  <1> HIDE DEF P
  <1>3. Seq(X) \subseteq P
    BY <1>1, <1>2, SeqInduction
  <1> QED BY <1>3 DEF P

\* Numbers in increasing order.
Up == {p \in Nat \X Nat : p[1] < p[2]}

\* Two increasing sequences of the same numbers are one.
LEMMA IncreasingSame ==
  ASSUME NEW X \in SUBSET Nat, NEW s \in Seq(X), NEW t \in Seq(X), Ordered(s, Up), Ordered(t, Up), Range(s) = Range(t)
  PROVE  s = t
  <1> DEFINE P == {r \in Seq(X) : \A q \in Seq(X) :
                     Ordered(r, Up) /\ Ordered(q, Up) /\ Range(r) = Range(q) => r = q}
  <1>0. \A a, b \in Nat : <<a, b>> \in Up <=> a < b
    BY DEF Up
  <1>1. << >> \in P
    <2> SUFFICES ASSUME NEW q \in Seq(X), Range(<< >>) = Range(q) PROVE << >> = q
      BY EmptySeq
    <2> SUFFICES ASSUME q # << >> PROVE FALSE
      OBVIOUS
    <2>1. PICK u \in Seq(X), y \in X : q = Append(u, y)
      BY EndsIn
    <2>2. Range(Append(u, y)) = Range(u) \union {y}
      BY AppendedSeq
    <2> QED BY <2>1, <2>2, EmptyFacts
  <1>2. ASSUME NEW r \in Seq(X), NEW x \in X, r \in P PROVE Append(r, x) \in P
    <2>0. Append(r, x) \in Seq(X)
      BY AppendedSeq
    <2> SUFFICES ASSUME NEW q \in Seq(X), Ordered(Append(r, x), Up), Ordered(q, Up),
                        Range(Append(r, x)) = Range(q)
                 PROVE  Append(r, x) = q
      BY <2>0
    <2>1. Range(Append(r, x)) = Range(r) \union {x} /\ Range(r) \subseteq X
      <3>1. Range(r) \subseteq X
        BY LenProperties, ElementOfSeq DEF Range
      <3>2. Range(Append(r, x)) = Range(r) \union {x}
        BY AppendedSeq
      <3> QED BY <3>1, <3>2
    <2>2. q # << >>
      BY <2>1, EmptyFacts
    <2>3. PICK u \in Seq(X), y \in X : q = Append(u, y)
      BY <2>2, EndsIn
    <2>4. Range(q) = Range(u) \union {y} /\ Range(u) \subseteq X
      <3>1. Range(u) \subseteq X
        BY LenProperties, ElementOfSeq DEF Range
      <3>2. Range(Append(u, y)) = Range(u) \union {y}
        BY AppendedSeq
      <3> QED BY <2>3, <3>1, <3>2
    <2>5. Ordered(r, Up) /\ \A z \in Range(r) : <<z, x>> \in Up
      BY OrderedAppend
    <2>6. Ordered(u, Up) /\ \A z \in Range(u) : <<z, y>> \in Up
      BY <2>3, OrderedAppend
    <2>7. (\A z \in Range(r) : z < x) /\ (\A z \in Range(u) : z < y)
      BY <1>0, <2>1, <2>4, <2>5, <2>6
    <2>8. x = y
      <3>1. x = y \/ x \in Range(u)
        BY <2>1, <2>4
      <3>2. x = y \/ y \in Range(r)
        BY <2>1, <2>4
      <3>3. x = y \/ (x < y /\ y < x)
        BY <2>7, <3>1, <3>2
      <3> QED BY <3>3
    <2>9. Range(r) = Range(u)
      <3>1. x \notin Range(r) /\ x \notin Range(u)
        BY <2>7, <2>8
      <3>2. Range(r) \union {x} = Range(u) \union {x}
        BY <2>1, <2>4, <2>8
      <3> DEFINE R == Range(r)
                 U == Range(u)
      <3>3. x \notin R /\ x \notin U /\ R \union {x} = U \union {x}
        BY <3>1, <3>2
      <3> HIDE DEF R, U
      <3>4. \A z \in R : z \in U
        BY <3>3
      <3>5. \A z \in U : z \in R
        BY <3>3
      <3>6. R = U
        BY <3>4, <3>5
      <3> QED BY <3>6 DEF R, U
    <2>10. r = u
      BY <1>2, <2>5, <2>6, <2>9
    <2> QED BY <2>3, <2>8, <2>10
  <1> HIDE DEF P
  <1>3. Seq(X) \subseteq P
    BY <1>1, <1>2, SeqInduction
  <1> QED BY <1>3 DEF P

\* The places of a sequence.
PlacesOf(s) == [n \in DOMAIN s |-> n]

\* The places are all of them, in increasing order.
LEMMA PlacesFacts ==
  ASSUME NEW X, NEW s \in Seq(X)
  PROVE  /\ PlacesOf(s) \in Seq(Nat) /\ PlacesOf(s) \in Seq(DOMAIN s)
         /\ Len(PlacesOf(s)) = Len(s) /\ DOMAIN PlacesOf(s) = DOMAIN s
         /\ Range(PlacesOf(s)) = DOMAIN s /\ Ordered(PlacesOf(s), Up)
  <1>1. DOMAIN s = 1 .. Len(s) /\ Len(s) \in Nat
    BY LenProperties
  <1> DEFINE ps == PlacesOf(s)
  <1>2. ps \in [1 .. Len(s) -> Nat] /\ ps \in [1 .. Len(s) -> DOMAIN s] /\ \A n \in DOMAIN s : ps[n] = n
    BY <1>1 DEF PlacesOf
  <1> HIDE DEF ps
  <1>3. ps \in Seq(Nat) /\ ps \in Seq(DOMAIN s) /\ Len(ps) = Len(s)
    BY <1>1, <1>2, FunIsSeq
  <1>4. DOMAIN ps = DOMAIN s
    BY <1>1, <1>2
  <1>5. Range(ps) = DOMAIN s
    BY <1>2, <1>4 DEF Range
  <1>6. Ordered(ps, Up)
    BY <1>1, <1>2, <1>4 DEF Ordered, Up
  <1> QED BY <1>3, <1>4, <1>5, <1>6 DEF ps

\* What is selected, by its places.
LEMMA SelectPlaces ==
  ASSUME NEW X, NEW s \in Seq(X), NEW W,
         NEW C \in SUBSET DOMAIN s, \A n \in DOMAIN s : n \in C <=> s[n] \in W
  PROVE  LET ps == Select(PlacesOf(s), C)
         IN /\ ps \in Seq(DOMAIN s) /\ ps \in Seq(Nat) /\ Ordered(ps, Up) /\ Range(ps) = C
            /\ Len(Select(s, W)) = Len(ps)
            /\ \A k \in 1 .. Len(ps) : Select(s, W)[k] = s[ps[k]]
  <1> DEFINE In(r) == {n \in DOMAIN r : r[n] \in W}
             Ps(r) == Select(PlacesOf(r), In(r))
             Good(r) == /\ Len(Select(r, W)) = Len(Ps(r))
                        /\ \A k \in 1 .. Len(Ps(r)) : Select(r, W)[k] = r[Ps(r)[k]]
             P == {r \in Seq(X) : Good(r)}
  <1>1. << >> \in P
    <2>1. PlacesOf(<< >>) = << >>
      BY EmptyFacts, EmptySeq DEF PlacesOf
    <2>2. Ps(<< >>) = << >> /\ Select(<< >>, W) = << >>
      BY <2>1, SelectEmpty
    <2>3. 1 .. Len(<< >>) = {}
      BY EmptyFacts
    <2>4. Good(<< >>)
      BY <2>2, <2>3
    <2> HIDE DEF Good
    <2> QED BY <2>4, EmptySeq
  <1>2. ASSUME NEW r \in Seq(X), NEW x \in X, r \in P PROVE Append(r, x) \in P
    <2> DEFINE rx == Append(r, x)
               N == Len(r)
    <2>0. Good(r)
      <3> HIDE DEF Good
      <3> QED BY <1>2
    <2>1. /\ rx \in Seq(X) /\ N \in Nat /\ DOMAIN r = 1 .. N /\ DOMAIN rx = 1 .. N + 1
          /\ \A i \in DOMAIN r : rx[i] = r[i]
          /\ rx[N + 1] = x /\ Len(rx) = N + 1
      BY AppendedSeq
    <2>2. /\ PlacesOf(r) \in Seq(Nat) /\ Len(PlacesOf(r)) = N /\ DOMAIN PlacesOf(r) = DOMAIN r
          /\ Range(PlacesOf(r)) = DOMAIN r
      BY PlacesFacts
    <2>3. /\ PlacesOf(rx) \in Seq(Nat) /\ Len(PlacesOf(rx)) = N + 1 /\ DOMAIN PlacesOf(rx) = 1 .. N + 1
      <3> HIDE DEF rx
      <3> QED BY <2>1, PlacesFacts
    <2> HIDE DEF rx
    <2>4. PlacesOf(rx) = Append(PlacesOf(r), N + 1)
      <3> DEFINE a == Append(PlacesOf(r), N + 1)
      <3>1. N + 1 \in Nat
        BY <2>1
      <3>2. /\ a \in Seq(Nat) /\ DOMAIN a = 1 .. N + 1 /\ a[N + 1] = N + 1
            /\ \A i \in 1 .. N : a[i] = PlacesOf(r)[i]
        BY <2>1, <2>2, <3>1, AppendedSeq
      <3> HIDE DEF a
      <3>3. \A i \in 1 .. N : PlacesOf(r)[i] = i
        BY <2>1 DEF PlacesOf
      <3>4. \A i \in 1 .. N + 1 : a[i] = i
        <4> SUFFICES ASSUME NEW i \in 1 .. N + 1 PROVE a[i] = i
          OBVIOUS
        <4>1. i = N + 1 \/ i \in 1 .. N
          BY <2>1
        <4> QED BY <3>2, <3>3, <4>1
      <3>5. \A i \in 1 .. N + 1 : PlacesOf(rx)[i] = i
        BY <2>1 DEF PlacesOf
      <3>6. a = [i \in 1 .. N + 1 |-> a[i]]
        BY <3>2, LenProperties
      <3>7. PlacesOf(rx) = [i \in 1 .. N + 1 |-> i]
        BY <2>1 DEF PlacesOf
      <3>8. a = [i \in 1 .. N + 1 |-> i]
        BY <3>4, <3>6
      <3> QED BY <3>7, <3>8 DEF a
    <2>5. Select(PlacesOf(r), In(rx)) = Ps(r)
      <3>1. \A n \in Range(PlacesOf(r)) : n \in In(rx) <=> n \in In(r)
        <4> SUFFICES ASSUME NEW n \in DOMAIN r PROVE n \in In(rx) <=> n \in In(r)
          BY <2>2
        <4>1. n \in DOMAIN rx /\ rx[n] = r[n]
          BY <2>1
        <4> QED BY <4>1
      <3> QED BY <2>2, <3>1, SelectSame
    <2>6. N + 1 \in In(rx) <=> x \in W
      BY <2>1
    <2>7. Ps(rx) = IF x \in W THEN Append(Ps(r), N + 1) ELSE Ps(r)
      <3>1. N + 1 \in Nat
        BY <2>1
      <3> HIDE DEF N
      <3>2. Select(Append(PlacesOf(r), N + 1), In(rx))
             = IF N + 1 \in In(rx) THEN Append(Select(PlacesOf(r), In(rx)), N + 1)
               ELSE Select(PlacesOf(r), In(rx))
        <4> DEFINE U == In(rx)
                   Y == Nat
                   v == PlacesOf(r)
                   n == N + 1
        <4>1. v \in Seq(Y) /\ n \in Y
          BY <2>2, <3>1
        <4> HIDE DEF U, Y, v, n
        <4>2. Select(Append(v, n), U) = IF n \in U THEN Append(Select(v, U), n) ELSE Select(v, U)
          BY <4>1, SelectAppend
        <4> QED BY <4>2 DEF U, v, n
      <3> QED BY <2>4, <2>5, <2>6, <3>2
    <2>8. Select(rx, W) = IF x \in W THEN Append(Select(r, W), x) ELSE Select(r, W)
      BY SelectAppend DEF rx
    <2> DEFINE ps == Ps(r)
               M == Len(ps)
               t == Select(r, W)
    <2>9. ps \in Seq(Nat) /\ t \in Seq(X) /\ Range(ps) \subseteq DOMAIN r
      BY <2>2, SelectedSeq, SelectRange
    <2>10. M \in Nat /\ Len(t) = M /\ \A k \in 1 .. M : t[k] = r[ps[k]] /\ ps[k] \in DOMAIN r
      <3>1. M \in Nat /\ DOMAIN ps = 1 .. M
        BY <2>9, LenProperties
      <3>2. \A k \in 1 .. M : ps[k] \in DOMAIN r
        BY <2>9, <3>1 DEF Range
      <3> QED BY <2>0, <3>1, <3>2
    <2>11. ASSUME x \notin W PROVE Good(rx)
      <3>1. \A k \in 1 .. M : t[k] = rx[ps[k]]
        BY <2>1, <2>10
      <3>2. Ps(rx) = ps /\ Select(rx, W) = t
        BY <2>7, <2>8, <2>11
      <3>3. Len(Select(rx, W)) = Len(Ps(rx)) /\ \A k \in 1 .. Len(Ps(rx)) : Select(rx, W)[k] = rx[Ps(rx)[k]]
        <4> HIDE DEF Ps, ps, t
        <4> QED BY <2>10, <3>1, <3>2
      <3> QED BY <3>3
    <2>12. ASSUME x \in W PROVE Good(rx)
      <3> DEFINE ps1 == Append(ps, N + 1)
                 t1 == Append(t, x)
      <3>1. Ps(rx) = ps1 /\ Select(rx, W) = t1
        BY <2>7, <2>8, <2>12
      <3> HIDE DEF Ps, ps, t
      <3>2. N + 1 \in Nat
        BY <2>1
      <3>3. /\ Len(ps1) = M + 1 /\ ps1[M + 1] = N + 1
            /\ \A k \in 1 .. M : ps1[k] = ps[k]
        BY <2>9, <3>2, AppendedSeq, LenProperties
      <3>4. Len(t1) = M + 1 /\ t1[M + 1] = x /\ \A k \in 1 .. M : t1[k] = t[k]
        BY <2>9, <2>10, AppendedSeq, LenProperties
      <3> HIDE DEF ps1, t1
      <3>5. ASSUME NEW k \in 1 .. M + 1 PROVE t1[k] = rx[ps1[k]]
        <4>1. CASE k = M + 1
          BY <2>1, <3>3, <3>4, <4>1
        <4>2. CASE k \in 1 .. M
          <5>1. t1[k] = r[ps[k]] /\ ps[k] \in DOMAIN r /\ ps1[k] = ps[k]
            BY <2>10, <3>3, <3>4, <4>2
          <5> QED BY <2>1, <5>1
        <4> QED BY <2>10, <4>1, <4>2
      <3>6. Len(Select(rx, W)) = Len(Ps(rx)) /\ \A k \in 1 .. Len(Ps(rx)) : Select(rx, W)[k] = rx[Ps(rx)[k]]
        BY <3>1, <3>3, <3>4, <3>5
      <3> QED BY <3>6
    <2>13. rx \in P
      <3> HIDE DEF Good
      <3> QED BY <2>1, <2>11, <2>12
    <2> QED BY <2>13 DEF rx
  <1> HIDE DEF P
  <1>3. Seq(X) \subseteq P
    BY <1>1, <1>2, SeqInduction
  <1>4. /\ PlacesOf(s) \in Seq(Nat) /\ PlacesOf(s) \in Seq(DOMAIN s)
        /\ Range(PlacesOf(s)) = DOMAIN s /\ Ordered(PlacesOf(s), Up)
    BY PlacesFacts
  <1>5. Ps(s) \in Seq(Nat) /\ Ps(s) \in Seq(DOMAIN s)
    BY <1>4, SelectedSeq
  <1>6. Ordered(Ps(s), Up) /\ Range(Ps(s)) = In(s)
    <2>1. Range(Ps(s)) = DOMAIN s \intersect In(s)
      BY <1>4, SelectRange
    <2> QED BY <1>4, <2>1, SelectOrdered
  <1>7. Len(Select(s, W)) = Len(Ps(s)) /\ \A k \in 1 .. Len(Ps(s)) : Select(s, W)[k] = s[Ps(s)[k]]
    BY <1>3 DEF P
  <1>8. C = In(s)
    OBVIOUS
  <1> HIDE DEF In
  <1> QED BY <1>5, <1>6, <1>7, <1>8

\* Steps of a loop over the places of a table.
LEMMA NextPlace ==
  ASSUME NEW N \in Nat, NEW m \in Nat, m + 1 <= N
  PROVE  m + 1 \in 1 .. N /\ m \in 0 .. N /\ (m + 1) - 1 = m
  OBVIOUS

-----------------------------------------------------------------------------
(* Numbers, finite sets and their members in order *)

\* A set of numbers none of which is above a number has a largest.
LEMMA MaxFacts ==
  ASSUME NEW S \in SUBSET Nat, S # {}, NEW b \in Nat, \A x \in S : x <= b
  PROVE  Max(S) \in S /\ \A x \in S : x <= Max(S)
  <1> DEFINE D == {d \in Nat : b - d \in S}
  <1>1. PICK x \in S : TRUE
    OBVIOUS
  <1>2. b - x \in D
    BY b - (b - x) = x
  <1>3. PICK d \in D : \A e \in D : d <= e
    BY <1>2, LeastPlace
  <1>4. \A y \in S : b - y \in D /\ b - y \in Nat
    <2> TAKE y \in S
    <2> QED BY b - (b - y) = y
  <1>5. b - d \in S /\ \A y \in S : b - d >= y
    BY <1>3, <1>4
  <1> HIDE DEF D
  <1> QED BY <1>5 DEF Max

\* A set of numbers has a least.
LEMMA MinFacts ==
  ASSUME NEW S \in SUBSET Nat, S # {}
  PROVE  Min(S) \in S /\ \A x \in S : Min(S) <= x
  BY LeastPlace DEF Min

\* Finitely many numbers are all below one.
LEMMA ValuesBounded ==
  ASSUME NEW N \in Nat, NEW f \in [1 .. N -> Nat]
  PROVE  \E b \in Nat : \A i \in 1 .. N : f[i] <= b
  <1> DEFINE S == {n \in Nat : n <= N => \E b \in Nat : \A i \in 1 .. n : f[i] <= b}
  <1>1. 0 \in S
    BY \A i \in 1 .. 0 : FALSE, 0 \in Nat
  <1>2. ASSUME NEW n \in Nat, n \in S PROVE n + 1 \in S
    <2> SUFFICES ASSUME n + 1 <= N PROVE \E b \in Nat : \A i \in 1 .. n + 1 : f[i] <= b
      OBVIOUS
    <2>1. PICK b \in Nat : \A i \in 1 .. n : f[i] <= b
      BY <1>2
    <2>2. f[n + 1] \in Nat
      OBVIOUS
    <2>3. ASSUME NEW i \in 1 .. n + 1 PROVE f[i] <= b + f[n + 1]
      <3>1. f[i] \in Nat
        OBVIOUS
      <3>2. CASE i \in 1 .. n
        BY <2>1, <2>2, <3>1, <3>2
      <3>3. CASE i = n + 1
        BY <2>2, <3>3
      <3> QED BY <3>2, <3>3
    <2>4. b + f[n + 1] \in Nat
      BY <2>2
    <2> QED BY <2>3, <2>4
  <1>3. Nat \subseteq S
    <2> HIDE DEF S
    <2> QED BY <1>1, <1>2, SetInduction
  <1>4. N \in S /\ N <= N
    <2> HIDE DEF S
    <2> QED BY <1>3
  <1> QED BY <1>4

\* A number is the greatest of a set if it is of the set and none is above it.
LEMMA MaxIs ==
  ASSUME NEW S \in SUBSET Int, NEW x \in S, \A y \in S : y <= x
  PROVE  Max(S) = x
  <1>1. \A y \in S : (\A z \in S : y >= z) => y = x
    OBVIOUS
  <1>2. x \in S /\ \A z \in S : x >= z
    OBVIOUS
  <1> QED BY <1>1, <1>2 DEF Max

\* One more member is one more.
LEMMA OneMore ==
  \A T, x : IsFiniteSet(T) /\ x \notin T => Cardinality(T \union {x}) = Cardinality(T) + 1
  <1> SUFFICES ASSUME NEW T, NEW x, IsFiniteSet(T), x \notin T
               PROVE  Cardinality(T \union {x}) = Cardinality(T) + 1
    OBVIOUS
  <1> QED BY FS_AddElement

\* A member of a set.
Pick(s) == CHOOSE x \in s : TRUE

\* A subset of a finite set, and what is left of it without a member.
LEMMA CardOf ==
  ASSUME NEW D, IsFiniteSet(D), NEW s \in SUBSET D
  PROVE  /\ IsFiniteSet(s) /\ Cardinality(s) \in Nat /\ Cardinality(s) <= Cardinality(D)
         /\ s # {} => /\ Pick(s) \in s /\ s \ {Pick(s)} \in SUBSET D
                      /\ Cardinality(s \ {Pick(s)}) = Cardinality(s) - 1
         /\ Cardinality(s) = 0 <=> s = {}
  <1>1. IsFiniteSet(s) /\ Cardinality(s) <= Cardinality(D)
    BY FS_Subset
  <1>2. Cardinality(s) \in Nat
    BY <1>1, FS_CardinalityType
  <1>3. ASSUME s # {} PROVE Pick(s) \in s /\ Cardinality(s \ {Pick(s)}) = Cardinality(s) - 1
    <2>1. Pick(s) \in s
      BY <1>3 DEF Pick
    <2> QED BY <1>1, <2>1, FS_RemoveElement
  <1>4. Cardinality(s) = 0 <=> s = {}
    BY <1>1, FS_EmptySet
  <1> QED BY <1>1, <1>2, <1>3, <1>4

\* What a function maps finitely many places to is finite.
LEMMA ImageIsFinite ==
  ASSUME NEW I, IsFiniteSet(I), NEW T, NEW f, DOMAIN f = I, f = [x \in I |-> f[x]],
         \A y \in T : \E x \in I : y = f[x]
  PROVE  IsFiniteSet(T)
  <1> DEFINE R == {f[x] : x \in I}
  <1>1. f \in Surjection(I, R)
    <2>1. f \in [I -> R]
      OBVIOUS
    <2> QED BY <2>1 DEF Surjection
  <1>2. T \in SUBSET R
    OBVIOUS
  <1> HIDE DEF R
  <1>3. IsFiniteSet(R)
    BY <1>1, FS_Surjection
  <1> QED BY <1>2, <1>3, FS_Subset

\* A finite set in a strict total order: each member at its place, behind as many
\* as come before it.
LEMMA SetInOrderFacts ==
  ASSUME NEW S, IsFiniteSet(S), NEW B,
         \A x \in S : <<x, x>> \notin B,
         \A x, y \in S : x # y => <<x, y>> \in B \/ <<y, x>> \in B,
         \A x, y, z \in S : <<x, y>> \in B /\ <<y, z>> \in B => <<x, z>> \in B
  PROVE  LET n == Cardinality(S)
             o == SetInOrder(S, B)
         IN  /\ n \in Nat /\ o \in [1 .. n -> S]
             /\ \A k \in 1 .. n : Cardinality({y \in S : <<y, o[k]>> \in B}) = k - 1
             /\ \A x \in S : \E k \in 1 .. n : o[k] = x
             /\ \A k, l \in 1 .. n : k < l => <<o[k], o[l]>> \in B
             /\ \A k, l \in 1 .. n : o[k] = o[l] => k = l
  <1> DEFINE n == Cardinality(S)
             Pre(x) == {y \in S : <<y, x>> \in B}
             Rank(x) == Cardinality(Pre(x))
             rank == [x \in S |-> Rank(x)]
             At(k) == CHOOSE x \in S : Rank(x) = k - 1
             o == SetInOrder(S, B)
  <1>1. n \in Nat
    BY FS_CardinalityType
  <1>2. o = [k \in 1 .. n |-> At(k)]
    BY DEF SetInOrder
  <1>3. IsFiniteSet(0 .. n - 1) /\ Cardinality(0 .. n - 1) = n
    <2>2. 0 \in Int /\ n - 1 \in Int
      BY <1>1
    <2>3. IsFiniteSet(0 .. n - 1) /\ Cardinality(0 .. n - 1) = IF 0 > n - 1 THEN 0 ELSE (n - 1) - 0 + 1
      BY <2>2, FS_Interval
    <2>4. (IF 0 > n - 1 THEN 0 ELSE (n - 1) - 0 + 1) = n
      BY <1>1
    <2> QED BY <2>3, <2>4
  <1>4. ASSUME NEW x \in S
        PROVE  /\ IsFiniteSet(Pre(x)) /\ Rank(x) \in 0 .. n - 1
               /\ IsFiniteSet(Pre(x) \union {x}) /\ Cardinality(Pre(x) \union {x}) = Rank(x) + 1
    <2>1. x \notin Pre(x) /\ Pre(x) \in SUBSET S /\ Pre(x) \union {x} \in SUBSET S
      OBVIOUS
    <2> HIDE DEF Pre
    <2>2. IsFiniteSet(Pre(x)) /\ IsFiniteSet(Pre(x) \union {x}) /\ Cardinality(Pre(x) \union {x}) <= n
      BY <2>1, FS_Subset
    <2>3. Cardinality(Pre(x) \union {x}) = Rank(x) + 1
      BY <2>1, <2>2, FS_AddElement
    <2>4. Rank(x) \in Nat
      BY <2>2, FS_CardinalityType
    <2> HIDE DEF Rank, n
    <2> QED BY <1>1, <2>2, <2>3, <2>4
  <1>5. ASSUME NEW x \in S, NEW y \in S, <<x, y>> \in B PROVE Rank(x) < Rank(y)
    <2>1. Pre(x) \union {x} \in SUBSET Pre(y)
      BY <1>5
    <2> HIDE DEF Pre
    <2>2. Cardinality(Pre(x) \union {x}) <= Cardinality(Pre(y))
      BY <1>4, <2>1, FS_Subset
    <2>3. Rank(x) + 1 <= Rank(y) /\ Rank(x) \in 0 .. n - 1 /\ Rank(y) \in 0 .. n - 1
      BY <1>4, <2>2
    <2> HIDE DEF Rank, n
    <2> QED BY <1>1, <2>3
  <1>6. ASSUME NEW x \in S, NEW y \in S, Rank(x) = Rank(y) PROVE x = y
    <2> SUFFICES ASSUME x # y PROVE FALSE
      OBVIOUS
    <2>2. Rank(x) < Rank(y) \/ Rank(y) < Rank(x)
      <3> HIDE DEF Rank
      <3> QED BY <1>5
    <2>3. Rank(x) \in 0 .. n - 1
      BY <1>4
    <2> HIDE DEF Rank, n
    <2> QED BY <1>1, <1>6, <2>2, <2>3
  <1> HIDE DEF Pre, Rank
  <1>7. rank \in [S -> 0 .. n - 1] /\ \A x \in S : rank[x] = Rank(x)
    BY <1>4
  <1> HIDE DEF rank
  <1>8. rank \in Injection(S, 0 .. n - 1)
    <2>1. \A x, y \in S : rank[x] = rank[y] => x = y
      BY <1>6, <1>7
    <2>2. DOMAIN rank = S
      BY <1>7
    <2> QED BY <1>7, <2>1, <2>2 DEF Injection, IsInjective
  <1>9. rank \in Surjection(S, 0 .. n - 1)
    BY <1>3, <1>8, FS_Injection
  <1> HIDE DEF n
  <1>10. ASSUME NEW k \in 1 .. n PROVE At(k) \in S /\ Rank(At(k)) = k - 1
    <2>1. k - 1 \in 0 .. n - 1
      BY <1>1
    <2>2. \E x \in S : rank[x] = k - 1
      BY <1>9, <2>1 DEF Surjection
    <2>3. \E x \in S : Rank(x) = k - 1
      BY <1>7, <2>2
    <2> QED BY <2>3
  <1>11. ASSUME NEW x \in S PROVE \E k \in 1 .. n : At(k) = x
    <2>1. Rank(x) \in 0 .. n - 1
      BY <1>4
    <2>2. PICK k \in 1 .. n : Rank(x) = k - 1
      <3>1. Rank(x) + 1 \in 1 .. n /\ Rank(x) = (Rank(x) + 1) - 1
        BY <1>1, <2>1
      <3> QED BY <3>1
    <2>3. At(k) \in S /\ Rank(At(k)) = k - 1
      BY <1>10
    <2> HIDE DEF At
    <2> QED BY <1>6, <2>2, <2>3
  <1> HIDE DEF At
  <1>12. ASSUME NEW k \in 1 .. n, NEW l \in 1 .. n, k < l PROVE <<At(k), At(l)>> \in B
    <2>1. At(k) \in S /\ At(l) \in S /\ Rank(At(k)) = k - 1 /\ Rank(At(l)) = l - 1
      BY <1>10
    <2>2. At(k) # At(l) /\ ~(Rank(At(l)) < Rank(At(k)))
      BY <1>1, <1>12, <2>1
    <2> QED BY <1>5, <2>1, <2>2
  <1>13. \A k, l \in 1 .. n : At(k) = At(l) => k = l
    <2> SUFFICES ASSUME NEW k \in 1 .. n, NEW l \in 1 .. n, At(k) = At(l) PROVE k = l
      OBVIOUS
    <2>1. k - 1 = l - 1
      BY <1>10
    <2> QED BY <1>1, <2>1
  <1>14. o \in [1 .. n -> S] /\ \A k \in 1 .. n : o[k] = At(k)
    BY <1>2, <1>10
  <1>15. \A k \in 1 .. n : Cardinality({y \in S : <<y, o[k]>> \in B}) = k - 1
    BY <1>10, <1>14 DEF Rank, Pre
  <1> HIDE DEF o
  <1> QED BY <1>1, <1>11, <1>12, <1>13, <1>14, <1>15 DEF n, o
=============================================================================
