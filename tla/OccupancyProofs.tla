--------------------------- MODULE OccupancyProofs ---------------------------
(* Machine-checked facts about Occupancy, for every account, limit and number *)
(* of transfers, and for the calls that may be slow or lost that each theorem *)
(* names.  First what the sum of a set of reservations is, and what each      *)
(* database function of Ledger does to an account whose reserved_chunks is    *)
(* that sum.                                                                  *)
EXTENDS Occupancy, FiniteSetTheorems, TLAPS

-----------------------------------------------------------------------------
(* The sum of the chunks of a set of sessions.                               *)

Pick(S) == CHOOSE s \in S : TRUE

\* The recursive function Held(S) is a value of.
IsSum(f, S) == f = [T \in SUBSET S |-> IF T = {} THEN 0 ELSE Chunks[Pick(T)] + f[T \ {Pick(T)}]]

\* Induction over the subsets of a finite set: a set of them that has a subset
\* whenever it has all its proper subsets has them all.
LEMMA SubsetInduction ==
  ASSUME NEW S, IsFiniteSet(S), NEW X,
         \A T \in SUBSET S : (\A U \in SUBSET T : U # T => U \in X) => T \in X
  PROVE  \A T \in SUBSET S : T \in X
  <1> DEFINE Bad == (SUBSET S) \ X
  <1>1. FiniteSubsetsOf(S) = SUBSET S
    BY FS_FiniteSubsetsOfFinite
  <1>2. IsWellFoundedOn(StrictSubsetOrdering(S), SUBSET S)
    BY <1>1, FS_StrictSubsetOrderingWellFounded
  <1>3. SUFFICES ASSUME Bad # {} PROVE FALSE
    OBVIOUS
  <1>4. \E T \in Bad : \A U \in Bad : <<U, T>> \notin StrictSubsetOrdering(S)
    <2>1. Bad \subseteq SUBSET S
      OBVIOUS
    <2> HIDE DEF Bad
    <2> QED
      BY <1>2, <1>3, <2>1, WFMin
  <1>5. PICK T \in Bad : \A U \in Bad : <<U, T>> \notin StrictSubsetOrdering(S)
    BY <1>4
  <1>6. ASSUME NEW U \in SUBSET T, U # T PROVE U \in X
    <2>1. <<U, T>> \in StrictSubsetOrdering(S)
      BY <1>6 DEF StrictSubsetOrdering
    <2> QED
      BY <1>5, <2>1
  <1> QED
    BY <1>6

\* Two such functions agree where both are defined.
LEMMA SumUnique ==
  ASSUME NEW S, IsFiniteSet(S), NEW R \in SUBSET S, NEW f, IsSum(f, S), NEW g, IsSum(g, R)
  PROVE  \A T \in SUBSET R : f[T] = g[T]
  <1> DEFINE X == {T \in SUBSET R : f[T] = g[T]}
  <1>1. IsFiniteSet(R)
    BY FS_Subset
  <1>2. ASSUME NEW T \in SUBSET R, \A U \in SUBSET T : U # T => U \in X
        PROVE  T \in X
    <2>1. CASE T = {}
      BY <2>1 DEF IsSum
    <2>2. CASE T # {}
      <3>1. Pick(T) \in T
        BY <2>2 DEF Pick
      <3>2. f[T \ {Pick(T)}] = g[T \ {Pick(T)}]
        BY <1>2, <3>1
      <3>3. f[T] = Chunks[Pick(T)] + f[T \ {Pick(T)}]
        BY <2>2 DEF IsSum
      <3>4. g[T] = Chunks[Pick(T)] + g[T \ {Pick(T)}]
        BY <2>2 DEF IsSum
      <3> QED
        BY <3>2, <3>3, <3>4
    <2> QED
      BY <2>1, <2>2
  <1>3. \A T \in SUBSET R : T \in X
    <2> HIDE DEF X
    <2> QED
      BY <1>1, <1>2, SubsetInduction
  <1> QED
    BY <1>3

LEMMA HeldDef ==
  ASSUME NEW S
  PROVE  Held(S) = (CHOOSE f : IsSum(f, S))[S]
  BY DEF Held, MapThenSumSet, MapThenFoldSet, IsSum, Pick

LEMMA HeldIsSum ==
  ASSUME NEW R \in SUBSET Sessions, \E g : IsSum(g, R), NEW f, NEW S \in SUBSET Sessions, IsSum(f, S),
         R \subseteq S
  PROVE  Held(R) = f[R]
  <1>1. IsFiniteSet(S)
    BY FS_Subset, LedgerAssumption
  <1>2. IsSum(CHOOSE g : IsSum(g, R), R)
    OBVIOUS
  <1> DEFINE h == CHOOSE g : IsSum(g, R)
  <1>3. Held(R) = h[R]
    BY HeldDef
  <1>4. IsSum(h, R)
    BY <1>2
  <1> HIDE DEF h
  <1>5. f[R] = h[R]
    BY <1>1, <1>4, SumUnique
  <1> QED
    BY <1>3, <1>5

\* The recursive function exists, so Held is what its definition says.
LEMMA SumExists == \A S \in SUBSET Sessions : \E f : IsSum(f, S)
  <1> DEFINE X == {S \in SUBSET Sessions : \E f : IsSum(f, S)}
  <1>1. ASSUME NEW S \in SUBSET Sessions, \A U \in SUBSET S : U # S => U \in X
        PROVE  S \in X
    <2> DEFINE g == [T \in SUBSET S |->
                       IF T = {} THEN 0 ELSE Chunks[Pick(T)] + Held(T \ {Pick(T)})]
    <2>1. \A U \in SUBSET S : U # S => \E f : IsSum(f, U)
      BY <1>1
    <2>2. ASSUME NEW W \in SUBSET S, W # S PROVE g[W] = Held(W)
      <3>1. PICK f : IsSum(f, W)
        BY <2>1, <2>2
      <3>2. Held(W) = f[W]
        BY <3>1, HeldIsSum
      <3>3. CASE W = {}
        BY <3>1, <3>2, <3>3 DEF IsSum
      <3>4. CASE W # {}
        <4>1. Pick(W) \in W
          BY <3>4 DEF Pick
        <4> DEFINE V == W \ {Pick(W)}
        <4>2. V \in SUBSET S /\ V # S /\ V \subseteq W
          BY <4>1
        <4>3. Held(V) = f[V]
          BY <2>1, <3>1, <4>2, HeldIsSum
        <4>4. f[W] = Chunks[Pick(W)] + f[V]
          BY <3>1, <3>4 DEF IsSum
        <4>5. g[W] = Chunks[Pick(W)] + Held(V)
          BY <3>4
        <4> QED
          BY <3>2, <4>3, <4>4, <4>5
      <3> QED
        BY <3>3, <3>4
    <2>3. ASSUME NEW T \in SUBSET S, T # {} PROVE g[T] = Chunks[Pick(T)] + g[T \ {Pick(T)}]
      <3>1. Pick(T) \in T
        BY <2>3 DEF Pick
      <3>2. T \ {Pick(T)} \in SUBSET S /\ T \ {Pick(T)} # S
        BY <3>1
      <3>3. g[T \ {Pick(T)}] = Held(T \ {Pick(T)})
        BY <2>2, <3>2
      <3>4. g[T] = Chunks[Pick(T)] + Held(T \ {Pick(T)})
        BY <2>3
      <3> QED
        BY <3>3, <3>4
    <2>4. \A T \in SUBSET S : T = {} => g[T] = 0
      OBVIOUS
    <2>5. g = [T \in SUBSET S |-> g[T]]
      OBVIOUS
    <2> HIDE DEF g
    <2>6. IsSum(g, S)
      BY <2>3, <2>4, <2>5 DEF IsSum
    <2> QED
      BY <2>6
  <1>2. \A S \in SUBSET Sessions : S \in X
    <2> HIDE DEF X
    <2> QED
      BY <1>1, LedgerAssumption, SubsetInduction
  <1> QED
    BY <1>2

LEMMA HeldEmpty == Held({}) = 0
  <1>1. PICK f : IsSum(f, {})
    BY SumExists
  <1> QED
    BY <1>1, HeldIsSum DEF IsSum

LEMMA HeldPick ==
  ASSUME NEW T \in SUBSET Sessions, T # {}
  PROVE  /\ Pick(T) \in T
         /\ Held(T) = Chunks[Pick(T)] + Held(T \ {Pick(T)})
  <1>1. Pick(T) \in T
    BY DEF Pick
  <1>2. PICK f : IsSum(f, T)
    BY SumExists
  <1>3. Held(T) = f[T] /\ Held(T \ {Pick(T)}) = f[T \ {Pick(T)}]
    BY <1>2, HeldIsSum, SumExists
  <1>4. f[T] = Chunks[Pick(T)] + f[T \ {Pick(T)}]
    BY <1>2 DEF IsSum
  <1> QED
    BY <1>1, <1>3, <1>4

LEMMA HeldType == \A T \in SUBSET Sessions : Held(T) \in Nat
  <1> DEFINE X == {T \in SUBSET Sessions : Held(T) \in Nat}
  <1>1. ASSUME NEW T \in SUBSET Sessions, \A U \in SUBSET T : U # T => U \in X
        PROVE  T \in X
    <2>1. CASE T = {}
      BY <2>1, HeldEmpty
    <2>2. CASE T # {}
      <3>1. Held(T) = Chunks[Pick(T)] + Held(T \ {Pick(T)}) /\ Pick(T) \in T
        BY <2>2, HeldPick
      <3>2. Held(T \ {Pick(T)}) \in Nat
        BY <1>1, <3>1
      <3>3. Chunks[Pick(T)] \in Nat
        BY <3>1, LedgerAssumption
      <3> QED
        BY <3>1, <3>2, <3>3
    <2> QED
      BY <2>1, <2>2
  <1>2. \A T \in SUBSET Sessions : T \in X
    <2> HIDE DEF X
    <2> QED
      BY <1>1, LedgerAssumption, SubsetInduction
  <1> QED
    BY <1>2

\* Any one of the sessions may be taken out of the sum, not only the chosen one.
LEMMA HeldRemove ==
  \A T \in SUBSET Sessions : \A s \in T : Held(T) = Chunks[s] + Held(T \ {s})
  <1> DEFINE X == {T \in SUBSET Sessions : \A s \in T : Held(T) = Chunks[s] + Held(T \ {s})}
  <1>1. ASSUME NEW T \in SUBSET Sessions, \A U \in SUBSET T : U # T => U \in X
        PROVE  T \in X
    <2> SUFFICES ASSUME NEW s \in T PROVE Held(T) = Chunks[s] + Held(T \ {s})
      OBVIOUS
    <2> DEFINE x == Pick(T)
    <2>1. x \in T /\ Held(T) = Chunks[x] + Held(T \ {x})
      BY HeldPick
    <2> HIDE DEF x
    <2>2. CASE s = x
      BY <2>1, <2>2
    <2>3. CASE s # x
      <3>1. Held(T \ {x}) = Chunks[s] + Held((T \ {x}) \ {s})
        BY <1>1, <2>1, <2>3
      <3>2. Held(T \ {s}) = Chunks[x] + Held((T \ {s}) \ {x})
        BY <1>1, <2>1, <2>3
      <3>3. (T \ {s}) \ {x} = (T \ {x}) \ {s}
        OBVIOUS
      <3>4. Chunks[s] \in Nat /\ Chunks[x] \in Nat /\ Held((T \ {x}) \ {s}) \in Nat
        BY <2>1, LedgerAssumption, HeldType
      <3>5. Held(T \ {s}) = Chunks[x] + Held((T \ {x}) \ {s})
        BY <3>2, <3>3
      <3>6. Held(T) = Chunks[x] + (Chunks[s] + Held((T \ {x}) \ {s}))
        BY <2>1, <3>1
      <3> QED
        BY <3>4, <3>5, <3>6
    <2> QED
      BY <2>2, <2>3
  <1>2. \A T \in SUBSET Sessions : T \in X
    <2> HIDE DEF X
    <2> QED
      BY <1>1, LedgerAssumption, SubsetInduction
  <1> QED
    BY <1>2

LEMMA HeldAdd ==
  ASSUME NEW T \in SUBSET Sessions, NEW s \in Sessions, s \notin T
  PROVE  Held(T \cup {s}) = Held(T) + Chunks[s]
  <1>1. Held(T \cup {s}) = Chunks[s] + Held((T \cup {s}) \ {s})
    BY HeldRemove
  <1>2. (T \cup {s}) \ {s} = T
    OBVIOUS
  <1>3. Chunks[s] \in Nat /\ Held(T) \in Nat
    BY LedgerAssumption, HeldType
  <1>4. Held(T \cup {s}) = Chunks[s] + Held(T)
    BY <1>1, <1>2
  <1> QED
    BY <1>3, <1>4

\* The sum of two sets is the sum of their union and their intersection.
LEMMA HeldUnion ==
  \A S \in SUBSET Sessions : \A T \in SUBSET Sessions :
    Held(S) + Held(T) = Held(S \cup T) + Held(S \cap T)
  <1> SUFFICES ASSUME NEW S \in SUBSET Sessions
               PROVE  \A T \in SUBSET Sessions : Held(S) + Held(T) = Held(S \cup T) + Held(S \cap T)
    OBVIOUS
  <1> DEFINE X == {T \in SUBSET Sessions : Held(S) + Held(T) = Held(S \cup T) + Held(S \cap T)}
  <1>1. ASSUME NEW T \in SUBSET Sessions, \A U \in SUBSET T : U # T => U \in X
        PROVE  T \in X
    <2>1. CASE T = {}
      <3>1. S \cup T = S /\ S \cap T = {}
        BY <2>1
      <3> QED
        BY <2>1, <3>1, HeldEmpty, HeldType
    <2>2. CASE T # {}
      <3>1. PICK s \in T : TRUE
        BY <2>2
      <3> DEFINE U == T \ {s}
      <3>2. Held(T) = Chunks[s] + Held(U)
        BY HeldRemove
      <3>3. Held(S) + Held(U) = Held(S \cup U) + Held(S \cap U)
        BY <1>1
      <3>4. Chunks[s] \in Nat /\ Held(S) \in Nat /\ Held(U) \in Nat /\ Held(S \cup U) \in Nat
            /\ Held(S \cap U) \in Nat
        BY LedgerAssumption, HeldType
      <3>5. CASE s \in S
        <4>1. S \cup T = S \cup U /\ S \cap T = (S \cap U) \cup {s} /\ s \notin S \cap U
          BY <3>5
        <4>2. Held(S \cap T) = Held(S \cap U) + Chunks[s]
          BY <4>1, HeldAdd
        <4>3. Held(S \cup T) = Held(S \cup U)
          BY <4>1
        <4> HIDE DEF U
        <4> QED
          BY <3>2, <3>3, <3>4, <4>2, <4>3
      <3>6. CASE s \notin S
        <4>1. S \cap T = S \cap U /\ S \cup T = (S \cup U) \cup {s} /\ s \notin S \cup U
          BY <3>6
        <4>2. Held(S \cup T) = Held(S \cup U) + Chunks[s]
          BY <4>1, HeldAdd
        <4>3. Held(S \cap T) = Held(S \cap U)
          BY <4>1
        <4> HIDE DEF U
        <4> QED
          BY <3>2, <3>3, <3>4, <4>2, <4>3
      <3> QED
        BY <3>5, <3>6
    <2> QED
      BY <2>1, <2>2
  <1>2. \A T \in SUBSET Sessions : T \in X
    <2> HIDE DEF X
    <2> QED
      BY <1>1, LedgerAssumption, SubsetInduction
  <1> QED
    BY <1>2

LEMMA HeldSubset ==
  ASSUME NEW T \in SUBSET Sessions, NEW S \in SUBSET T
  PROVE  /\ Held(S) <= Held(T)
         /\ Held(T) = Held(S) + Held(T \ S)
  <1>1. Held(S) + Held(T \ S) = Held(S \cup (T \ S)) + Held(S \cap (T \ S))
    BY HeldUnion
  <1>2. S \cup (T \ S) = T /\ S \cap (T \ S) = {}
    OBVIOUS
  <1>3. Held(S) \in Nat /\ Held(T) \in Nat /\ Held(T \ S) \in Nat
    BY HeldType
  <1>4. Held(S) + Held(T \ S) = Held(T) + Held({})
    BY <1>1, <1>2
  <1>5. Held(S) + Held(T \ S) = Held(T)
    BY <1>3, <1>4, HeldEmpty
  <1> QED
    BY <1>3, <1>5

-----------------------------------------------------------------------------
(* The database functions, on an account whose reserved_chunks is the sum of  *)
(* its reservations: each keeps it so, and greatest(..., 0) changes nothing   *)
(* when a reservation is deleted.                                             *)

Balanced(a) == a \in Account /\ a.reserved = Held(a.rows)

LEMMA NewBalanced ==
  ASSUME NEW provisioned \in BOOLEAN
  PROVE  Balanced(NewAccount(provisioned))
  BY HeldEmpty DEF Balanced, Account, NewAccount

LEMMA RefreshedFacts ==
  ASSUME NEW a \in Account, NEW e
  PROVE  LET r == Refreshed(a, e) IN
         /\ Balanced(r)
         /\ r.rows = a.rows \ e /\ r.used = a.used /\ r.provisioned = a.provisioned
         /\ r.reserved = Held(a.rows \ e)
  <1>1. a.rows \ e \in SUBSET Sessions
    BY DEF Account
  <1>2. Held(a.rows \ e) \in Nat
    BY <1>1, HeldType
  <1> QED
    BY <1>1, <1>2 DEF Refreshed, Balanced, Account

\* A reservation that is granted fits in the limit beside everything counted and
\* reserved; a refusal only drops what has expired.
LEMMA ReservedFacts ==
  ASSUME NEW a, Balanced(a), NEW s \in Sessions, NEW e
  PROVE  LET r == Reserved(a, s, e)
             code == ReserveCode(a, s, e) IN
         /\ Balanced(r)
         /\ r.used = a.used /\ r.provisioned = a.provisioned
         /\ code = "ok" => /\ r.rows = (a.rows \ e) \cup {s} /\ s \notin a.rows \ e
                           /\ a.used + Held(r.rows) <= Limit
         /\ code \in {"too_many_in_flight", "quota_exceeded"} => r.rows = a.rows \ e
         /\ code \in {"quota_not_provisioned", "error"} => r = a
         /\ code \in {"ok", "too_many_in_flight", "quota_exceeded", "quota_not_provisioned", "error"}
  <1> DEFINE r == Refreshed(a, e)
             code == ReserveCode(a, s, e)
  <1>1. /\ Balanced(r) /\ r.rows = a.rows \ e /\ r.used = a.used
        /\ r.provisioned = a.provisioned /\ r.reserved = Held(a.rows \ e)
    BY RefreshedFacts DEF Balanced
  <1>2. code \in {"ok", "too_many_in_flight", "quota_exceeded", "quota_not_provisioned", "error"}
    BY DEF ReserveCode
  <1>3. CASE code = "ok"
    <2>1. /\ a.provisioned /\ ~(r.used + r.reserved + Chunks[s] > Limit) /\ s \notin r.rows
      <3>1. a.provisioned \in BOOLEAN /\ Cardinality(r.rows) \in Nat
        <4>1. IsFiniteSet(r.rows)
          BY <1>1, FS_Subset, LedgerAssumption DEF Balanced, Account
        <4> QED
          BY <4>1, FS_CardinalityType DEF Balanced, Account
      <3> HIDE DEF r
      <3> QED
        BY <1>3, <3>1, LedgerAssumption DEF ReserveCode, r
    <2>2. Reserved(a, s, e) = [r EXCEPT !.rows = @ \cup {s}, !.reserved = @ + Chunks[s]]
      BY <1>3 DEF Reserved
    <2>3. Held((a.rows \ e) \cup {s}) = Held(a.rows \ e) + Chunks[s]
      BY <1>1, <2>1, HeldAdd DEF Balanced, Account
    <2>4. /\ Held(a.rows \ e) \in Nat /\ Chunks[s] \in Nat /\ a.used \in Nat
          /\ a.rows \ e \in SUBSET Sessions
      BY HeldType, LedgerAssumption DEF Balanced, Account
    <2>5. a.used + Held((a.rows \ e) \cup {s}) <= Limit
      <3>1. ~(a.used + Held(a.rows \ e) + Chunks[s] > Limit)
        BY <1>1, <2>1
      <3> QED
        BY <2>3, <2>4, <3>1, LedgerAssumption
    <2> HIDE DEF r, code
    <2> DEFINE q == Reserved(a, s, e)
    <2>6. /\ q.rows = (a.rows \ e) \cup {s} /\ q.reserved = Held(a.rows \ e) + Chunks[s]
          /\ q.used = a.used /\ q.provisioned = a.provisioned /\ q \in Account
      <3>1. r.rows \cup {s} \in SUBSET Sessions /\ r.reserved + Chunks[s] \in Nat /\ r \in Account
        BY <1>1, <2>4 DEF Balanced
      <3>2. /\ q \in Account /\ q.rows = r.rows \cup {s} /\ q.reserved = r.reserved + Chunks[s]
            /\ q.used = r.used /\ q.provisioned = r.provisioned
        <4> HIDE DEF q
        <4> QED
          BY <2>2, <3>1 DEF q, Account
      <3> QED
        BY <1>1, <3>2
    <2>7. Balanced(q)
      BY <2>3, <2>6 DEF Balanced
    <2> HIDE DEF q
    <2> QED
      BY <1>1, <1>3, <2>1, <2>5, <2>6, <2>7 DEF q, code
  <1>4. CASE code \in {"too_many_in_flight", "quota_exceeded"}
    BY <1>1, <1>4 DEF Reserved
  <1>5. CASE code \in {"quota_not_provisioned", "error"}
    BY <1>5 DEF Reserved
  <1> QED
    BY <1>2, <1>3, <1>4, <1>5

LEMMA RowRemoved ==
  ASSUME NEW a, Balanced(a), NEW s \in a.rows
  PROVE  /\ Clamp(a.reserved - Chunks[s]) = Held(a.rows \ {s})
         /\ Held(a.rows) = Chunks[s] + Held(a.rows \ {s})
         /\ Held(a.rows \ {s}) \in Nat
  <1>1. Held(a.rows) = Chunks[s] + Held(a.rows \ {s})
    BY HeldRemove DEF Balanced, Account
  <1>2. Held(a.rows \ {s}) \in Nat /\ Chunks[s] \in Nat /\ a.reserved = Held(a.rows)
    BY HeldType, LedgerAssumption DEF Balanced, Account
  <1> QED
    BY <1>1, <1>2 DEF Clamp

LEMMA ConvertedFacts ==
  ASSUME NEW a, Balanced(a), NEW s \in Sessions
  PROVE  LET c == Converted(a, s) IN
         /\ Balanced(c)
         /\ c.rows = a.rows \ {s} /\ c.provisioned = a.provisioned
         /\ s \in a.rows => c.used = a.used + Chunks[s]
         /\ s \notin a.rows => c = a
  <1>1. CASE s \in a.rows
    <2> DEFINE R == a.rows \ {s}
               n == Clamp(a.reserved - Chunks[s])
               u == a.used + Chunks[s]
    <2>1. Chunks[s] \in Nat /\ a \in Account /\ a.used \in Nat
      BY LedgerAssumption DEF Balanced, Account
    <2>2. n = Held(R) /\ n \in Nat
      BY <1>1, RowRemoved
    <2>5. R \in SUBSET Sessions
      BY DEF Balanced, Account
    <2>6. u \in Nat
      BY <2>1
    <2>3. Converted(a, s) = [a EXCEPT !.rows = R, !.reserved = n, !.used = u]
      BY <1>1 DEF Converted
    <2>4. u = a.used + Chunks[s] /\ R = a.rows \ {s}
      OBVIOUS
    <2> HIDE DEF R, n, u
    <2> QED
      <3>1. /\ Converted(a, s) \in Account /\ Converted(a, s).rows = R
            /\ Converted(a, s).reserved = n /\ Converted(a, s).used = u
            /\ Converted(a, s).provisioned = a.provisioned
        BY <2>1, <2>2, <2>3, <2>5, <2>6 DEF Account
      <3> QED
        BY <1>1, <2>2, <2>4, <3>1 DEF Balanced
  <1>2. CASE s \notin a.rows
    BY <1>2 DEF Converted
  <1> QED
    BY <1>1, <1>2

LEMMA ReleasedFacts ==
  ASSUME NEW a, Balanced(a), NEW s \in Sessions, NEW complete \in BOOLEAN
  PROVE  LET r == Released(a, s, complete) IN
         /\ Balanced(r)
         /\ r.rows = a.rows \ {s} /\ r.provisioned = a.provisioned
         /\ s \in a.rows \/ ~complete => r.used = a.used
         /\ s \notin a.rows /\ complete => r.used = Clamp(a.used - Chunks[s])
         /\ s \notin a.rows /\ ~complete => r = a
         /\ r.used <= a.used
  <1>0. Chunks[s] \in Nat /\ a.used \in Nat
    BY LedgerAssumption DEF Balanced, Account
  <1>1. CASE s \in a.rows
    <2> DEFINE R == a.rows \ {s}
               n == Clamp(a.reserved - Chunks[s])
    <2>1. a \in Account /\ R \in SUBSET Sessions /\ n = Held(R) /\ n \in Nat
      BY <1>1, RowRemoved DEF Balanced, Account
    <2>2. Released(a, s, complete) = [a EXCEPT !.rows = R, !.reserved = n]
      BY <1>1 DEF Released
    <2>3. R = a.rows \ {s}
      OBVIOUS
    <2> HIDE DEF R, n
    <2> QED
      <3>1. /\ Released(a, s, complete) \in Account /\ Released(a, s, complete).rows = R
            /\ Released(a, s, complete).reserved = n /\ Released(a, s, complete).used = a.used
            /\ Released(a, s, complete).provisioned = a.provisioned
        BY <2>1, <2>2 DEF Account
      <3>2. PICK r : r = Released(a, s, complete)
        OBVIOUS
      <3>3. Balanced(r) /\ r.used <= a.used
        BY <1>0, <2>1, <3>1, <3>2 DEF Balanced
      <3>4. /\ r.rows = a.rows \ {s} /\ r.provisioned = a.provisioned
            /\ s \in a.rows \/ ~complete => r.used = a.used
        BY <2>3, <3>1, <3>2
      <3> QED
        BY <1>1, <3>2, <3>3, <3>4
  <1>2. CASE s \notin a.rows
    <2>1. Clamp(a.used - Chunks[s]) \in Nat /\ Clamp(a.used - Chunks[s]) <= a.used
      BY <1>0 DEF Clamp
    <2> QED
      BY <1>0, <1>2, <2>1 DEF Released, Balanced, Account
  <1> QED
    BY <1>1, <1>2

LEMMA ReconciledFacts ==
  ASSUME NEW a, Balanced(a), NEW done \in SUBSET Sessions, NEW e
  PROVE  LET r == Reconciled(a, done, e) IN
         /\ Balanced(r)
         /\ r.rows = (a.rows \ done) \ e /\ r.used = Held(done) /\ r.provisioned = a.provisioned
  <1> DEFINE b == [a EXCEPT !.rows = @ \ done]
  <1>1. b \in Account /\ b.rows = a.rows \ done /\ b.provisioned = a.provisioned
    BY DEF Balanced, Account
  <1>2. Held(done) \in Nat
    BY HeldType
  <1> QED
    BY <1>1, <1>2, RefreshedFacts DEF Reconciled, Balanced, Account

-----------------------------------------------------------------------------
(* The inductive invariant.  Its first half holds whatever calls are slow or  *)
(* lost.                                                                      *)

Types ==
  /\ man \in [Sessions -> {"none", "uploading", "complete", "consumed", "gone"}]
  /\ Balanced(acc) /\ fresh \in BOOLEAN
  /\ expired \subseteq Sessions /\ creating \subseteq Sessions
  /\ converting \in [Sessions -> 0..Tries]
  /\ releasing \in [Sessions -> {"none", "uploading", "complete"}]
  /\ recon \in [pc : {"idle", "list", "scan"}, todo : SUBSET Sessions,
                done : SUBSET Sessions, touched : BOOLEAN]

\* A handler in flight is for a transfer in the state it left or found it in.
Shape ==
  /\ \A t \in creating : man[t] = "none" /\ t \in acc.rows /\ t \notin expired
  /\ \A t \in Sessions :
       /\ converting[t] > 0 => man[t] \in {"complete", "consumed"}
       /\ releasing[t] # "none" => man[t] = "consumed"
  /\ \A t \in recon.done : man[t] \in {"complete", "consumed"}
  /\ recon.pc # "scan" => recon.done = {}

Core == Types /\ Shape /\ SessionBacked

\* What the account has to answer for: the finalised transfers, those whose
\* release is still to be made, and, as long as the scan counts, what it saw.
Charged ==
  Complete \cup {t \in Sessions : releasing[t] = "complete"}
           \cup (IF recon.touched THEN {} ELSE recon.done)

\* A session does not end before the conversion it is finalised by.
Open == \A t \in Converting : t \notin expired

\* A charged transfer that still has its reservation is about to be converted.
Kept == \A t \in Charged \cap acc.rows : converting[t] > 0

\* What an untouched account's scan will not count is still to be converted.
Missed ==
  recon.pc = "scan" /\ ~recon.touched =>
    \A t \in Complete \ (recon.done \cup recon.todo) : t \in acc.rows /\ converting[t] > 0

\* The converted transfers among the charged ones are all in used_chunks.
Backed == Held(Charged \ acc.rows) <= acc.used

\* Nothing is granted beyond the limit.
Fits == acc.used + Held(acc.rows) <= Limit

\* The calls the second half needs: finalise's conversion is neither lost nor
\* outlived by its session, and a release is made before the reconcile writes.
Prompt == "convert" \notin Slow \cup Lossy /\ "release" \notin Slow

Answers == Open /\ Kept /\ Missed /\ Backed /\ Fits

-----------------------------------------------------------------------------
LEMMA InitCore == Init => Core
  <1> SUFFICES ASSUME Init PROVE Core
    OBVIOUS
  <1>1. Balanced(acc)
    BY NewBalanced DEF Init
  <1>2. Types
    <2>1. 0 \in 0..Tries
      BY OccupancyAssumption
    <2>2. recon \in [pc : {"idle", "list", "scan"}, todo : SUBSET Sessions,
                     done : SUBSET Sessions, touched : BOOLEAN]
      BY DEF Init, NoRecon
    <2> QED
      BY <1>1, <2>1, <2>2 DEF Init, Types
  <1>3. acc.rows = {}
    BY DEF Init, NewAccount
  <1>4. Shape /\ SessionBacked
    BY <1>3 DEF Init, Shape, SessionBacked, Uploading, NoRecon
  <1> QED
    BY <1>2, <1>4 DEF Core

\* What a step that changes the account through a function of the ledger owes.
LEMMA StampTypes ==
  ASSUME Types, NEW a, Balanced(a), Stamp(a)
  PROVE  /\ Balanced(acc') /\ acc' = a /\ (fresh \in BOOLEAN)'
         /\ recon.pc = recon'.pc /\ recon.done = recon'.done /\ recon.todo = recon'.todo
         /\ recon'.touched = (recon.pc # "idle")
         /\ recon' \in [pc : {"idle", "list", "scan"}, todo : SUBSET Sessions,
                        done : SUBSET Sessions, touched : BOOLEAN]
  BY DEF Stamp, Types

LEMMA CallTypes ==
  ASSUME Types, NEW a, Balanced(a), Call(a)
  PROVE  /\ Balanced(acc') /\ acc' = a /\ (fresh \in BOOLEAN)'
         /\ recon.pc = recon'.pc /\ recon.done = recon'.done /\ recon.todo = recon'.todo
         /\ a # acc => recon'.touched = (recon.pc # "idle")
         /\ a = acc => recon' = recon
         /\ recon' \in [pc : {"idle", "list", "scan"}, todo : SUBSET Sessions,
                        done : SUBSET Sessions, touched : BOOLEAN]
  <1>1. CASE a = acc
    BY <1>1 DEF Call, Types
  <1>2. CASE a # acc
    <2>1. Stamp(a)
      BY <1>2 DEF Call
    <2> QED
      BY <1>2, <2>1, StampTypes
  <1> QED
    BY <1>1, <1>2

\* The steps that leave the account alone.
LEMMA QuietCore ==
  ASSUME Core, NEW t \in Sessions
  PROVE  /\ Create(t) => Core'
         /\ InitiateDies(t) => Core'
         /\ Expire(t) => Core'
         /\ Finalise(t) => Core'
         /\ Latch(t) => Core'
         /\ ReleaseLost(t) => Core'
         /\ RemoveStale(t) => Core'
         /\ ReconcileRead(t) => Core'
  <1> USE DEF Core
  <1>1. ASSUME Create(t) PROVE Core'
    BY <1>1 DEF Create, Types, Shape, SessionBacked, Uploading, Balanced
  <1>2. ASSUME InitiateDies(t) PROVE Core'
    BY <1>2 DEF InitiateDies, Types, Shape, SessionBacked, Uploading, Balanced
  <1>3. ASSUME Expire(t) PROVE Core'
    BY <1>3 DEF Expire, jobs, Types, Shape, SessionBacked, Uploading, Balanced
  <1>4. ASSUME Finalise(t) PROVE Core'
    BY <1>4, OccupancyAssumption DEF Finalise, Types, Shape, SessionBacked, Uploading, Balanced
  <1>5. ASSUME Latch(t) PROVE Core'
    BY <1>5 DEF Latch, Types, Shape, SessionBacked, Uploading, Balanced
  <1>6. ASSUME ReleaseLost(t) PROVE Core'
    BY <1>6 DEF ReleaseLost, Types, Shape, SessionBacked, Uploading, Balanced
  <1>7. ASSUME RemoveStale(t) PROVE Core'
    BY <1>7 DEF RemoveStale, jobs, Types, Shape, SessionBacked, Uploading, Balanced
  <1>8. ASSUME ReconcileRead(t) PROVE Core'
    BY <1>8 DEF ReconcileRead, jobs, Types, Shape, SessionBacked, Uploading, Balanced
  <1> QED
    BY <1>1, <1>2, <1>3, <1>4, <1>5, <1>6, <1>7, <1>8

LEMMA ClockCore ==
  ASSUME Core
  PROVE  /\ ReconcileClock => Core'
         /\ ReconcileList => Core'
         /\ ReconcileAbort => Core'
         /\ Tick => Core'
         /\ UNCHANGED vars => Core'
  <1> USE DEF Core
  <1>1. ASSUME ReconcileClock PROVE Core'
    BY <1>1 DEF ReconcileClock, jobs, Types, Shape, SessionBacked, Uploading, Balanced
  <1>2. ASSUME ReconcileList PROVE Core'
    BY <1>2 DEF ReconcileList, jobs, Types, Shape, SessionBacked, Uploading, Balanced
  <1>3. ASSUME ReconcileAbort PROVE Core'
    BY <1>3 DEF ReconcileAbort, NoRecon, jobs, Types, Shape, SessionBacked, Uploading, Balanced
  <1>4. ASSUME Tick PROVE Core'
    BY <1>4 DEF Tick, jobs, Types, Shape, SessionBacked, Uploading, Balanced
  <1>5. ASSUME UNCHANGED vars PROVE Core'
    BY <1>5 DEF vars, Types, Shape, SessionBacked, Uploading, Balanced
  <1> QED
    BY <1>1, <1>2, <1>3, <1>4, <1>5

LEMMA ReserveCore ==
  ASSUME Core, NEW t \in Sessions
  PROVE  /\ Reserve(t) => Core'
         /\ ReserveRefused(t) => Core'
  <1> USE DEF Core
  <1> DEFINE a == Reserved(acc, t, expired)
             code == ReserveCode(acc, t, expired)
  <1>1. /\ Balanced(a)
        /\ code = "ok" => a.rows = (acc.rows \ expired) \cup {t}
        /\ code \in {"too_many_in_flight", "quota_exceeded"} => a.rows = acc.rows \ expired
    BY ReservedFacts DEF Types
  <1>2. ASSUME Reserve(t) PROVE Core'
    <2>1. Stamp(a) /\ code = "ok" /\ man[t] = "none" /\ t \notin creating \cup expired
      BY <1>2 DEF Reserve
    <2>2. /\ creating' = creating \cup {t}
          /\ UNCHANGED <<man, expired, converting, releasing>>
      BY <1>2 DEF Reserve
    <2> HIDE DEF a, code
    <2>3. Types'
      BY <1>1, <2>1, <2>2, StampTypes DEF Types
    <2>4. acc'.rows = (acc.rows \ expired) \cup {t}
      BY <1>1, <2>1, StampTypes
    <2>5. recon'.pc = recon.pc /\ recon'.done = recon.done
      BY <1>1, <2>1, StampTypes
    <2> QED
      BY <2>1, <2>2, <2>3, <2>4, <2>5 DEF Shape, SessionBacked, Uploading
  <1>3. ASSUME ReserveRefused(t) PROVE Core'
    <2>1. acc' = a /\ code \in {"too_many_in_flight", "quota_exceeded"}
          /\ UNCHANGED <<man, fresh, expired, jobs, recon>>
      BY <1>3 DEF ReserveRefused
    <2> HIDE DEF a, code
    <2>2. Types'
      BY <1>1, <2>1 DEF Types, jobs
    <2>3. acc'.rows = acc.rows \ expired
      BY <1>1, <2>1
    <2> QED
      BY <2>1, <2>2, <2>3 DEF Shape, SessionBacked, Uploading, jobs
  <1> QED
    BY <1>2, <1>3

LEMMA CancelCore ==
  ASSUME Core, NEW t \in Sessions, Cancel(t)
  PROVE  Core'
  <1> USE DEF Core
  <1> DEFINE a == Released(acc, t, FALSE)
  <1>1. Balanced(a) /\ a.rows = acc.rows \ {t}
    BY ReleasedFacts DEF Types
  <1>2. Call(a) /\ t \in creating /\ creating' = creating \ {t}
        /\ UNCHANGED <<man, expired, converting, releasing>>
    BY DEF Cancel
  <1> HIDE DEF a
  <1>3. Types'
    BY <1>1, <1>2, CallTypes DEF Types
  <1>4. acc'.rows = acc.rows \ {t} /\ recon'.pc = recon.pc /\ recon'.done = recon.done
    BY <1>1, <1>2, CallTypes
  <1> QED
    BY <1>2, <1>3, <1>4 DEF Shape, SessionBacked, Uploading

LEMMA ConvertCore ==
  ASSUME Core, NEW t \in Sessions
  PROVE  /\ Convert(t) => Core'
         /\ ConvertFails(t) => Core'
  <1> USE DEF Core
  <1>1. SUFFICES ASSUME Convert(t) \/ ConvertFails(t) PROVE Core'
    OBVIOUS
  <1>2. PICK a \in {acc, Converted(acc, t)} : Call(a)
    BY <1>1 DEF Convert, ConvertFails
  <1>3. Balanced(a) /\ acc.rows \ {t} \subseteq a.rows
    BY ConvertedFacts DEF Types
  <1>4. /\ converting[t] > 0
        /\ \E n \in 0..Tries : n <= converting[t] /\ converting' = [converting EXCEPT ![t] = n]
        /\ UNCHANGED <<man, expired, creating, releasing>>
    <2>1. converting[t] \in 0..Tries /\ Tries \in Nat
      BY OccupancyAssumption DEF Types
    <2> QED
      BY <1>1, <2>1 DEF Convert, ConvertFails
  <1>5. Types'
    BY <1>2, <1>3, <1>4, CallTypes DEF Types
  <1>6. acc' = a /\ recon'.pc = recon.pc /\ recon'.done = recon.done
    BY <1>2, <1>3, CallTypes
  <1>7. \A s \in Sessions : converting'[s] > 0 => converting[s] > 0
    BY <1>4 DEF Types
  <1>8. man[t] \in {"complete", "consumed"}
    BY <1>4 DEF Shape
  <1> QED
    BY <1>3, <1>4, <1>5, <1>6, <1>7, <1>8 DEF Shape, SessionBacked, Uploading

LEMMA ReleaseCore ==
  ASSUME Core, NEW t \in Sessions, Release(t)
  PROVE  Core'
  <1> USE DEF Core
  <1> DEFINE a == Released(acc, t, releasing[t] = "complete")
  <1>1. Balanced(a) /\ a.rows = acc.rows \ {t}
    BY ReleasedFacts DEF Types
  <1>2. /\ releasing[t] # "none" /\ releasing' = [releasing EXCEPT ![t] = "none"]
        /\ UNCHANGED <<man, expired, creating, converting>>
    BY DEF Release
  <1>3. man[t] = "consumed"
    BY <1>2 DEF Shape
  <1>4. CASE t \in acc.rows \/ releasing[t] = "complete"
    <2>1. Stamp(a)
      BY <1>4 DEF Release
    <2> HIDE DEF a
    <2>2. Types'
      BY <1>1, <1>2, <2>1, StampTypes DEF Types
    <2>3. acc'.rows = acc.rows \ {t} /\ recon'.pc = recon.pc /\ recon'.done = recon.done
      BY <1>1, <2>1, StampTypes
    <2> QED
      BY <1>2, <1>3, <2>2, <2>3 DEF Shape, SessionBacked, Uploading, Types
  <1>5. CASE ~(t \in acc.rows \/ releasing[t] = "complete")
    <2>1. UNCHANGED <<acc, fresh, recon>>
      BY <1>5 DEF Release
    <2> QED
      BY <1>2, <1>3, <2>1 DEF Types, Shape, SessionBacked, Uploading, Balanced
  <1> QED
    BY <1>4, <1>5

LEMMA WriteFacts ==
  ASSUME Core, ReconcileWrite
  PROVE  /\ Balanced(acc')
         /\ recon.touched => acc'.rows = acc.rows \ expired /\ acc'.used = acc.used
         /\ ~recon.touched => /\ acc'.rows = (acc.rows \ recon.done) \ expired
                              /\ acc'.used = Held(recon.done)
         /\ recon.pc = "scan" /\ recon.todo = {}
         /\ Releasing # {} => "release" \in Slow
         /\ recon' = NoRecon
         /\ UNCHANGED <<man, fresh, expired, creating, converting, releasing>>
  <1>1. acc \in Account /\ Balanced(acc) /\ recon.done \in SUBSET Sessions
    BY DEF Core, Types, Balanced
  <1>2. /\ recon.pc = "scan" /\ recon.todo = {}
        /\ Releasing # {} => "release" \in Slow
        /\ acc' = IF recon.touched THEN Refreshed(acc, expired)
                  ELSE Reconciled(acc, recon.done, expired)
        /\ recon' = NoRecon
        /\ UNCHANGED <<man, fresh, expired, creating, converting, releasing>>
    BY DEF ReconcileWrite, jobs
  <1>3. CASE recon.touched
    <2>1. /\ Balanced(Refreshed(acc, expired))
          /\ Refreshed(acc, expired).rows = acc.rows \ expired
          /\ Refreshed(acc, expired).used = acc.used
      BY <1>1, RefreshedFacts
    <2> QED
      BY <1>2, <1>3, <2>1
  <1>4. CASE ~recon.touched
    <2>1. /\ Balanced(Reconciled(acc, recon.done, expired))
          /\ Reconciled(acc, recon.done, expired).rows = (acc.rows \ recon.done) \ expired
          /\ Reconciled(acc, recon.done, expired).used = Held(recon.done)
      BY <1>1, ReconciledFacts
    <2> QED
      BY <1>2, <1>4, <2>1
  <1> QED
    BY <1>3, <1>4

LEMMA WriteCore ==
  ASSUME Core, ReconcileWrite
  PROVE  Core'
  <1>1. recon' \in [pc : {"idle", "list", "scan"}, todo : SUBSET Sessions,
                    done : SUBSET Sessions, touched : BOOLEAN]
    <2>1. recon' = NoRecon
      BY WriteFacts
    <2> QED
      BY <2>1 DEF NoRecon
  <1>2. /\ Balanced(acc')
        /\ UNCHANGED <<man, fresh, expired, creating, converting, releasing>>
        /\ recon'.done = {}
    BY WriteFacts DEF NoRecon
  <1>3. Types'
    BY <1>1, <1>2 DEF Core, Types
  <1>4. \A t \in Sessions : man[t] \in {"none", "uploading"} /\ t \in acc.rows /\ t \notin expired
                              => t \in acc'.rows
    BY WriteFacts DEF Core, Shape
  <1> QED
    BY <1>2, <1>3, <1>4 DEF Core, Types, Shape, SessionBacked, Uploading

LEMMA StepCore == Core /\ [Next]_vars => Core'
  <1> SUFFICES ASSUME Core, [Next]_vars PROVE Core'
    OBVIOUS
  <1>1. ASSUME NEW t \in Sessions, User(t) \/ Handler(t) \/ Expire(t) \/ RemoveStale(t) PROVE Core'
    BY <1>1, QuietCore, ReserveCore, CancelCore, ConvertCore, ReleaseCore DEF User, Handler
  <1>2. CASE ReconcileClock \/ ReconcileAbort \/ Tick \/ UNCHANGED vars
    BY <1>2, ClockCore
  <1>3. CASE ReconcileStep
    BY <1>3, ClockCore, QuietCore, WriteCore DEF ReconcileStep
  <1> QED
    BY <1>1, <1>2, <1>3 DEF Next

-----------------------------------------------------------------------------
(* The second half, for prompt conversions and releases.                      *)

LEMMA ChargedSet ==
  ASSUME Types
  PROVE  Charged \in SUBSET Sessions /\ acc \in Account /\ acc.used \in Nat
         /\ acc.rows \in SUBSET Sessions
  BY DEF Types, Charged, Complete, Balanced, Account

\* A step that charges nothing new and grants nothing.
LEMMA NothingMore ==
  ASSUME Types, Types', Backed, Fits,
         Charged' \ acc'.rows \subseteq Charged \ acc.rows,
         acc'.rows \subseteq acc.rows, acc'.used = acc.used
  PROVE  Backed' /\ Fits'
  <1>1. /\ Charged \ acc.rows \in SUBSET Sessions /\ acc.used \in Nat
        /\ acc.rows \in SUBSET Sessions
    BY ChargedSet
  <1>2. Held(Charged' \ acc'.rows) <= Held(Charged \ acc.rows) /\ Held(acc'.rows) <= Held(acc.rows)
    BY <1>1, HeldSubset
  <1>3. /\ Held(Charged \ acc.rows) \in Nat /\ Held(acc.rows) \in Nat
        /\ Held(Charged' \ acc'.rows) \in Nat /\ Held(acc'.rows) \in Nat
    BY <1>1, HeldType
  <1>4. Held(Charged' \ acc'.rows) <= acc.used
    BY <1>1, <1>2, <1>3 DEF Backed
  <1>5. acc.used + Held(acc'.rows) <= Limit
    BY <1>1, <1>2, <1>3, LedgerAssumption DEF Fits
  <1> QED
    BY <1>4, <1>5 DEF Backed, Fits

LEMMA QuietAnswers ==
  ASSUME Prompt, Core, Core', Answers, NEW t \in Sessions
  PROVE  /\ Create(t) => Answers'
         /\ InitiateDies(t) => Answers'
         /\ Expire(t) => Answers'
         /\ Finalise(t) => Answers'
         /\ Latch(t) => Answers'
         /\ ReleaseLost(t) => Answers'
         /\ RemoveStale(t) => Answers'
         /\ ReconcileRead(t) => Answers'
  <1> USE DEF Answers
  <1>0. ASSUME acc' = acc, Open', Kept', Missed', Charged' \ acc.rows \subseteq Charged \ acc.rows
        PROVE  Answers'
    BY <1>0, NothingMore DEF Core
  <1>1. ASSUME Create(t) PROVE Answers'
    BY <1>0, <1>1 DEF Create, Core, Types, Shape, Charged, Complete, Converting, Open, Kept, Missed
  <1>2. ASSUME InitiateDies(t) PROVE Answers'
    BY <1>0, <1>2 DEF InitiateDies, Charged, Complete, Converting, Open, Kept, Missed
  <1>3. ASSUME Expire(t) PROVE Answers'
    BY <1>0, <1>3 DEF Prompt, Expire, jobs, Charged, Complete, Converting, Open, Kept, Missed
  <1>4. ASSUME Finalise(t) PROVE Answers'
    <2>1. t \in acc.rows /\ t \notin expired
      BY <1>4 DEF Core, SessionBacked, Uploading, Finalise
    <2>2. /\ man' = [man EXCEPT ![t] = "complete"] /\ converting' = [converting EXCEPT ![t] = Tries]
          /\ UNCHANGED <<acc, fresh, expired, creating, releasing, recon>>
      BY <1>4 DEF Finalise
    <2>3. Complete' = Complete \cup {t} /\ converting'[t] > 0
          /\ \A s \in Sessions : converting[s] > 0 => converting'[s] > 0
      BY <2>2, OccupancyAssumption DEF Core, Types, Complete
    <2>4. Open' /\ Kept' /\ Missed' /\ Charged' \ acc.rows \subseteq Charged \ acc.rows
      BY <2>1, <2>2, <2>3 DEF Core, Types, Charged, Converting, Open, Kept, Missed, Complete
    <2> QED
      BY <1>0, <2>2, <2>4
  <1>5. ASSUME Latch(t) PROVE Answers'
    BY <1>0, <1>5 DEF Latch, Core, Types, Charged, Complete, Converting, Open, Kept, Missed
  <1>6. ASSUME ReleaseLost(t) PROVE Answers'
    BY <1>0, <1>6 DEF ReleaseLost, Core, Types, Charged, Complete, Converting, Open, Kept, Missed
  <1>7. ASSUME RemoveStale(t) PROVE Answers'
    BY <1>0, <1>7 DEF RemoveStale, jobs, Core, Types, Charged, Complete, Converting, Open, Kept, Missed
  <1>8. ASSUME ReconcileRead(t) PROVE Answers'
    BY <1>0, <1>8 DEF ReconcileRead, jobs, Core, Types, Charged, Complete, Converting, Open, Kept, Missed
  <1> QED
    BY <1>1, <1>2, <1>3, <1>4, <1>5, <1>6, <1>7, <1>8

LEMMA ClockAnswers ==
  ASSUME Core, Core', Answers
  PROVE  /\ ReconcileClock => Answers'
         /\ ReconcileList => Answers'
         /\ ReconcileAbort => Answers'
         /\ Tick => Answers'
         /\ UNCHANGED vars => Answers'
  <1> USE DEF Answers
  <1>0. ASSUME acc' = acc, Open', Kept', Missed', Charged' \ acc.rows \subseteq Charged \ acc.rows
        PROVE  Answers'
    BY <1>0, NothingMore DEF Core
  <1>1. ASSUME ReconcileClock PROVE Answers'
    BY <1>0, <1>1 DEF ReconcileClock, jobs, Core, Types, Shape, Charged, Complete, Converting, Open, Kept, Missed
  <1>2. ASSUME ReconcileList PROVE Answers'
    BY <1>0, <1>2 DEF ReconcileList, jobs, Core, Types, Shape, Charged, Complete, Converting, Open, Kept, Missed
  <1>3. ASSUME ReconcileAbort PROVE Answers'
    BY <1>0, <1>3 DEF ReconcileAbort, NoRecon, jobs, Core, Types, Shape, Charged, Complete, Converting, Open, Kept, Missed
  <1>4. ASSUME Tick PROVE Answers'
    BY <1>0, <1>4 DEF Tick, jobs, Charged, Complete, Converting, Open, Kept, Missed
  <1>5. ASSUME UNCHANGED vars PROVE Answers'
    BY <1>0, <1>5 DEF vars, Charged, Complete, Converting, Open, Kept, Missed
  <1> QED
    BY <1>1, <1>2, <1>3, <1>4, <1>5

\* A charged reservation is never dropped for having expired.
LEMMA KeptIsOpen ==
  ASSUME Core, Answers
  PROVE  \A t \in Charged \cap acc.rows : t \notin expired
  BY DEF Core, Types, Balanced, Account, Answers, Kept, Open, Converting

LEMMA ReserveAnswers ==
  ASSUME Core, Core', Answers, NEW t \in Sessions
  PROVE  /\ Reserve(t) => Answers'
         /\ ReserveRefused(t) => Answers'
  <1> USE DEF Answers
  <1> DEFINE a == Reserved(acc, t, expired)
             code == ReserveCode(acc, t, expired)
  <1>1. /\ Balanced(a) /\ a.used = acc.used
        /\ code = "ok" => a.rows = (acc.rows \ expired) \cup {t} /\ acc.used + Held(a.rows) <= Limit
        /\ code \in {"too_many_in_flight", "quota_exceeded"} => a.rows = acc.rows \ expired
    BY ReservedFacts DEF Core, Types
  <1>2. \A s \in Charged \cap acc.rows : s \notin expired
    BY KeptIsOpen
  <1>3. ASSUME Reserve(t) PROVE Answers'
    <2>1. /\ Stamp(a) /\ code = "ok" /\ man[t] = "none"
          /\ UNCHANGED <<man, expired, converting, releasing>>
      BY <1>3 DEF Reserve
    <2> HIDE DEF a, code
    <2>2. /\ acc'.rows = (acc.rows \ expired) \cup {t} /\ acc'.used = acc.used
          /\ recon'.pc = recon.pc /\ recon'.done = recon.done /\ recon'.todo = recon.todo
          /\ recon'.touched = (recon.pc # "idle")
      BY <1>1, <2>1, StampTypes DEF Core
    <2>3. Fits'
      BY <1>1, <2>1, <2>2, StampTypes DEF Core, Fits
    <2>4. Charged' \subseteq Charged /\ t \notin Charged'
      BY <2>1, <2>2 DEF Core, Types, Shape, Charged, Complete
    <2>5. Kept' /\ Open'
      BY <2>1, <2>2, <2>4 DEF Kept, Open, Converting
    <2>6. Missed'
      BY <2>2 DEF Missed
    <2>7. Charged' \ acc'.rows \subseteq Charged \ acc.rows
      BY <1>2, <2>2, <2>4
    <2>8. Backed'
      <3>1. Charged \ acc.rows \in SUBSET Sessions /\ acc.used \in Nat
        BY ChargedSet DEF Core
      <3>2. Held(Charged' \ acc'.rows) <= Held(Charged \ acc.rows)
        BY <2>7, <3>1, HeldSubset
      <3>3. Held(Charged \ acc.rows) \in Nat /\ Held(Charged' \ acc'.rows) \in Nat
        BY <2>7, <3>1, HeldType
      <3> QED
        BY <2>2, <3>1, <3>2, <3>3 DEF Backed
    <2> QED
      BY <2>3, <2>5, <2>6, <2>8
  <1>4. ASSUME ReserveRefused(t) PROVE Answers'
    <2>1. acc' = a /\ code \in {"too_many_in_flight", "quota_exceeded"}
          /\ UNCHANGED <<man, fresh, expired, creating, converting, releasing, recon>>
      BY <1>4 DEF ReserveRefused, jobs
    <2> HIDE DEF a, code
    <2>2. acc'.rows = acc.rows \ expired /\ acc'.used = acc.used
      BY <1>1, <2>1
    <2>3. Charged' = Charged
      BY <2>1 DEF Charged, Complete
    <2>4. Charged' \ acc'.rows \subseteq Charged \ acc.rows
      BY <1>2, <2>2, <2>3
    <2>5. Backed' /\ Fits'
      BY <2>2, <2>4, NothingMore DEF Core
    <2>6. Kept' /\ Open'
      BY <2>1, <2>2, <2>3 DEF Kept, Open, Converting
    <2>7. Missed'
      BY <2>1, <2>2 DEF Missed, Open, Complete, Converting
    <2> QED
      BY <2>5, <2>6, <2>7
  <1> QED
    BY <1>3, <1>4

LEMMA CancelAnswers ==
  ASSUME Core, Core', Answers, NEW t \in Sessions, Cancel(t)
  PROVE  Answers'
  <1> USE DEF Answers
  <1> DEFINE a == Released(acc, t, FALSE)
  <1>1. Balanced(a) /\ a.rows = acc.rows \ {t} /\ a.used = acc.used
    BY ReleasedFacts DEF Core, Types
  <1>2. Call(a) /\ t \in creating /\ UNCHANGED <<man, expired, converting, releasing>>
    BY DEF Cancel
  <1> HIDE DEF a
  <1>3. t \in acc.rows /\ man[t] = "none"
    BY <1>2 DEF Core, Shape
  <1>4. /\ acc'.rows = acc.rows \ {t} /\ acc'.used = acc.used
        /\ recon'.pc = recon.pc /\ recon'.done = recon.done /\ recon'.todo = recon.todo
        /\ recon'.touched = (recon.pc # "idle")
    BY <1>1, <1>2, <1>3, CallTypes DEF Core
  <1>5. Charged' \subseteq Charged /\ t \notin Charged
    BY <1>2, <1>3, <1>4 DEF Core, Types, Shape, Charged, Complete
  <1>6. Backed' /\ Fits'
    BY <1>4, <1>5, NothingMore DEF Core
  <1>7. Kept' /\ Open' /\ Missed'
    BY <1>2, <1>4, <1>5 DEF Kept, Open, Missed, Converting
  <1> QED
    BY <1>6, <1>7

\* The conversion moves one transfer from the reservations to used_chunks.
LEMMA MovedAnswers ==
  ASSUME Core, Core', Answers, NEW t \in acc.rows, Stamp(Converted(acc, t)),
         UNCHANGED <<man, expired, creating, releasing>>,
         \A s \in Sessions : s # t => converting'[s] = converting[s],
         converting'[t] <= converting[t]
  PROVE  Answers'
  <1> USE DEF Answers
  <1> DEFINE a == Converted(acc, t)
             S == Charged \ acc.rows
  <1>0. /\ t \in Sessions /\ S \in SUBSET Sessions /\ acc.used \in Nat /\ t \notin S
        /\ acc.rows \in SUBSET Sessions /\ Chunks[t] \in Nat
    BY ChargedSet, LedgerAssumption DEF Core
  <1>1. Balanced(a) /\ a.rows = acc.rows \ {t} /\ a.used = acc.used + Chunks[t]
    BY <1>0, ConvertedFacts DEF Core, Types
  <1>2. Stamp(a)
    OBVIOUS
  <1> HIDE DEF a
  <1>3. /\ acc'.rows = acc.rows \ {t} /\ acc'.used = acc.used + Chunks[t]
        /\ recon'.pc = recon.pc /\ recon'.done = recon.done /\ recon'.todo = recon.todo
        /\ recon'.touched = (recon.pc # "idle")
    BY <1>1, <1>2, StampTypes DEF Core
  <1>4. Charged' \subseteq Charged
    BY <1>3 DEF Core, Shape, Charged, Complete
  <1>5. Charged' \ acc'.rows \subseteq S \cup {t}
    BY <1>3, <1>4
  <1>6. Held(Charged' \ acc'.rows) <= Held(S \cup {t}) /\ Held(S \cup {t}) = Held(S) + Chunks[t]
    BY <1>0, <1>5, HeldSubset, HeldAdd
  <1>7. /\ Held(S) \in Nat /\ Held(Charged' \ acc'.rows) \in Nat
        /\ Held(acc.rows \ {t}) \in Nat
    BY <1>0, <1>5, HeldType
  <1>8. Held(acc.rows) = Chunks[t] + Held(acc.rows \ {t})
    BY <1>0, HeldRemove
  <1>9. Backed'
    <2>1. Held(Charged' \ acc'.rows) <= Held(S) + Chunks[t] /\ Held(S) <= acc.used
      BY <1>6 DEF Backed
    <2> HIDE DEF S
    <2> QED
      BY <1>0, <1>3, <1>7, <2>1 DEF Backed
  <1>10. Fits'
    <2>1. acc.used + (Chunks[t] + Held(acc.rows \ {t})) <= Limit
      BY <1>8 DEF Fits
    <2>2. (acc.used + Chunks[t]) + Held(acc.rows \ {t}) <= Limit
      BY <1>0, <1>7, <2>1, LedgerAssumption
    <2> QED
      BY <1>3, <2>2 DEF Fits
  <1>11. Kept'
    BY <1>0, <1>3, <1>4 DEF Kept
  <1>12. Open' /\ Missed'
    BY <1>0, <1>3 DEF Core, Types, Open, Missed, Converting
  <1> QED
    BY <1>9, <1>10, <1>11, <1>12

LEMMA ConvertAnswers ==
  ASSUME Prompt, Core, Core', Answers, NEW t \in Sessions
  PROVE  /\ Convert(t) => Answers'
         /\ ConvertFails(t) => Answers'
  <1> USE DEF Answers
  <1>1. SUFFICES ASSUME Convert(t) \/ ConvertFails(t) PROVE Answers'
    OBVIOUS
  <1>2. /\ converting[t] > 0 /\ converting[t] \in Nat
        /\ UNCHANGED <<man, expired, creating, releasing>>
        /\ \A s \in Sessions : s # t => converting'[s] = converting[s]
        /\ converting'[t] <= converting[t]
    BY <1>1, OccupancyAssumption DEF Convert, ConvertFails, Core, Types
  <1>3. PICK a \in {acc, Converted(acc, t)} : Call(a) /\ (Convert(t) => a = Converted(acc, t))
    BY <1>1 DEF Convert, ConvertFails
  <1>4. CASE t \in acc.rows /\ a = Converted(acc, t)
    <2>1. Converted(acc, t) # acc
      BY <1>4, ConvertedFacts DEF Core, Types
    <2>2. Stamp(Converted(acc, t))
      BY <1>3, <1>4, <2>1 DEF Call
    <2> QED
      BY <1>2, <1>4, <2>2, MovedAnswers
  <1>5. CASE ~(t \in acc.rows /\ a = Converted(acc, t))
    <2>1. a = acc
      BY <1>5, ConvertedFacts DEF Core, Types
    <2>2. UNCHANGED <<acc, fresh, recon>>
      BY <1>3, <2>1 DEF Call
    <2>3. t \in acc.rows => converting'[t] > 0
      <3> SUFFICES ASSUME t \in acc.rows PROVE converting'[t] > 0
        OBVIOUS
      <3>1. ConvertFails(t)
        BY <1>1, <1>3, <1>5
      <3> QED
        BY <1>2, <3>1 DEF ConvertFails, Prompt, Core, Types
    <2>4. Charged' = Charged
      BY <1>2, <2>2 DEF Charged, Complete
    <2>5. Backed' /\ Fits'
      BY <2>2, <2>4, NothingMore DEF Core
    <2>6. Kept' /\ Missed'
      BY <1>2, <2>2, <2>3, <2>4 DEF Core, Types, Balanced, Account, Kept, Missed, Complete
    <2>7. Open'
      BY <1>2 DEF Core, Types, Open, Converting
    <2> QED
      BY <2>5, <2>6, <2>7
  <1> QED
    BY <1>4, <1>5

LEMMA ReleaseAnswers ==
  ASSUME Core, Core', Answers, NEW t \in Sessions, Release(t)
  PROVE  Answers'
  <1> USE DEF Answers
  <1> DEFINE a == Released(acc, t, releasing[t] = "complete")
             S == Charged \ acc.rows
  <1>0. /\ S \in SUBSET Sessions /\ acc.used \in Nat
        /\ acc.rows \in SUBSET Sessions /\ Chunks[t] \in Nat
    BY ChargedSet, LedgerAssumption DEF Core
  <1>1. /\ Balanced(a) /\ a.rows = acc.rows \ {t}
        /\ t \in acc.rows => a.used = acc.used
        /\ t \notin acc.rows /\ releasing[t] = "complete" => a.used = Clamp(acc.used - Chunks[t])
        /\ a.used <= acc.used
    <2> DEFINE complete == releasing[t] = "complete"
    <2>1. complete \in BOOLEAN /\ Balanced(acc) /\ a = Released(acc, t, complete)
      BY DEF Core, Types
    <2> HIDE DEF complete, a
    <2>2. /\ Balanced(a) /\ a.rows = acc.rows \ {t}
          /\ t \in acc.rows => a.used = acc.used
          /\ t \notin acc.rows /\ complete => a.used = Clamp(acc.used - Chunks[t])
          /\ a.used <= acc.used
      BY <2>1, ReleasedFacts
    <2> QED
      BY <2>2 DEF complete
  <1>2. /\ releasing[t] # "none" /\ releasing' = [releasing EXCEPT ![t] = "none"]
        /\ UNCHANGED <<man, expired, creating, converting>>
    BY DEF Release
  <1>3. man[t] = "consumed"
    BY <1>2 DEF Core, Shape
  <1>4. ASSUME Stamp(a)
        PROVE  /\ acc'.rows = acc.rows \ {t} /\ acc'.used = a.used
               /\ recon'.touched = (recon.pc # "idle")
               /\ recon'.pc = recon.pc /\ recon'.done = recon.done
               /\ Charged' \subseteq Charged \ {t}
               /\ Kept' /\ Open' /\ Missed'
    <2> HIDE DEF a
    <2>1. /\ acc'.rows = acc.rows \ {t} /\ acc'.used = a.used
          /\ recon'.touched = (recon.pc # "idle")
          /\ recon'.pc = recon.pc /\ recon'.done = recon.done /\ recon'.todo = recon.todo
      BY <1>1, <1>4, StampTypes DEF Core
    <2>2. Charged' \subseteq Charged \ {t}
      BY <1>2, <1>3, <2>1 DEF Core, Types, Shape, Charged, Complete
    <2>3. Kept' /\ Open' /\ Missed'
      BY <1>2, <2>1, <2>2 DEF Kept, Open, Missed, Converting
    <2> QED
      BY <2>1, <2>2, <2>3
  <1>5. CASE t \in acc.rows
    <2>1. Stamp(a)
      BY <1>5 DEF Release
    <2> HIDE DEF a
    <2>2. Backed' /\ Fits'
      BY <1>1, <1>4, <1>5, <2>1, NothingMore DEF Core
    <2> QED
      BY <1>4, <2>1, <2>2
  <1>6. CASE t \notin acc.rows /\ releasing[t] = "complete"
    <2>1. Stamp(a)
      BY <1>6 DEF Release
    <2> HIDE DEF a
    <2>2. t \in S
      BY <1>6 DEF Charged
    <2>3. Charged' \ acc'.rows \subseteq S \ {t} /\ acc'.rows = acc.rows
      BY <1>4, <1>6, <2>1
    <2> HIDE DEF S
    <2>4. Held(S) = Chunks[t] + Held(S \ {t}) /\ Held(Charged' \ acc'.rows) <= Held(S \ {t})
      BY <1>0, <2>2, <2>3, HeldRemove, HeldSubset
    <2>5. Held(S \ {t}) \in Nat /\ Held(Charged' \ acc'.rows) \in Nat /\ Held(acc.rows) \in Nat
      BY <1>0, <2>3, HeldType
    <2>6. Held(S) <= acc.used
      BY DEF Backed, S
    <2>7. acc'.used = acc.used - Chunks[t]
      BY <1>0, <1>1, <1>4, <1>6, <2>1, <2>4, <2>5, <2>6 DEF Clamp
    <2>8. Backed'
      BY <1>0, <2>4, <2>5, <2>6, <2>7 DEF Backed
    <2>9. Fits'
      BY <1>0, <2>3, <2>5, <2>7, LedgerAssumption DEF Fits
    <2> QED
      BY <1>4, <2>1, <2>8, <2>9
  <1>7. CASE t \notin acc.rows /\ releasing[t] # "complete"
    <2>1. UNCHANGED <<acc, fresh, recon>>
      BY <1>7 DEF Release
    <2>2. Charged' = Charged
      BY <1>2, <1>7, <2>1 DEF Charged, Complete, Core, Types
    <2>3. Backed' /\ Fits'
      BY <2>1, <2>2, NothingMore DEF Core
    <2>4. Kept' /\ Open' /\ Missed'
      BY <1>2, <2>1, <2>2 DEF Kept, Open, Missed, Converting, Complete
    <2> QED
      BY <2>3, <2>4
  <1> QED
    BY <1>5, <1>6, <1>7

LEMMA WriteAnswers ==
  ASSUME Prompt, Core, Core', Answers, ReconcileWrite
  PROVE  Answers'
  <1> USE DEF Answers
  <1> DEFINE done == recon.done
  <1>0. /\ Charged \in SUBSET Sessions /\ acc.used \in Nat /\ acc.rows \in SUBSET Sessions
        /\ done \in SUBSET Sessions
    BY ChargedSet DEF Core, Types
  <1>1. /\ Releasing = {} /\ recon.pc = "scan" /\ recon.todo = {} /\ recon' = NoRecon
        /\ UNCHANGED <<man, fresh, expired, creating, converting, releasing>>
    BY WriteFacts DEF Prompt
  <1>2. Charged' = Complete /\ Complete' = Complete
    BY <1>1 DEF Charged, Complete, Releasing, NoRecon
  <1>3. acc'.rows \subseteq acc.rows
    BY WriteFacts
  <1>4. Open' /\ Kept' /\ Missed'
    BY <1>1, <1>2, <1>3 DEF Open, Kept, Missed, Converting, NoRecon, Charged
  <1>5. CASE recon.touched
    <2>1. acc'.rows = acc.rows \ expired /\ acc'.used = acc.used
      BY <1>5, WriteFacts
    <2>2. Charged' \ acc'.rows \subseteq Charged \ acc.rows
      BY <1>2, <2>1, KeptIsOpen DEF Charged
    <2> QED
      BY <1>4, <2>1, <2>2, NothingMore DEF Core
  <1>6. CASE ~recon.touched
    <2>1. acc'.rows = (acc.rows \ done) \ expired /\ acc'.used = Held(done)
      BY <1>6, WriteFacts
    <2>2. Complete \ acc'.rows \subseteq done
      BY <1>1, <1>6, <2>1 DEF Missed, Open, Converting, Complete
    <2>3. Backed'
      BY <1>0, <1>2, <2>1, <2>2, HeldSubset DEF Backed
    <2>4. done \subseteq Charged
      BY <1>6 DEF Charged
    <2> DEFINE R == acc'.rows
    <2>5. /\ Held(done) = Held(done \ acc.rows) + Held(done \ (done \ acc.rows))
          /\ Held(done \ acc.rows) <= Held(Charged \ acc.rows)
      BY <1>0, <2>4, HeldSubset
    <2>6. done \ (done \ acc.rows) = done \cap acc.rows
      OBVIOUS
    <2>7. Held(done \cap acc.rows) + Held(R) = Held((done \cap acc.rows) \cup R) + Held({})
      <3>1. (done \cap acc.rows) \cap R = {}
        BY <2>1
      <3> QED
        BY <1>0, <1>3, <3>1, HeldUnion
    <2>8. Held((done \cap acc.rows) \cup R) <= Held(acc.rows)
      BY <1>0, <1>3, HeldSubset
    <2>9. /\ Held(done \ acc.rows) \in Nat /\ Held(done \cap acc.rows) \in Nat /\ Held(R) \in Nat
          /\ Held(acc.rows) \in Nat /\ Held((done \cap acc.rows) \cup R) \in Nat
          /\ Held(Charged \ acc.rows) \in Nat
      BY <1>0, <1>3, HeldType
    <2>10. Held(done \cap acc.rows) + Held(R) <= Held(acc.rows)
      BY <2>7, <2>8, <2>9, HeldEmpty
    <2>11. Held(done) = Held(done \ acc.rows) + Held(done \cap acc.rows)
      BY <2>5, <2>6
    <2>12. Held(done \ acc.rows) <= acc.used
      BY <1>0, <2>5, <2>9 DEF Backed
    <2>13. acc.used + Held(acc.rows) <= Limit
      BY DEF Fits
    <2>14. Held(done) + Held(R) <= Limit
      BY <1>0, <2>9, <2>10, <2>11, <2>12, <2>13, LedgerAssumption
    <2>15. Fits'
      BY <2>1, <2>14 DEF Fits
    <2> QED
      BY <1>4, <2>3, <2>15
  <1> QED
    BY <1>5, <1>6

LEMMA InitAnswers == Init => Answers
  <1> SUFFICES ASSUME Init PROVE Answers
    OBVIOUS
  <1>1. acc.rows = {} /\ acc.used = 0
    BY DEF Init, NewAccount
  <1>2. Charged = {} /\ Converting = {} /\ recon.pc = "idle"
    BY DEF Init, Charged, Complete, Converting, NoRecon
  <1>3. Charged \ acc.rows = {}
    BY <1>2
  <1>4. Backed /\ Fits
    BY <1>1, <1>3, HeldEmpty, LedgerAssumption DEF Backed, Fits
  <1> QED
    BY <1>1, <1>2, <1>4 DEF Answers, Open, Kept, Missed

LEMMA StepAnswers ==
  ASSUME Prompt, Core, Answers, [Next]_vars
  PROVE  Answers'
  <1>0. Core'
    BY StepCore
  <1>1. ASSUME NEW t \in Sessions, User(t) \/ Handler(t) \/ Expire(t) \/ RemoveStale(t)
        PROVE  Answers'
    BY <1>0, <1>1, QuietAnswers, ReserveAnswers, CancelAnswers, ConvertAnswers, ReleaseAnswers
       DEF User, Handler
  <1>2. CASE ReconcileClock \/ ReconcileAbort \/ Tick \/ UNCHANGED vars
    BY <1>0, <1>2, ClockAnswers
  <1>3. CASE ReconcileStep
    BY <1>0, <1>3, ClockAnswers, QuietAnswers, WriteAnswers DEF ReconcileStep
  <1> QED
    BY <1>1, <1>2, <1>3 DEF Next

\* What the account counts and reserves covers the finalised transfers, and with any other
\* transfers that have a reservation they stay within the limit.
LEMMA AnswersFit ==
  ASSUME Core, Answers, NEW U \in SUBSET acc.rows, U \cap Complete = {}
  PROVE  Covered /\ Held(Complete) + Held(U) <= Limit
  <1> DEFINE C == Complete
             R == acc.rows
  <1>1. /\ C \in SUBSET Sessions /\ U \in SUBSET Sessions /\ R \in SUBSET Sessions /\ acc.used \in Nat
        /\ Charged \in SUBSET Sessions /\ C \subseteq Charged /\ U \subseteq R /\ C \cap U = {}
    BY ChargedSet DEF Core, Complete, Charged
  <1> HIDE DEF C, R
  <1>2. Held(C) = Held(C \ R) + Held(R \cap C)
    <2>1. C \ (C \ R) = R \cap C
      OBVIOUS
    <2> QED
      BY <1>1, <2>1, HeldSubset
  <1>3. Held(C \ R) <= Held(Charged \ R)
    BY <1>1, HeldSubset
  <1>4. Held(R \cap C) + Held(U) = Held((R \cap C) \cup U) + Held({})
    <2>1. (R \cap C) \cap U = {}
      BY <1>1
    <2> QED
      BY <1>1, <2>1, HeldUnion
  <1>5. Held((R \cap C) \cup U) <= Held(R)
    BY <1>1, HeldSubset
  <1>6. /\ Held(C \ R) \in Nat /\ Held(R \cap C) \in Nat /\ Held(U) \in Nat /\ Held(R) \in Nat
        /\ Held(Charged \ R) \in Nat /\ Held((R \cap C) \cup U) \in Nat
    BY <1>1, HeldType
  <1>7. Held(C \ R) <= acc.used
    <2>1. Held(Charged \ R) <= acc.used
      BY DEF Answers, Backed, R
    <2> QED
      BY <1>1, <1>3, <1>6, <2>1
  <1>8. Held(C) <= acc.used + Held(R \cap C)
    BY <1>1, <1>2, <1>6, <1>7
  <1>9. Held(R \cap C) + Held(U) <= Held(R)
    BY <1>4, <1>5, <1>6, HeldEmpty
  <1>10. acc.used + Held(R) <= Limit
    BY DEF Answers, Fits, R
  <1>11. Held(C) + Held(U) <= Limit
    BY <1>1, <1>2, <1>6, <1>7, <1>9, <1>10, LedgerAssumption
  <1> QED
    BY <1>8, <1>11 DEF Covered, C, R

LEMMA AnswersImply ==
  ASSUME Core, Answers
  PROVE  Covered /\ HeldWithinLimit
  <1>1. Uploading \ expired \in SUBSET acc.rows /\ (Uploading \ expired) \cap Complete = {}
    BY DEF Core, SessionBacked, Uploading, Complete
  <1> QED
    BY <1>1, AnswersFit DEF HeldWithinLimit

-----------------------------------------------------------------------------
LEMMA CoreImplies == Core => TypeOK /\ ReservedMatchesRows /\ SessionBacked
  BY DEF Core, Types, Balanced, TypeOK, ReservedMatchesRows

LEMMA CoreInvariant == Spec => []Core
  BY InitCore, StepCore, PTL DEF Spec

\* Every variable keeps its type whatever calls are slow, lost or repeated; in
\* particular no meter of quota_accounts goes below zero.
THEOREM OccupancyTypes == Spec => []TypeOK
  BY CoreInvariant, CoreImplies, PTL

\* reserved_chunks is the sum of quota_reservations after every function of the
\* migration, in every order: neither an increment nor greatest(..., 0) drifts.
THEOREM ReservedIsSum == Spec => []ReservedMatchesRows
  BY CoreInvariant, CoreImplies, PTL

\* An upload whose session is open keeps its reservation until it is finalised,
\* whatever calls are slow or lost: no reconcile, release or refusal drops it.
THEOREM UploadKeepsReservation == Spec => []SessionBacked
  BY CoreInvariant, CoreImplies, PTL

LEMMA AnswersInvariant ==
  ASSUME Prompt
  PROVE  Spec => []Answers
  <1>1. Core /\ Answers /\ [Next]_vars => Answers'
    BY StepAnswers
  <1> QED
    BY <1>1, InitAnswers, CoreInvariant, PTL DEF Spec

\* As long as finalise's conversion is not lost or outlived by its session and no
\* release is overtaken by the reconcile's write, what the account counts covers
\* what R2 holds, however often the reconcile recomputes it.
THEOREM UsedCovers == ASSUME Prompt PROVE Spec => []Covered
  BY AnswersInvariant, CoreInvariant, AnswersImply, PTL

\* Under the same conditions the finalised transfers and the uploads that can
\* still finish never hold more than the account's limit.
THEOREM LimitHolds == ASSUME Prompt PROVE Spec => []HeldWithinLimit
  BY AnswersInvariant, CoreInvariant, AnswersImply, PTL

-----------------------------------------------------------------------------
(* The account implements the allowance: one number, from which a transfer is *)
(* taken once and to which it is given back once.                             *)

LEMMA StandingType == \A t : Standing(t) \in {"none", "granted", "stored", "over"}
  BY DEF Standing

\* What is granted and stored, the initiates under way included, fits in the limit.
LEMMA ChargingFits == Core /\ Answers => Held(Charging) <= Limit
  <1> SUFFICES ASSUME Core, Answers PROVE Held(Charging) <= Limit
    OBVIOUS
  <1> DEFINE U == (Uploading \ expired) \cup creating
  <1>1. Charging = Complete \cup U
    BY DEF Charging, Standing, Complete, Uploading, Core, Types, Shape
  <1>2. U \in SUBSET acc.rows /\ U \cap Complete = {}
    BY DEF Core, Types, Shape, SessionBacked, Uploading, Complete
  <1>3. Complete \in SUBSET Sessions /\ U \in SUBSET Sessions
    BY DEF Complete, Uploading, Core, Types
  <1> HIDE DEF U
  <1>4. Held(Complete) + Held(U) <= Limit
    BY <1>2, AnswersFit
  <1>5. Held(Complete) + Held(U) = Held(Complete \cup U) + Held({})
    <2>1. Complete \cap U = {}
      BY <1>2
    <2> QED
      BY <1>3, <2>1, HeldUnion
  <1>6. Held(Complete \cup U) \in Nat /\ Held({}) = 0
    BY <1>3, HeldType, HeldEmpty
  <1> QED
    BY <1>1, <1>3, <1>4, <1>5, <1>6

\* A step that changes the standing of one transfer alone is the allowance's step for it.
LEMMA MoveMaps ==
  ASSUME NEW t \in Sessions, \A s \in Sessions : s # t => Standing(s)' = Standing(s)
  PROVE  /\ Standing(t)' = Standing(t) => UNCHANGED A!avars
         /\ Standing(t) = "none" /\ Standing(t)' = "granted" /\ Held(Charging') <= Limit => A!Grant(t)
         /\ Standing(t) = "granted" /\ Standing(t)' = "none" => A!Withdraw(t)
         /\ Standing(t) = "granted" /\ Standing(t)' = "stored" => A!Store(t)
         /\ Standing(t) # "over" /\ Standing(t)' = "over" => A!End(t)
  <1> DEFINE st == [s \in Sessions |-> Standing(s)]
             n == Standing(t)'
  <1>1. st' = [st EXCEPT ![t] = n]
    OBVIOUS
  <1>2. Charging \in SUBSET Sessions /\ Charging' \in SUBSET Sessions
    BY DEF Charging
  <1>3. Charging' = IF n \in {"granted", "stored"} THEN Charging \cup {t} ELSE Charging \ {t}
    BY DEF Charging
  <1>4. t \in Charging <=> Standing(t) \in {"granted", "stored"}
    BY DEF Charging
  <1>5. /\ Held(Charging) \in Nat /\ Held(Charging') \in Nat /\ Chunks[t] \in Nat /\ Limit \in Nat
    BY <1>2, HeldType, LedgerAssumption
  <1>6. t \notin Charging => Held(Charging \cup {t}) = Held(Charging) + Chunks[t]
    BY <1>2, HeldAdd
  <1>7. t \in Charging => Held(Charging) = Chunks[t] + Held(Charging \ {t})
    BY <1>2, HeldRemove
  <1>8. t \in Charging => Charging \cup {t} = Charging
    OBVIOUS
  <1>9. t \notin Charging => Charging \ {t} = Charging
    OBVIOUS
  <1>10. st[t] = Standing(t)
    OBVIOUS
  <1>11. ASSUME n = Standing(t) PROVE UNCHANGED A!avars
    <2>1. st' = st
      BY <1>11
    <2>2. Charging' = Charging
      BY <1>3, <1>4, <1>8, <1>9, <1>11
    <2> QED
      BY <2>1, <2>2 DEF A!avars
  <1>12. ASSUME Standing(t) = "none", n = "granted", Held(Charging') <= Limit PROVE A!Grant(t)
    <2>1. Held(Charging') = Held(Charging) + Chunks[t]
      BY <1>3, <1>4, <1>6, <1>12
    <2>2. Chunks[t] <= Limit - Held(Charging) /\ Limit - Held(Charging') = (Limit - Held(Charging)) - Chunks[t]
      BY <1>5, <1>12, <2>1
    <2> QED
      BY <1>1, <1>10, <1>12, <2>2 DEF A!Grant, A!Goes
  <1>13. ASSUME Standing(t) = "granted", n = "none" PROVE A!Withdraw(t)
    <2>1. Held(Charging) = Chunks[t] + Held(Charging')
      BY <1>3, <1>4, <1>7, <1>13
    <2>2. Limit - Held(Charging') = (Limit - Held(Charging)) + Chunks[t]
      BY <1>5, <2>1
    <2> QED
      BY <1>1, <1>10, <1>13, <2>2 DEF A!Withdraw, A!Goes
  <1>14. ASSUME Standing(t) = "granted", n = "stored" PROVE A!Store(t)
    <2>1. Charging' = Charging
      BY <1>3, <1>4, <1>8, <1>14
    <2> QED
      BY <1>1, <1>10, <1>14, <2>1 DEF A!Store, A!Goes
  <1>15. ASSUME Standing(t) # "over", n = "over" PROVE A!End(t)
    <2>1. Charging' = Charging \ {t}
      BY <1>3, <1>15
    <2>2. CASE Standing(t) = "none"
      BY <1>1, <1>4, <1>9, <1>10, <1>15, <2>1, <2>2 DEF A!End, A!Goes
    <2>3. CASE Standing(t) # "none"
      <3>1. t \in Charging
        BY <1>4, <1>15, <2>3, StandingType
      <3>2. Limit - Held(Charging') = (Limit - Held(Charging)) + Chunks[t]
        BY <1>5, <1>7, <2>1, <3>1
      <3> QED
        BY <1>1, <1>10, <1>15, <2>3, <3>2 DEF A!End, A!Goes
    <2> QED
      BY <2>2, <2>3
  <1> QED
    BY <1>11, <1>12, <1>13, <1>14, <1>15

LEMMA StayMaps ==
  ASSUME UNCHANGED <<man, expired, creating>>
  PROVE  UNCHANGED A!avars
  <1>1. \A t : Standing(t)' = Standing(t)
    BY DEF Standing
  <1>2. Charging' = Charging
    BY <1>1 DEF Charging
  <1> QED
    BY <1>1, <1>2 DEF A!avars

LEMMA InitMaps == Init => A!AInit
  <1> SUFFICES ASSUME Init PROVE A!AInit
    OBVIOUS
  <1>1. \A t \in Sessions : Standing(t) = "none"
    BY DEF Init, Standing
  <1>2. Charging = {}
    BY <1>1 DEF Charging
  <1>3. Limit - Held(Charging) = Limit
    BY <1>2, HeldEmpty, LedgerAssumption
  <1> QED
    BY <1>1, <1>3 DEF A!AInit

\* The steps of one transfer: what they make of its standing, and of no other's.
LEMMA TransferMaps ==
  ASSUME Core, Answers, Core', Answers', NEW t \in Sessions,
         User(t) \/ Handler(t) \/ Expire(t) \/ RemoveStale(t)
  PROVE  A!ANext \/ UNCHANGED A!avars
  <1>10. Held(Charging') <= Limit
    <2>1. (Held(Charging) <= Limit)'
      BY ChargingFits, PTL
    <2> QED
      BY <2>1
  <1> USE DEF Core, Types
  <1>0. CASE UNCHANGED <<man, expired, creating>>
    BY <1>0, StayMaps
  <1>1. ASSUME \A s \in Sessions : s # t => Standing(s)' = Standing(s),
               \/ Standing(t)' = Standing(t) \/ (Standing(t) = "none" /\ Standing(t)' = "granted")
               \/ (Standing(t) = "granted" /\ Standing(t)' \in {"none", "stored"})
               \/ Standing(t)' = "over"
        PROVE  A!ANext \/ UNCHANGED A!avars
    <2>1. UNCHANGED A!avars \/ A!Grant(t) \/ A!Withdraw(t) \/ A!Store(t) \/ A!End(t)
      BY <1>1, <1>10, MoveMaps
    <2> QED
      BY <2>1 DEF A!ANext
  <1>2. CASE Reserve(t)
    BY <1>1, <1>2 DEF Reserve, Standing
  <1>3. CASE Create(t)
    BY <1>1, <1>3 DEF Create, Standing, Shape
  <1>4. CASE Cancel(t) \/ InitiateDies(t)
    BY <1>1, <1>4 DEF Cancel, InitiateDies, Standing, Shape
  <1>5. CASE Expire(t)
    BY <1>1, <1>5 DEF Expire, jobs, Standing
  <1>6. CASE Finalise(t)
    BY <1>1, <1>6 DEF Finalise, Standing
  <1>7. CASE Latch(t)
    BY <1>1, <1>7 DEF Latch, Standing
  <1>8. CASE RemoveStale(t)
    BY <1>1, <1>8 DEF RemoveStale, jobs, Standing
  <1>9. CASE ReserveRefused(t) \/ Convert(t) \/ ConvertFails(t) \/ Release(t) \/ ReleaseLost(t)
    BY <1>0, <1>9 DEF ReserveRefused, jobs, Convert, ConvertFails, Release, ReleaseLost
  <1> QED
    BY <1>2, <1>3, <1>4, <1>5, <1>6, <1>7, <1>8, <1>9 DEF User, Handler

LEMMA StepMaps ==
  ASSUME Core, Answers, Core', Answers', [Next]_vars
  PROVE  [A!ANext]_(A!avars)
  <1> SUFFICES A!ANext \/ UNCHANGED A!avars
    OBVIOUS
  <1>1. ASSUME NEW t \in Sessions, User(t) \/ Handler(t) \/ Expire(t) \/ RemoveStale(t)
        PROVE  A!ANext \/ UNCHANGED A!avars
    BY <1>1, TransferMaps
  <1>2. CASE ReconcileClock \/ ReconcileStep \/ ReconcileAbort \/ Tick \/ UNCHANGED vars
    <2>1. UNCHANGED <<man, expired, creating>>
      BY <1>2 DEF ReconcileClock, ReconcileStep, ReconcileList, ReconcileRead, ReconcileWrite, ReconcileAbort, Tick, jobs, vars
    <2> QED
      BY <2>1, StayMaps
  <1> QED
    BY <1>1, <1>2 DEF Next

\* Under the same conditions the account, its reservations and its reconcile implement one
\* number of chunks left: a transfer is taken from it once, when its initiate is granted,
\* and given back once, when it is over.
THEOREM AllowanceImplemented == ASSUME Prompt PROVE Spec => ImplementsAllowance
  BY AnswersInvariant, CoreInvariant, InitMaps, StepMaps, PTL DEF Spec, ImplementsAllowance, A!ASpec
=============================================================================
