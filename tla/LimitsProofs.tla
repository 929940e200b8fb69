---------------------------- MODULE LimitsProofs ----------------------------
(***************************************************************************)
(* Proofs about Attachments and RateLimiter, for any devices, slots, keys, *)
(* threads and bounds: that the table and the disk agree, and what the     *)
(* server's limits promise, the bytes a device may reserve and the calls a *)
(* key may make.  Both limits are on sums, so facts about sums come first. *)
(***************************************************************************)
EXTENDS Integers, Attachments, RateLimiter, FiniteSetTheorems, WellFoundedInduction, TLAPS

-----------------------------------------------------------------------------
(* Sums over finite sets: what SumFunctionOnSet adds up.  There is a         *)
(* function on the subsets of a finite set that satisfies the recursion of *)
(* its fold, and only one, because of any counterexamples one is minimal.  *)

\* What the fold of SumFunctionOnSet takes next.
Some(s) == CHOOSE x \in s : TRUE

\* g is the recursive function on the subsets of S that the fold is defined by.
Sums(g, f, S) ==
  g = [s \in SUBSET S |-> IF s = {} THEN 0 ELSE f[Some(s)] + g[s \ {Some(s)}]]

LEMMA SomeIsIn ==
  ASSUME NEW s, s # {}
  PROVE  Some(s) \in s
BY DEF Some

LEMMA SumIsSums ==
  ASSUME NEW f, NEW S
  PROVE  SumFunctionOnSet(f, S) = (CHOOSE g : Sums(g, f, S))[S]
BY DEF SumFunctionOnSet, FoldFunctionOnSet, MapThenFoldSet, Sums, Some

\* Of the subsets of a finite set with some property one is minimal.
LEMMA MinimalSubset ==
  ASSUME NEW S, IsFiniteSet(S), NEW P \in SUBSET (SUBSET S), P # {}
  PROVE  \E T \in P : \A U \in SUBSET T : U \in P => U = T
<1>1. IsWellFoundedOn(StrictSubsetOrdering(S), FiniteSubsetsOf(S))
  BY FS_StrictSubsetOrderingWellFounded
<1>2. FiniteSubsetsOf(S) = SUBSET S
  <2>1. \A T \in SUBSET S : IsFiniteSet(T)
    BY FS_Subset
  <2> QED BY <2>1 DEF FiniteSubsetsOf
<1>3. PICK T \in P : \A U \in P : <<U, T>> \notin StrictSubsetOrdering(S)
  BY <1>1, <1>2, WFMin
<1>4. \A U \in SUBSET T : U \in P => U = T
  BY <1>3 DEF StrictSubsetOrdering
<1> QED BY <1>4

LEMMA SumsAreUnique ==
  ASSUME NEW f, NEW S, IsFiniteSet(S), NEW g, NEW h, Sums(g, f, S), Sums(h, f, S)
  PROVE  g = h
<1> DEFINE P == {T \in SUBSET S : g[T] # h[T]}
<1>1. P = {}
  <2> SUFFICES ASSUME P # {} PROVE FALSE
    OBVIOUS
  <2>1. PICK T \in P : \A U \in SUBSET T : U \in P => U = T
    <3>1. P \in SUBSET (SUBSET S)
      OBVIOUS
    <3> HIDE DEF P
    <3> QED BY <3>1, MinimalSubset
  <2>2. g[T] = IF T = {} THEN 0 ELSE f[Some(T)] + g[T \ {Some(T)}]
    BY DEF Sums
  <2>3. h[T] = IF T = {} THEN 0 ELSE f[Some(T)] + h[T \ {Some(T)}]
    BY DEF Sums
  <2>4. CASE T = {}
    BY <2>2, <2>3, <2>4
  <2>5. CASE T # {}
    <3>1. T \ {Some(T)} # T /\ T \ {Some(T)} \in SUBSET T
      BY <2>5, SomeIsIn
    <3>2. g[T \ {Some(T)}] = h[T \ {Some(T)}]
      BY <2>1, <3>1
    <3> QED BY <2>1, <2>2, <2>3, <3>2
  <2> QED BY <2>4, <2>5
<1>2. DOMAIN g = SUBSET S /\ DOMAIN h = SUBSET S
  BY DEF Sums
<1>3. g = [s \in SUBSET S |-> g[s]] /\ h = [s \in SUBSET S |-> h[s]]
  BY DEF Sums
<1> QED BY <1>1, <1>3

LEMMA SumsRestrict ==
  ASSUME NEW f, NEW S, NEW T \in SUBSET S, NEW g, Sums(g, f, S)
  PROVE  Sums([s \in SUBSET T |-> g[s]], f, T)
<1> DEFINE r == [s \in SUBSET T |-> g[s]]
<1>1. \A s \in SUBSET T : r[s] = IF s = {} THEN 0 ELSE f[Some(s)] + r[s \ {Some(s)}]
  <2> TAKE s \in SUBSET T
  <2>1. r[s] = IF s = {} THEN 0 ELSE f[Some(s)] + g[s \ {Some(s)}]
    BY DEF Sums
  <2>2. r[s \ {Some(s)}] = g[s \ {Some(s)}]
    OBVIOUS
  <2> QED BY <2>1, <2>2
<1>2. r = [s \in SUBSET T |-> r[s]]
  OBVIOUS
<1> HIDE DEF r
<1>3. r = [s \in SUBSET T |-> IF s = {} THEN 0 ELSE f[Some(s)] + r[s \ {Some(s)}]]
  BY <1>1, <1>2
<1>4. Sums(r, f, T)
  BY <1>3 DEF Sums
<1> QED BY <1>4 DEF r

LEMMA SumsExist ==
  ASSUME NEW f, NEW S, IsFiniteSet(S)
  PROVE  \E g : Sums(g, f, S)
<1> DEFINE P == {T \in SUBSET S : ~ \E g : Sums(g, f, T)}
<1> SUFFICES P = {}
  OBVIOUS
<1> SUFFICES ASSUME P # {} PROVE FALSE
  OBVIOUS
<1>1. PICK T \in P : \A U \in SUBSET T : U \in P => U = T
  <2>1. P \in SUBSET (SUBSET S)
    OBVIOUS
  <2> HIDE DEF P
  <2> QED BY <2>1, MinimalSubset
<1> DEFINE G(U) == CHOOSE g : Sums(g, f, U)
           rest(s) == s \ {Some(s)}
           h == [s \in SUBSET T |-> IF s = {} THEN 0 ELSE f[Some(s)] + G(rest(s))[rest(s)]]
<1>2. \A U \in SUBSET T : U # T => Sums(G(U), f, U)
  <2> TAKE U \in SUBSET T
  <2> HAVE U # T
  <2>1. \E g : Sums(g, f, U)
    BY <1>1
  <2> QED BY <2>1
<1>3. \A U \in SUBSET T : \A V \in SUBSET U : U # T => G(U)[V] = G(V)[V]
  <2> TAKE U \in SUBSET T
  <2> TAKE V \in SUBSET U
  <2> HAVE U # T
  <2> DEFINE r == [s \in SUBSET V |-> G(U)[s]]
  <2>1. Sums(G(U), f, U) /\ Sums(G(V), f, V)
    BY <1>2
  <2> HIDE DEF G
  <2>2. Sums(r, f, V)
    BY <2>1, SumsRestrict
  <2>3. IsFiniteSet(V)
    BY FS_Subset
  <2> HIDE DEF r
  <2>4. r = G(V)
    BY <2>1, <2>2, <2>3, SumsAreUnique
  <2> QED BY <2>4 DEF r
<1>4. \A s \in SUBSET T : s # {} => rest(s) \in SUBSET s /\ rest(s) # s /\ rest(s) # T
  BY SomeIsIn
<1>5. \A s \in SUBSET T : s # {} => h[rest(s)] = G(rest(s))[rest(s)]
  <2> TAKE s \in SUBSET T
  <2> HAVE s # {}
  <2> DEFINE U == rest(s)
  <2>1. U \in SUBSET T /\ U # T
    BY <1>4
  <2>2. Sums(G(U), f, U)
    BY <1>2, <2>1
  <2> HIDE DEF U, G
  <2>3. G(U)[U] = IF U = {} THEN 0 ELSE f[Some(U)] + G(U)[rest(U)]
    BY <2>2 DEF Sums
  <2>4. U # {} => G(U)[rest(U)] = G(rest(U))[rest(U)]
    BY <1>3, <1>4, <2>1
  <2>5. h[U] = IF U = {} THEN 0 ELSE f[Some(U)] + G(rest(U))[rest(U)]
    BY <2>1
  <2>6. h[U] = G(U)[U]
    BY <2>3, <2>4, <2>5
  <2> QED BY <2>6 DEF U
<1>6. h = [s \in SUBSET T |-> IF s = {} THEN 0 ELSE f[Some(s)] + h[rest(s)]]
  <2>1. \A s \in SUBSET T : h[s] = IF s = {} THEN 0 ELSE f[Some(s)] + G(rest(s))[rest(s)]
    OBVIOUS
  <2>2. h = [s \in SUBSET T |-> h[s]]
    OBVIOUS
  <2> HIDE DEF h, G, rest
  <2> QED BY <1>5, <2>1, <2>2
<1>7. Sums(h, f, T)
  BY <1>6 DEF Sums
<1> QED BY <1>1, <1>7

LEMMA SumByOne ==
  ASSUME NEW f, NEW S, IsFiniteSet(S), S # {}
  PROVE  SumFunctionOnSet(f, S) = f[Some(S)] + SumFunctionOnSet(f, S \ {Some(S)})
<1> DEFINE g == CHOOSE h : Sums(h, f, S)
           U == S \ {Some(S)}
           k == CHOOSE h : Sums(h, f, U)
<1>1. IsFiniteSet(U) /\ U \in SUBSET S
  BY FS_Subset
<1>2. Sums(g, f, S) /\ Sums(k, f, U)
  BY <1>1, SumsExist
<1>3. SumFunctionOnSet(f, S) = g[S] /\ SumFunctionOnSet(f, U) = k[U]
  BY SumIsSums
<1> HIDE DEF g, k
<1>4. g[S] = f[Some(S)] + g[U]
  BY <1>2 DEF Sums
<1> DEFINE r == [s \in SUBSET U |-> g[s]]
<1>5. Sums(r, f, U)
  <2> HIDE DEF U
  <2> QED BY <1>1, <1>2, SumsRestrict
<1>6. g[U] = k[U]
  <2> HIDE DEF r, U
  <2>1. r = k
    BY <1>1, <1>2, <1>5, SumsAreUnique
  <2>2. r[U] = g[U]
    BY DEF r
  <2> QED BY <2>1, <2>2
<1> QED BY <1>3, <1>4, <1>6

LEMMA SumOfNone ==
  ASSUME NEW f
  PROVE  SumFunctionOnSet(f, {}) = 0
<1> DEFINE g == CHOOSE h : Sums(h, f, {})
<1>1. Sums(g, f, {})
  BY SumsExist, FS_EmptySet
<1>2. SumFunctionOnSet(f, {}) = g[{}]
  BY SumIsSums
<1> HIDE DEF g
<1> QED BY <1>1, <1>2 DEF Sums

LEMMA SumIsNat ==
  ASSUME NEW f, NEW S, IsFiniteSet(S), \A x \in S : f[x] \in Nat
  PROVE  SumFunctionOnSet(f, S) \in Nat
<1> DEFINE P == {T \in SUBSET S : SumFunctionOnSet(f, T) \notin Nat}
<1> SUFFICES ASSUME P # {} PROVE FALSE
  OBVIOUS
<1>1. PICK T \in P : \A U \in SUBSET T : U \in P => U = T
  <2>1. P \in SUBSET (SUBSET S)
    OBVIOUS
  <2> HIDE DEF P
  <2> QED BY <2>1, MinimalSubset
<1>2. IsFiniteSet(T) /\ T # {}
  <2>1. SumFunctionOnSet(f, T) \notin Nat /\ T \in SUBSET S
    BY <1>1
  <2>2. SumFunctionOnSet(f, {}) \in Nat
    BY SumOfNone
  <2>3. IsFiniteSet(T)
    BY <2>1, FS_Subset
  <2> HIDE DEF P
  <2> QED BY <2>1, <2>2, <2>3
<1>3. SumFunctionOnSet(f, T) = f[Some(T)] + SumFunctionOnSet(f, T \ {Some(T)})
  BY <1>2, SumByOne
<1>4. Some(T) \in T /\ T \ {Some(T)} \in SUBSET T /\ T \ {Some(T)} # T
  BY <1>2, SomeIsIn
<1>5. SumFunctionOnSet(f, T \ {Some(T)}) \in Nat
  BY <1>1, <1>4
<1> QED BY <1>1, <1>3, <1>4, <1>5

\* The order in which a sum takes its elements does not matter.
LEMMA SumWithout ==
  ASSUME NEW f, NEW S, IsFiniteSet(S), \A x \in S : f[x] \in Nat, NEW x \in S
  PROVE  SumFunctionOnSet(f, S) = f[x] + SumFunctionOnSet(f, S \ {x})
<1> DEFINE sum(T) == SumFunctionOnSet(f, T)
           P == {T \in SUBSET S : \E z \in T : sum(T) # f[z] + sum(T \ {z})}
<1> SUFFICES ASSUME P # {} PROVE FALSE
  <2>1. S \in SUBSET S
    OBVIOUS
  <2> QED BY <2>1
<1>1. PICK T \in P : \A U \in SUBSET T : U \in P => U = T
  <2>1. P \in SUBSET (SUBSET S)
    OBVIOUS
  <2> HIDE DEF P
  <2> QED BY <2>1, MinimalSubset
<1>2. PICK z \in T : sum(T) # f[z] + sum(T \ {z})
  BY <1>1
<1>3. \A U \in SUBSET T : U # T => \A v \in U : sum(U) = f[v] + sum(U \ {v})
  BY <1>1
<1> DEFINE y == Some(T)
           both == (T \ {z}) \ {y}
<1>4. IsFiniteSet(T) /\ y \in T /\ T \in SUBSET S
  BY <1>1, <1>2, FS_Subset, SomeIsIn
<1>5. sum(T) = f[y] + sum(T \ {y})
  BY <1>2, <1>4, SumByOne
<1> HIDE DEF y
<1>6. y # z
  BY <1>2, <1>5
<1>7. sum(T \ {y}) = f[z] + sum(both)
  <2>1. T \ {y} \in SUBSET T /\ T \ {y} # T /\ z \in T \ {y}
    BY <1>4, <1>6
  <2>2. sum(T \ {y}) = f[z] + sum((T \ {y}) \ {z})
    BY <1>3, <2>1
  <2>3. (T \ {y}) \ {z} = both
    OBVIOUS
  <2> QED BY <2>2, <2>3
<1>8. sum(T \ {z}) = f[y] + sum(both)
  <2>1. T \ {z} \in SUBSET T /\ T \ {z} # T /\ y \in T \ {z}
    BY <1>4, <1>6
  <2> QED BY <1>3, <2>1
<1>9. f[z] \in Nat /\ f[y] \in Nat /\ sum(both) \in Nat
  <2>1. IsFiniteSet(both) /\ \A v \in both : f[v] \in Nat
    BY <1>4, FS_Subset
  <2> HIDE DEF both
  <2>2. sum(both) \in Nat
    BY <2>1, SumIsNat
  <2> QED BY <1>4, <2>2
<1> HIDE DEF both, sum
<1>10. sum(T) = f[z] + sum(T \ {z})
  BY <1>5, <1>7, <1>8, <1>9
<1> QED BY <1>2, <1>10

LEMMA SumWith ==
  ASSUME NEW f, NEW S, IsFiniteSet(S), \A x \in S : f[x] \in Nat,
         NEW x, x \notin S, f[x] \in Nat
  PROVE  SumFunctionOnSet(f, S \cup {x}) = SumFunctionOnSet(f, S) + f[x]
<1> DEFINE T == S \cup {x}
<1>1. /\ IsFiniteSet(T) /\ x \in T /\ T \ {x} = S
      /\ \A y \in T : f[y] \in Nat
  BY FS_AddElement
<1>2. SumFunctionOnSet(f, S) \in Nat
  BY SumIsNat
<1> HIDE DEF T
<1>3. SumFunctionOnSet(f, T) = f[x] + SumFunctionOnSet(f, S)
  BY <1>1, SumWithout
<1>4. SumFunctionOnSet(f, T) = SumFunctionOnSet(f, S) + f[x]
  BY <1>2, <1>3
<1> QED BY <1>4 DEF T

\* What a sum does not look at does not change it.
LEMMA SumOfSame ==
  ASSUME NEW f, NEW h, NEW S, IsFiniteSet(S), \A x \in S : f[x] = h[x]
  PROVE  SumFunctionOnSet(f, S) = SumFunctionOnSet(h, S)
<1> DEFINE P == {T \in SUBSET S : SumFunctionOnSet(f, T) # SumFunctionOnSet(h, T)}
<1> SUFFICES ASSUME P # {} PROVE FALSE
  <2>1. S \in SUBSET S
    OBVIOUS
  <2> QED BY <2>1
<1>1. PICK T \in P : \A U \in SUBSET T : U \in P => U = T
  <2>1. P \in SUBSET (SUBSET S)
    OBVIOUS
  <2> HIDE DEF P
  <2> QED BY <2>1, MinimalSubset
<1>2. T # {} /\ IsFiniteSet(T) /\ T \in SUBSET S
  BY <1>1, SumOfNone, FS_Subset
<1> DEFINE y == Some(T)
           U == T \ {y}
<1>3. y \in T /\ U \in SUBSET T /\ U # T
  BY <1>2, SomeIsIn
<1>4. SumFunctionOnSet(f, U) = SumFunctionOnSet(h, U)
  BY <1>1, <1>2, <1>3
<1>5. /\ SumFunctionOnSet(f, T) = f[y] + SumFunctionOnSet(f, U)
      /\ SumFunctionOnSet(h, T) = h[y] + SumFunctionOnSet(h, U)
  BY <1>2, SumByOne
<1>6. f[y] = h[y]
  BY <1>2, <1>3
<1> HIDE DEF y, U
<1> QED BY <1>1, <1>4, <1>5, <1>6

LEMMA SumOfPart ==
  ASSUME NEW f, NEW S, IsFiniteSet(S), \A x \in S : f[x] \in Nat, NEW T \in SUBSET S
  PROVE  SumFunctionOnSet(f, T) <= SumFunctionOnSet(f, S)
<1> DEFINE sum(U) == SumFunctionOnSet(f, U)
           P == {U \in SUBSET S : T \subseteq U /\ ~(sum(T) <= sum(U))}
<1> SUFFICES ASSUME P # {} PROVE FALSE
  <2>1. S \in SUBSET S
    OBVIOUS
  <2> QED BY <2>1
<1>1. PICK U \in P : \A V \in SUBSET U : V \in P => V = U
  <2>1. P \in SUBSET (SUBSET S)
    OBVIOUS
  <2> HIDE DEF P
  <2> QED BY <2>1, MinimalSubset
<1>2. sum(T) \in Nat
  <2>1. IsFiniteSet(T)
    BY FS_Subset
  <2> QED BY <2>1, SumIsNat
<1>3. T \subseteq U /\ U # T
  <2>1. T \subseteq U /\ ~(sum(T) <= sum(U))
    BY <1>1
  <2>2. sum(T) <= sum(T)
    <3> HIDE DEF sum
    <3> QED BY <1>2
  <2> HIDE DEF sum, P
  <2> QED BY <2>1, <2>2
<1>4. PICK x \in U : x \notin T
  BY <1>3
<1>5. sum(U) = f[x] + sum(U \ {x}) /\ f[x] \in Nat
  <2>1. IsFiniteSet(U)
    BY <1>1, FS_Subset
  <2> QED BY <1>1, <1>4, <2>1, SumWithout
<1>6. sum(U \ {x}) \in Nat
  <2>1. IsFiniteSet(U \ {x}) /\ \A y \in U \ {x} : f[y] \in Nat
    BY <1>1, FS_Subset
  <2> QED BY <2>1, SumIsNat
<1>7. sum(T) <= sum(U \ {x})
  <2>1. U \ {x} \in SUBSET U /\ U \ {x} # U /\ T \subseteq U \ {x} /\ U \ {x} \in SUBSET S
    BY <1>1, <1>4
  <2>2. U \ {x} \notin P
    BY <1>1, <2>1
  <2> HIDE DEF sum
  <2> QED BY <2>1, <2>2
<1> HIDE DEF sum
<1>8. sum(T) <= sum(U)
  BY <1>2, <1>5, <1>6, <1>7
<1> QED BY <1>1, <1>8

\* One more at one point is one more in the sums that count it.
LEMMA SumOfOneMore ==
  ASSUME NEW D, NEW f \in [D -> Nat], NEW h \in [D -> Nat], NEW x \in D,
         h[x] = f[x] + 1, \A y \in D : y # x => h[y] = f[y],
         NEW S \in SUBSET D, IsFiniteSet(S)
  PROVE  SumFunctionOnSet(h, S) = SumFunctionOnSet(f, S) + (IF x \in S THEN 1 ELSE 0)
<1> DEFINE R == S \ {x}
<1>1. /\ \A y \in S : f[y] \in Nat /\ h[y] \in Nat
      /\ \A y \in R : f[y] = h[y]
      /\ f[x] \in Nat
  OBVIOUS
<1>2. IsFiniteSet(R) /\ R \in SUBSET D /\ x \notin R
  BY FS_Subset
<1>3. SumFunctionOnSet(h, R) = SumFunctionOnSet(f, R)
  BY <1>1, <1>2, SumOfSame
<1>4. SumFunctionOnSet(f, R) \in Nat
  BY <1>2, SumIsNat
<1>5. CASE x \in S
  <2>1. /\ SumFunctionOnSet(h, S) = h[x] + SumFunctionOnSet(h, R)
        /\ SumFunctionOnSet(f, S) = f[x] + SumFunctionOnSet(f, R)
    BY <1>1, <1>5, SumWithout
  <2> HIDE DEF R
  <2>2. SumFunctionOnSet(h, S) = SumFunctionOnSet(f, S) + 1
    BY <1>1, <1>3, <1>4, <2>1
  <2> QED BY <1>5, <2>2
<1>6. CASE x \notin S
  <2>1. R = S
    BY <1>6
  <2>2. SumFunctionOnSet(h, S) = SumFunctionOnSet(f, S) /\ SumFunctionOnSet(f, S) \in Nat
    BY <1>3, <1>4, <2>1
  <2> QED BY <1>6, <2>2
<1> QED BY <1>5, <1>6

LEMMA SumOfZeros ==
  ASSUME NEW f, NEW S, IsFiniteSet(S), \A x \in S : f[x] = 0
  PROVE  SumFunctionOnSet(f, S) = 0
<1> DEFINE P == {T \in SUBSET S : SumFunctionOnSet(f, T) # 0}
<1> SUFFICES ASSUME P # {} PROVE FALSE
  <2>1. S \in SUBSET S
    OBVIOUS
  <2> QED BY <2>1
<1>1. PICK T \in P : \A U \in SUBSET T : U \in P => U = T
  <2>1. P \in SUBSET (SUBSET S)
    OBVIOUS
  <2> HIDE DEF P
  <2> QED BY <2>1, MinimalSubset
<1>2. T # {} /\ IsFiniteSet(T) /\ T \in SUBSET S
  BY <1>1, SumOfNone, FS_Subset
<1> DEFINE y == Some(T)
           U == T \ {y}
<1>3. y \in T /\ U \in SUBSET T /\ U # T
  BY <1>2, SomeIsIn
<1>4. SumFunctionOnSet(f, U) = 0
  BY <1>1, <1>2, <1>3
<1>5. SumFunctionOnSet(f, T) = f[y] + SumFunctionOnSet(f, U)
  BY <1>2, SumByOne
<1>6. f[y] = 0
  BY <1>2, <1>3
<1> HIDE DEF y, U
<1> QED BY <1>1, <1>4, <1>5, <1>6

-----------------------------------------------------------------------------
(* Attachments: the inductive invariant.                                   *)

\* An id is drawn once, so it has one row, and none once its file is to go.
Slots ==
  /\ \A r \in rows : r.id \in drawn
  /\ \A r, s \in rows : r.id = s.id => r = s
  /\ unlinking \subseteq drawn
  /\ \A id \in unlinking, r \in rows : r.id # id

\* An inode that is being written is under one name, and no blob's.
Apart ==
  /\ \A x, y \in Ids : part[x] # NoFile => part[x] # blob[y]
  /\ \A x, y \in Ids : part[x] # NoFile /\ x # y => part[x] # part[y]

\* An upload has its file open once it is past "open".
HasOpened == \A u \in uploads : u.at # "open" => u.inode \in Inodes

\* An upload that no other has met is the only one of its id and the first, and
\* the file it writes is there under the name its step expects.
Undisturbed(u) ==
  /\ u.id \in drawn
  /\ \A v \in uploads : v.id = u.id => v = u
  /\ \A r \in rows : r.id = u.id => ~r.uploaded
  /\ u.at \in {"write", "rename"} => part[u.id] = u.inode
  /\ u.at = "rename" => u.inode \in whole
  /\ u.at = "mark" /\ RowsOf(u.id) # {} => blob[u.id] \in whole

Uploading == \A u \in uploads : u.id \notin contended => Undisturbed(u)

\* Before the first crash a half-written file has its writer, and a blob has a
\* row, or someone who will give it one or remove it.
Writers ==
  crashes = 0 => \A id \in Ids :
    part[id] # NoFile => \E u \in uploads : u.id = id /\ u.at \in {"write", "rename"}

BlobsAreOwned ==
  crashes = 0 => \A id \in Ids :
    blob[id] # NoFile =>
      \/ \E r \in rows : r.id = id
      \/ id \in unlinking
      \/ \E u \in uploads : u.id = id /\ u.at = "mark"

IInv ==
  /\ TypeOK
  /\ Slots
  /\ Apart
  /\ HasOpened
  /\ Uploading
  /\ UploadedIsThere
  /\ Writers
  /\ BlobsAreOwned

LEMMA InitInvariant == Init => IInv
<1> SUFFICES ASSUME Init PROVE IInv
  OBVIOUS
<1> USE DEF Init
<1>1. TypeOK
  BY DEF TypeOK
<1>2. Slots /\ Apart /\ HasOpened
  BY DEF Slots, Apart, HasOpened
<1>3. Uploading /\ UploadedIsThere /\ Writers /\ BlobsAreOwned
  BY DEF Uploading, UploadedIsThere, Writers, BlobsAreOwned
<1> QED BY <1>1, <1>2, <1>3 DEF IInv

-----------------------------------------------------------------------------
(* Steps on the table.                                                     *)

\* Rows and uploads go, and nothing else changes but unlinking.
LEMMA FewerRows ==
  ASSUME IInv, rows' \subseteq rows, UNCHANGED <<drawn, part, whole, contended>>,
         uploads' \subseteq uploads,
         UNCHANGED blob \/ \E id \in Ids : /\ blob' = [blob EXCEPT ![id] = NoFile]
                                           /\ \A r \in rows' : r.id # id
  PROVE  /\ Apart' /\ HasOpened' /\ Uploading' /\ UploadedIsThere'
         /\ \A r \in rows' : r.id \in drawn'
         /\ \A r, s \in rows' : r.id = s.id => r = s
<1>1. TypeOK /\ Slots /\ Apart /\ HasOpened /\ Uploading /\ UploadedIsThere
  BY DEF IInv
<1>2. \A r \in rows' : blob'[r.id] = blob[r.id]
  BY <1>1 DEF TypeOK, Row
<1>3. \A id \in Ids : blob'[id] \in {blob[id], NoFile}
  BY <1>1 DEF TypeOK
<1>4. Apart'
  BY <1>1, <1>3 DEF Apart
<1>5. HasOpened'
  BY <1>1 DEF HasOpened
<1>6. UploadedIsThere'
  BY <1>1, <1>2 DEF UploadedIsThere
<1>7. Uploading'
  <2> SUFFICES ASSUME NEW u \in uploads', u.id \notin contended PROVE Undisturbed(u)'
    BY DEF Uploading
  <2>1. Undisturbed(u)
    BY <1>1 DEF Uploading
  <2>2. ASSUME u.at = "mark", RowsOf(u.id)' # {} PROVE blob'[u.id] \in whole'
    <3>1. PICK r \in rows' : r.id = u.id
      BY <2>2 DEF RowsOf
    <3>2. RowsOf(u.id) # {}
      BY <3>1 DEF RowsOf
    <3> QED BY <1>2, <2>1, <2>2, <3>1, <3>2 DEF Undisturbed
  <2> QED BY <2>1, <2>2 DEF Undisturbed
<1>8. /\ \A r \in rows' : r.id \in drawn'
      /\ \A r, s \in rows' : r.id = s.id => r = s
  BY <1>1 DEF Slots
<1> QED BY <1>4, <1>5, <1>6, <1>7, <1>8

LEMMA CreateStep ==
  ASSUME IInv, NEW o \in Owners, NEW id \in Ids, NEW size \in Sizes, Create(o, id, size)
  PROVE  IInv'
<1> DEFINE r == [id |-> id, owner |-> o, size |-> size,
                 expires |-> now + Ttl, uploaded |-> FALSE]
<1>1. TypeOK /\ Slots /\ Apart /\ HasOpened /\ Uploading /\ UploadedIsThere
      /\ Writers /\ BlobsAreOwned
  BY DEF IInv
<1>2. /\ rows' = rows \cup {r} /\ drawn' = drawn \cup {id} /\ id \notin drawn
      /\ UNCHANGED <<owners, blob, part, whole, uploads, unlinking, now,
                     contended, tries, crashes>>
  BY DEF Create, files, ghosts
<1>3. r \in Row
  <2>1. now + Ttl \in Nat
    BY <1>1, AttachmentsAssumption DEF TypeOK
  <2> QED BY <2>1 DEF Row
<1>4. TypeOK'
  BY <1>1, <1>2, <1>3 DEF TypeOK
<1>5. Slots'
  <2>1. r.id = id /\ \A s \in rows : s.id # id
    BY <1>1, <1>2 DEF Slots
  <2>2. id \notin unlinking
    BY <1>1, <1>2 DEF Slots
  <2> HIDE DEF r
  <2> QED BY <1>1, <1>2, <2>1, <2>2 DEF Slots
<1>6. Apart' /\ HasOpened' /\ Writers' /\ BlobsAreOwned'
  BY <1>1, <1>2 DEF Apart, HasOpened, Writers, BlobsAreOwned
<1>7. UploadedIsThere'
  BY <1>1, <1>2 DEF UploadedIsThere
<1>8. Uploading'
  <2> SUFFICES ASSUME NEW u \in uploads, u.id \notin contended PROVE Undisturbed(u)'
    BY <1>2 DEF Uploading
  <2>1. Undisturbed(u) /\ u.id # id
    BY <1>1, <1>2 DEF Uploading, Undisturbed
  <2>2. RowsOf(u.id)' = RowsOf(u.id)
    BY <1>2, <2>1 DEF RowsOf
  <2> QED BY <1>2, <2>1, <2>2 DEF Undisturbed
<1> QED BY <1>4, <1>5, <1>6, <1>7, <1>8 DEF IInv

LEMMA DeleteStep ==
  ASSUME IInv, NEW id \in Ids, Delete(id)
  PROVE  IInv'
<1>1. TypeOK /\ Slots /\ Writers /\ BlobsAreOwned
  BY DEF IInv
<1>2. /\ rows' = rows \ RowsOf(id) /\ blob' = [blob EXCEPT ![id] = NoFile]
      /\ UNCHANGED <<owners, drawn, part, whole, uploads, unlinking, now,
                     contended, tries, crashes>>
  BY DEF Delete, ghosts
<1>3. \A r \in rows' : r.id # id
  BY <1>2 DEF RowsOf
<1>4. TypeOK'
  BY <1>1, <1>2 DEF TypeOK
<1>5. /\ Apart' /\ HasOpened' /\ Uploading' /\ UploadedIsThere'
      /\ \A r \in rows' : r.id \in drawn'
      /\ \A r, s \in rows' : r.id = s.id => r = s
  <2>1. rows' \subseteq rows /\ uploads' \subseteq uploads
    BY <1>2
  <2> QED BY <1>2, <1>3, <2>1, FewerRows
<1>6. Slots' /\ Writers'
  BY <1>1, <1>2, <1>5 DEF Slots, Writers
<1>7. BlobsAreOwned'
  <2> SUFFICES ASSUME crashes = 0, NEW x \in Ids, blob'[x] # NoFile
               PROVE  \/ \E r \in rows' : r.id = x
                      \/ x \in unlinking
                      \/ \E u \in uploads : u.id = x /\ u.at = "mark"
    BY <1>2 DEF BlobsAreOwned
  <2>1. x # id /\ blob[x] # NoFile
    BY <1>1, <1>2 DEF TypeOK
  <2>2. \A r \in rows : r.id = x => r \in rows'
    BY <1>2, <2>1 DEF RowsOf
  <2> QED BY <1>1, <2>1, <2>2 DEF BlobsAreOwned
<1> QED BY <1>4, <1>5, <1>6, <1>7 DEF IInv

LEMMA UnlinkStep ==
  ASSUME IInv, NEW id \in Ids, Unlink(id)
  PROVE  IInv'
<1>1. TypeOK /\ Slots /\ Writers /\ BlobsAreOwned
  BY DEF IInv
<1>2. /\ unlinking' = unlinking \ {id} /\ blob' = [blob EXCEPT ![id] = NoFile]
      /\ id \in unlinking
      /\ UNCHANGED <<owners, rows, drawn, part, whole, uploads, now,
                     contended, tries, crashes>>
  BY DEF Unlink, table, ghosts
<1>3. TypeOK'
  BY <1>1, <1>2 DEF TypeOK
<1>4. /\ Apart' /\ HasOpened' /\ Uploading' /\ UploadedIsThere'
  <2>1. /\ rows' \subseteq rows /\ uploads' \subseteq uploads
        /\ \A r \in rows' : r.id # id
    BY <1>1, <1>2 DEF Slots
  <2> QED BY <1>2, <2>1, FewerRows
<1>5. Slots' /\ Writers'
  BY <1>1, <1>2 DEF Slots, Writers
<1>6. BlobsAreOwned'
  <2>1. \A x \in Ids : blob'[x] # NoFile => x # id /\ blob[x] # NoFile
    BY <1>1, <1>2 DEF TypeOK
  <2> QED BY <1>1, <1>2, <2>1 DEF BlobsAreOwned
<1> QED BY <1>3, <1>4, <1>5, <1>6 DEF IInv

\* Rows are deleted and their ids kept for the loop that removes the files.
LEMMA ReapStep ==
  ASSUME IInv, NEW gone \in SUBSET rows, rows' = rows \ gone,
         unlinking' = unlinking \cup IdsOf(gone), owners' \subseteq owners,
         UNCHANGED <<drawn, blob, part, whole, uploads, now, contended, tries, crashes>>
  PROVE  IInv'
<1>1. TypeOK /\ Slots /\ Writers /\ BlobsAreOwned
  BY DEF IInv
<1>2. \A r \in gone : r.id \in IdsOf(gone)
  BY DEF IdsOf
<1>3. \A id \in IdsOf(gone) : \E r \in gone : r.id = id
  BY DEF IdsOf
<1>4. IdsOf(gone) \subseteq Ids
  BY <1>1, <1>3 DEF TypeOK, Row
<1>5. TypeOK'
  BY <1>1, <1>4 DEF TypeOK
<1>6. /\ Apart' /\ HasOpened' /\ Uploading' /\ UploadedIsThere'
      /\ \A r \in rows' : r.id \in drawn'
      /\ \A r, s \in rows' : r.id = s.id => r = s
  <2>1. rows' \subseteq rows /\ uploads' \subseteq uploads
    OBVIOUS
  <2> QED BY <2>1, FewerRows
<1>7. Slots'
  <2>1. unlinking' \subseteq drawn'
    BY <1>1, <1>3 DEF Slots
  <2>2. \A id \in unlinking', r \in rows' : r.id # id
    BY <1>1, <1>3 DEF Slots
  <2> QED BY <1>6, <2>1, <2>2 DEF Slots
<1>8. Writers' /\ BlobsAreOwned'
  BY <1>1, <1>2 DEF Writers, BlobsAreOwned
<1> QED BY <1>5, <1>6, <1>7, <1>8 DEF IInv

LEMMA CrashStep ==
  ASSUME IInv, Crash
  PROVE  IInv'
<1>1. TypeOK /\ Slots
  BY DEF IInv
<1>2. /\ rows' = rows \ Expired /\ unlinking' = IdsOf(Expired) /\ uploads' = {}
      /\ crashes' = crashes + 1
      /\ UNCHANGED <<owners, drawn, blob, part, whole, now, contended, tries>>
  BY DEF Crash, ReapsExpired, files
<1>3. \A id \in IdsOf(Expired) : \E r \in Expired : r.id = id
  BY DEF IdsOf
<1>4. Expired \subseteq rows
  BY DEF Expired
<1>5. IdsOf(Expired) \subseteq Ids
  BY <1>1, <1>3, <1>4 DEF TypeOK, Row
<1>6. TypeOK' /\ crashes' # 0
  BY <1>1, <1>2, <1>5 DEF TypeOK
<1>7. /\ Apart' /\ HasOpened' /\ Uploading' /\ UploadedIsThere'
      /\ \A r \in rows' : r.id \in drawn'
      /\ \A r, s \in rows' : r.id = s.id => r = s
  <2>1. rows' \subseteq rows /\ uploads' \subseteq uploads
    BY <1>2
  <2> QED BY <1>2, <2>1, FewerRows
<1>8. Slots'
  BY <1>1, <1>2, <1>3, <1>4, <1>7 DEF Slots
<1>9. Writers' /\ BlobsAreOwned'
  BY <1>6 DEF Writers, BlobsAreOwned
<1> QED BY <1>6, <1>7, <1>8, <1>9 DEF IInv

-----------------------------------------------------------------------------
(* Steps of an upload.                                                     *)

LEMMA BeginStep ==
  ASSUME IInv, NEW w \in Workers, NEW id \in Ids, BeginUpload(w, id)
  PROVE  IInv'
<1> DEFINE u == [worker |-> w, id |-> id, at |-> "open", inode |-> NoFile]
<1>1. TypeOK /\ Slots /\ Apart /\ HasOpened /\ Uploading /\ UploadedIsThere
      /\ Writers /\ BlobsAreOwned
  BY DEF IInv
<1>2. /\ uploads' = uploads \cup {u} /\ tries' = tries + 1
      /\ UNCHANGED <<owners, rows, drawn, blob, part, whole, unlinking, now, crashes>>
  BY DEF BeginUpload, table, files
<1>3. PICK r \in rows :
        /\ r.id = id
        /\ contended' = IF r.uploaded \/ \E v \in uploads : v.id = id
                        THEN contended \cup {id} ELSE contended
  BY DEF BeginUpload, RowsOf
<1>4. u \in Upload
  BY DEF Upload
<1>5. contended \subseteq contended' /\ contended' \subseteq Ids
  BY <1>1, <1>3 DEF TypeOK
<1>6. TypeOK'
  BY <1>1, <1>2, <1>4, <1>5 DEF TypeOK
<1>7. Slots' /\ Apart' /\ HasOpened'
  BY <1>1, <1>2 DEF Slots, Apart, HasOpened
<1>8. UploadedIsThere'
  BY <1>1, <1>2, <1>5 DEF UploadedIsThere
<1>9. Writers' /\ BlobsAreOwned'
  BY <1>1, <1>2 DEF Writers, BlobsAreOwned
<1>10. Uploading'
  <2> SUFFICES ASSUME NEW v \in uploads', v.id \notin contended' PROVE Undisturbed(v)'
    BY DEF Uploading
  <2>1. CASE v.id = id
    <3>1. ~r.uploaded /\ \A x \in uploads : x.id # id
      BY <1>3, <2>1
    <3>2. v = u
      BY <1>2, <2>1, <3>1
    <3>3. \A x \in rows : x.id = id => x = r
      BY <1>1, <1>3 DEF Slots
    <3>4. id \in drawn
      BY <1>1, <1>3 DEF Slots
    <3> QED BY <1>2, <3>1, <3>2, <3>3, <3>4 DEF Undisturbed
  <2>2. CASE v.id # id
    <3>1. v \in uploads /\ v.id \notin contended
      BY <1>2, <1>5, <2>2
    <3>2. Undisturbed(v)
      BY <1>1, <3>1 DEF Uploading
    <3>3. RowsOf(v.id)' = RowsOf(v.id)
      BY <1>2 DEF RowsOf
    <3> QED BY <1>2, <2>2, <3>2, <3>3 DEF Undisturbed
  <2> QED BY <2>1, <2>2
<1> QED BY <1>6, <1>7, <1>8, <1>9, <1>10 DEF IInv

\* An upload goes on with the file it has open, the others as they were.
LEMMA OthersGoOn ==
  ASSUME IInv, NEW u \in uploads,
         NEW at \in {"write", "rename", "mark"}, NEW inode \in Inodes, Proceeds(u, at, inode)
  PROVE  /\ uploads' \subseteq Upload
         /\ HasOpened'
         /\ \E next \in uploads' :
              /\ next.id = u.id /\ next.at = at /\ next.inode = inode
              /\ \A v \in uploads' : (v \in uploads /\ v # u) \/ v = next
         /\ \A v \in uploads : v # u => v \in uploads'
<1> DEFINE next == [u EXCEPT !.at = at, !.inode = inode]
<1>1. uploads \subseteq Upload /\ HasOpened /\ u \in Upload
  BY DEF IInv, TypeOK
<1>2. /\ next \in Upload
      /\ next.id = u.id /\ next.at = at /\ next.inode = inode
  BY <1>1 DEF Upload
<1>3. uploads' = (uploads \ {u}) \cup {next}
  BY DEF Proceeds
<1> HIDE DEF next
<1>4. HasOpened'
  BY <1>1, <1>2, <1>3 DEF HasOpened
<1> QED BY <1>1, <1>2, <1>3, <1>4

\* An upload ends and takes its half-written file with it, or has none.
LEMMA EndStep ==
  ASSUME IInv, NEW u \in uploads, Ends(u),
         (u.at = "open" /\ UNCHANGED part) \/ part' = [part EXCEPT ![u.id] = NoFile],
         u.at # "mark",
         UNCHANGED <<owners, rows, drawn, blob, whole, unlinking, now,
                     contended, tries, crashes>>
  PROVE  IInv'
<1>1. TypeOK /\ Slots /\ Apart /\ HasOpened /\ Uploading /\ UploadedIsThere
      /\ Writers /\ BlobsAreOwned
  BY DEF IInv
<1>2. uploads' = uploads \ {u} /\ u.id \in Ids
  BY <1>1 DEF Ends, TypeOK, Upload
<1>3. /\ \A id \in Ids : part'[id] \in {part[id], NoFile}
      /\ \A id \in Ids : id # u.id => part'[id] = part[id]
  BY <1>1 DEF TypeOK
<1>4. TypeOK'
  BY <1>1, <1>2 DEF TypeOK
<1>5. Slots' /\ Apart' /\ HasOpened'
  BY <1>1, <1>2, <1>3 DEF Slots, Apart, HasOpened
<1>6. UploadedIsThere' /\ BlobsAreOwned'
  BY <1>1, <1>2 DEF UploadedIsThere, BlobsAreOwned
<1>7. Uploading'
  <2> SUFFICES ASSUME NEW v \in uploads', v.id \notin contended PROVE Undisturbed(v)'
    BY DEF Uploading
  <2>1. Undisturbed(v) /\ v \in uploads /\ v # u
    BY <1>1, <1>2 DEF Uploading
  <2>2. v.id # u.id /\ v.id \in Ids
    BY <1>1, <2>1 DEF Undisturbed, TypeOK, Upload
  <2>3. part'[v.id] = part[v.id] /\ RowsOf(v.id)' = RowsOf(v.id)
    BY <1>3, <2>2 DEF RowsOf
  <2> QED BY <1>2, <2>1, <2>3 DEF Undisturbed
<1>8. Writers'
  <2> SUFFICES ASSUME crashes = 0, NEW id \in Ids, part'[id] # NoFile
               PROVE  \E v \in uploads' : v.id = id /\ v.at \in {"write", "rename"}
    BY DEF Writers
  <2>1. PICK v \in uploads : v.id = id /\ v.at \in {"write", "rename"}
    BY <1>1, <1>3 DEF Writers
  <2>2. v # u
    BY <1>1, <1>2, <2>1 DEF TypeOK
  <2> QED BY <1>2, <2>1, <2>2
<1> QED BY <1>4, <1>5, <1>6, <1>7, <1>8 DEF IInv

LEMMA OpenStep ==
  ASSUME IInv, NEW u \in uploads, Open(u)
  PROVE  IInv'
<1> DEFINE i == IF part[u.id] = NoFile THEN CHOOSE f \in FreeInodes : TRUE ELSE part[u.id]
<1>1. TypeOK /\ Slots /\ Apart /\ HasOpened /\ Uploading /\ UploadedIsThere
      /\ Writers /\ BlobsAreOwned
  BY DEF IInv
<1>2. /\ u.at = "open" /\ (part[u.id] = NoFile => FreeInodes # {})
      /\ part' = [part EXCEPT ![u.id] = i] /\ whole' = whole \ {i}
      /\ Proceeds(u, "write", i)
      /\ UNCHANGED <<owners, rows, drawn, blob, unlinking, now, contended, tries, crashes>>
  BY DEF Open, Opened, table, ghosts
<1>3. u \in Upload /\ u.id \in Ids
  BY <1>1 DEF TypeOK, Upload
<1>4. /\ i \in Inodes /\ i # NoFile
      /\ \A id \in Ids : i # blob[id]
      /\ \A id \in Ids : id # u.id => i # part[id]
  <2>1. CASE part[u.id] = NoFile
    <3>1. i \in FreeInodes
      BY <1>2, <2>1
    <3> QED BY <3>1, AttachmentsAssumption DEF FreeInodes
  <2>2. CASE part[u.id] # NoFile
    BY <1>1, <1>3, <2>2 DEF TypeOK, Apart
  <2> QED BY <2>1, <2>2
<1>5. /\ part'[u.id] = i
      /\ \A id \in Ids : id # u.id => part'[id] = part[id]
  BY <1>1, <1>2, <1>3 DEF TypeOK
<1> HIDE DEF i
<1>6. /\ uploads' \subseteq Upload /\ HasOpened'
      /\ \A v \in uploads : v # u => v \in uploads'
  BY <1>2, <1>4, OthersGoOn
<1>7. PICK next \in uploads' :
        /\ next.id = u.id /\ next.at = "write" /\ next.inode = i
        /\ \A v \in uploads' : (v \in uploads /\ v # u) \/ v = next
  BY <1>2, <1>4, OthersGoOn
<1>8. TypeOK'
  BY <1>1, <1>2, <1>4, <1>6 DEF TypeOK
<1>9. Slots'
  BY <1>1, <1>2 DEF Slots
<1>10. Apart'
  BY <1>1, <1>2, <1>3, <1>4, <1>5 DEF Apart
<1>11. UploadedIsThere'
  <2>1. \A r \in rows : r.id \in Ids
    BY <1>1 DEF TypeOK, Row
  <2> QED BY <1>1, <1>2, <1>4, <2>1 DEF UploadedIsThere
<1>12. Writers' /\ BlobsAreOwned'
  <2>1. Writers'
    BY <1>1, <1>2, <1>5, <1>6, <1>7 DEF Writers
  <2>2. BlobsAreOwned'
    BY <1>1, <1>2, <1>6 DEF BlobsAreOwned
  <2> QED BY <2>1, <2>2
<1>13. Uploading'
  <2> SUFFICES ASSUME NEW v \in uploads', v.id \notin contended PROVE Undisturbed(v)'
    BY <1>2 DEF Uploading
  <2>1. RowsOf(v.id)' = RowsOf(v.id)
    BY <1>2 DEF RowsOf
  <2>2. CASE v \in uploads /\ v # u
    <3>1. Undisturbed(v)
      BY <1>1, <2>2 DEF Uploading
    <3>2. v.id # u.id /\ v.id \in Ids
      BY <1>1, <2>2, <3>1 DEF Undisturbed, TypeOK, Upload
    <3>3. /\ part'[v.id] = part[v.id] /\ i # part[v.id] /\ i # blob[v.id]
      BY <1>4, <1>5, <3>2
    <3>4. \A x \in uploads' : x.id = v.id => x = v
      BY <1>6, <1>7, <3>1, <3>2 DEF Undisturbed
    <3>5. v.at = "rename" => v.inode \in whole'
      BY <1>2, <3>1, <3>3 DEF Undisturbed
    <3>6. v.at = "mark" /\ RowsOf(v.id)' # {} => blob'[v.id] \in whole'
      BY <1>2, <2>1, <3>1, <3>3 DEF Undisturbed
    <3> QED BY <1>2, <3>1, <3>3, <3>4, <3>5, <3>6 DEF Undisturbed
  <2>3. CASE v = next
    <3>1. Undisturbed(u)
      BY <1>1, <1>7, <2>3 DEF Uploading
    <3>2. \A x \in uploads' : x.id = v.id => x = v
      BY <1>6, <1>7, <2>3, <3>1 DEF Undisturbed
    <3> QED BY <1>2, <1>5, <1>7, <2>3, <3>1, <3>2 DEF Undisturbed
  <2> QED BY <1>7, <2>2, <2>3
<1> QED BY <1>6, <1>8, <1>9, <1>10, <1>11, <1>12, <1>13 DEF IInv

LEMMA WriteStep ==
  ASSUME IInv, NEW u \in uploads, Write(u)
  PROVE  IInv'
<1>1. TypeOK /\ Slots /\ Apart /\ HasOpened /\ Uploading /\ UploadedIsThere
      /\ Writers /\ BlobsAreOwned
  BY DEF IInv
<1>2. /\ u.at = "write" /\ whole' = whole \cup {u.inode}
      /\ Proceeds(u, "rename", u.inode)
      /\ UNCHANGED <<owners, rows, drawn, blob, part, unlinking, now,
                     contended, tries, crashes>>
  BY DEF Write, table, ghosts
<1>3. u \in Upload /\ u.inode \in Inodes
  BY <1>1, <1>2 DEF TypeOK, HasOpened
<1>4. /\ uploads' \subseteq Upload /\ HasOpened'
      /\ \A v \in uploads : v # u => v \in uploads'
  BY <1>2, <1>3, OthersGoOn
<1>5. PICK next \in uploads' :
        /\ next.id = u.id /\ next.at = "rename" /\ next.inode = u.inode
        /\ \A v \in uploads' : (v \in uploads /\ v # u) \/ v = next
  BY <1>2, <1>3, OthersGoOn
<1>6. TypeOK'
  BY <1>1, <1>2, <1>3, <1>4 DEF TypeOK
<1>7. Slots' /\ Apart'
  BY <1>1, <1>2 DEF Slots, Apart
<1>8. UploadedIsThere'
  BY <1>1, <1>2 DEF UploadedIsThere
<1>9. Writers'
  BY <1>1, <1>2, <1>4, <1>5 DEF Writers
<1>10. BlobsAreOwned'
  BY <1>1, <1>2, <1>4 DEF BlobsAreOwned
<1>11. Uploading'
  <2> SUFFICES ASSUME NEW v \in uploads', v.id \notin contended PROVE Undisturbed(v)'
    BY <1>2 DEF Uploading
  <2>1. RowsOf(v.id)' = RowsOf(v.id)
    BY <1>2 DEF RowsOf
  <2>2. CASE v \in uploads /\ v # u
    <3>1. Undisturbed(v) /\ v.id # u.id
      BY <1>1, <2>2 DEF Uploading, Undisturbed
    <3>2. \A x \in uploads' : x.id = v.id => x = v
      BY <1>4, <1>5, <3>1 DEF Undisturbed
    <3> QED BY <1>2, <2>1, <3>1, <3>2 DEF Undisturbed
  <2>3. CASE v = next
    <3>1. Undisturbed(u)
      BY <1>1, <1>5, <2>3 DEF Uploading
    <3>2. \A x \in uploads' : x.id = v.id => x = v
      BY <1>4, <1>5, <2>3, <3>1 DEF Undisturbed
    <3> QED BY <1>2, <1>5, <2>3, <3>1, <3>2 DEF Undisturbed
  <2> QED BY <1>5, <2>2, <2>3
<1> QED BY <1>4, <1>6, <1>7, <1>8, <1>9, <1>10, <1>11 DEF IInv

LEMMA RenameStep ==
  ASSUME IInv, NEW u \in uploads, Rename(u), part[u.id] # NoFile
  PROVE  IInv'
<1> DEFINE p == part[u.id]
<1>1. TypeOK /\ Slots /\ Apart /\ HasOpened /\ Uploading /\ UploadedIsThere
      /\ Writers /\ BlobsAreOwned
  BY DEF IInv
<1>2. /\ u.at = "rename" /\ blob' = [blob EXCEPT ![u.id] = p]
      /\ part' = [part EXCEPT ![u.id] = NoFile]
      /\ Proceeds(u, "mark", u.inode)
      /\ UNCHANGED <<owners, rows, drawn, whole, unlinking, now, contended, tries, crashes>>
  BY DEF Rename, table, ghosts
<1>3. u \in Upload /\ u.id \in Ids /\ u.inode \in Inodes /\ p \in Inodes
  BY <1>1, <1>2 DEF TypeOK, HasOpened, Upload
<1>4. /\ part'[u.id] = NoFile /\ blob'[u.id] = p
      /\ \A id \in Ids : id # u.id => part'[id] = part[id] /\ blob'[id] = blob[id]
  BY <1>1, <1>2, <1>3 DEF TypeOK
<1>5. /\ uploads' \subseteq Upload /\ HasOpened'
      /\ \A v \in uploads : v # u => v \in uploads'
  BY <1>2, <1>3, OthersGoOn
<1>6. PICK next \in uploads' :
        /\ next.id = u.id /\ next.at = "mark"
        /\ \A v \in uploads' : (v \in uploads /\ v # u) \/ v = next
  BY <1>2, <1>3, OthersGoOn
<1>7. TypeOK'
  BY <1>1, <1>2, <1>3, <1>5 DEF TypeOK
<1>8. Slots'
  BY <1>1, <1>2 DEF Slots
<1>9. Apart'
  <2>1. \A x \in Ids : part'[x] # NoFile => x # u.id /\ part'[x] = part[x]
    BY <1>4
  <2>2. \A x, y \in Ids : part'[x] # NoFile => part'[x] # blob'[y]
    BY <1>1, <1>3, <1>4, <2>1 DEF Apart
  <2>3. \A x, y \in Ids : part'[x] # NoFile /\ x # y => part'[x] # part'[y]
    BY <1>1, <1>4, <2>1 DEF Apart
  <2> QED BY <2>2, <2>3 DEF Apart
<1>10. UploadedIsThere'
  <2> SUFFICES ASSUME NEW r \in rows, r.uploaded, r.id \notin contended
               PROVE  blob'[r.id] \in whole
    BY <1>2 DEF UploadedIsThere
  <2>1. r.id # u.id
    BY <1>1 DEF Uploading, Undisturbed
  <2>2. r.id \in Ids
    BY <1>1 DEF TypeOK, Row
  <2> QED BY <1>1, <1>4, <2>1, <2>2 DEF UploadedIsThere
<1>11. Writers'
  <2> SUFFICES ASSUME crashes = 0, NEW id \in Ids, part'[id] # NoFile
               PROVE  \E v \in uploads' : v.id = id /\ v.at \in {"write", "rename"}
    BY <1>2 DEF Writers
  <2>1. PICK v \in uploads : v.id = id /\ v.at \in {"write", "rename"}
    BY <1>1, <1>4 DEF Writers
  <2>2. v # u
    BY <1>4, <2>1
  <2> QED BY <1>5, <2>1, <2>2
<1>12. BlobsAreOwned'
  <2> SUFFICES ASSUME crashes = 0, NEW id \in Ids, blob'[id] # NoFile
               PROVE  \/ \E r \in rows : r.id = id
                      \/ id \in unlinking
                      \/ \E v \in uploads' : v.id = id /\ v.at = "mark"
    BY <1>2 DEF BlobsAreOwned
  <2>1. CASE id = u.id
    BY <1>6, <2>1
  <2>2. CASE id # u.id
    <3>1. blob[id] # NoFile
      BY <1>4, <2>2
    <3> QED BY <1>1, <1>2, <1>5, <3>1 DEF BlobsAreOwned
  <2> QED BY <2>1, <2>2
<1>13. Uploading'
  <2> SUFFICES ASSUME NEW v \in uploads', v.id \notin contended PROVE Undisturbed(v)'
    BY <1>2 DEF Uploading
  <2>1. RowsOf(v.id)' = RowsOf(v.id)
    BY <1>2 DEF RowsOf
  <2>2. CASE v \in uploads /\ v # u
    <3>1. Undisturbed(v) /\ v.id # u.id
      BY <1>1, <2>2 DEF Uploading, Undisturbed
    <3>2. v.id \in Ids
      BY <1>1, <2>2 DEF TypeOK, Upload
    <3>3. part'[v.id] = part[v.id] /\ blob'[v.id] = blob[v.id]
      BY <1>4, <3>1, <3>2
    <3>4. \A x \in uploads' : x.id = v.id => x = v
      BY <1>5, <1>6, <3>1 DEF Undisturbed
    <3> QED BY <1>2, <2>1, <3>1, <3>3, <3>4 DEF Undisturbed
  <2>3. CASE v = next
    <3>1. Undisturbed(u)
      BY <1>1, <1>6, <2>3 DEF Uploading
    <3>2. \A x \in uploads' : x.id = v.id => x = v
      BY <1>5, <1>6, <2>3, <3>1 DEF Undisturbed
    <3>3. blob'[v.id] \in whole'
      BY <1>2, <1>4, <1>6, <2>3, <3>1 DEF Undisturbed
    <3> QED BY <1>2, <1>6, <2>3, <3>1, <3>2, <3>3 DEF Undisturbed
  <2> QED BY <1>6, <2>2, <2>3
<1> QED BY <1>5, <1>7, <1>8, <1>9, <1>10, <1>11, <1>12, <1>13 DEF IInv

LEMMA MarkStep ==
  ASSUME IInv, NEW u \in uploads, Mark(u)
  PROVE  IInv'
<1> DEFINE waiting == {r \in RowsOf(u.id) : ~r.uploaded}
           marked == {[r EXCEPT !.uploaded = TRUE] : r \in waiting}
<1>1. TypeOK /\ Slots /\ Apart /\ HasOpened /\ Uploading /\ UploadedIsThere
      /\ Writers /\ BlobsAreOwned
  BY DEF IInv
<1>2. /\ u.at = "mark" /\ rows' = (rows \ waiting) \cup marked
      /\ (IF waiting = {} THEN RemovesFile(u.id) ELSE UNCHANGED blob)
      /\ uploads' = uploads \ {u}
      /\ UNCHANGED <<owners, drawn, part, whole, unlinking, now, contended, tries, crashes>>
  BY DEF Mark, Ends, ghosts
<1>3. u.id \in Ids
  BY <1>1 DEF TypeOK, Upload
<1>4. \A r \in waiting : r \in rows /\ r.id = u.id /\ ~r.uploaded
  BY DEF RowsOf
<1>5. \A r \in marked : /\ r \in Row /\ r.id = u.id
                        /\ \E s \in waiting : r = [s EXCEPT !.uploaded = TRUE]
  <2> SUFFICES ASSUME NEW r \in marked
               PROVE  /\ r \in Row /\ r.id = u.id
                      /\ \E s \in waiting : r = [s EXCEPT !.uploaded = TRUE]
    OBVIOUS
  <2>1. PICK s \in waiting : r = [s EXCEPT !.uploaded = TRUE]
    OBVIOUS
  <2>2. s \in Row /\ s.id = u.id
    BY <1>1, <1>4 DEF TypeOK
  <2> QED BY <2>1, <2>2 DEF Row
<1>6. /\ \A id \in Ids : blob'[id] \in {blob[id], NoFile}
      /\ \A id \in Ids : id # u.id => blob'[id] = blob[id]
      /\ waiting = {} => blob'[u.id] = NoFile
      /\ waiting # {} => blob' = blob
      /\ blob' \in [Ids -> Inodes \cup {NoFile}]
  BY <1>1, <1>2, <1>3 DEF TypeOK, RemovesFile
<1>7. /\ \A r \in rows' : r \in rows \/ r \in marked
      /\ \A r \in rows : r.id # u.id => r \in rows'
      /\ \A r \in rows : \E s \in rows' : s.id = r.id
  <2>1. \A r \in rows' : r \in rows \/ r \in marked
    BY <1>2
  <2>2. \A r \in rows : r.id # u.id => r \in rows'
    BY <1>2, <1>4
  <2>3. ASSUME NEW r \in rows PROVE \E s \in rows' : s.id = r.id
    <3>1. CASE r \in waiting
      <4>1. [r EXCEPT !.uploaded = TRUE] \in marked
        BY <3>1
      <4> QED BY <1>2, <1>4, <1>5, <3>1, <4>1
    <3>2. CASE r \notin waiting
      BY <1>2, <3>2
    <3> QED BY <3>1, <3>2
  <2> QED BY <2>1, <2>2, <2>3
<1>8. Slots'
  <2>1. \A r \in marked : r.id \in drawn /\ r.id \notin unlinking
    BY <1>1, <1>4, <1>5 DEF Slots
  <2>2. \A r, s \in waiting : r = s
    BY <1>1, <1>4 DEF Slots
  <2>3. \A r, s \in marked : r = s
    BY <1>5, <2>2
  <2>4. \A r \in marked, s \in rows' : s.id = r.id => s \in marked
    <3> SUFFICES ASSUME NEW r \in marked, NEW s \in rows \ waiting, s.id = r.id PROVE FALSE
      BY <1>2
    <3>1. PICK x \in waiting : r = [x EXCEPT !.uploaded = TRUE]
      OBVIOUS
    <3>2. s.id = x.id /\ x \in rows
      BY <1>4, <1>5
    <3> QED BY <1>1, <3>2 DEF Slots
  <2> HIDE DEF waiting, marked
  <2> QED BY <1>1, <1>2, <1>7, <2>1, <2>3, <2>4 DEF Slots
<1>9. \A r \in marked : u.id \notin contended => blob'[r.id] \in whole
  <2> SUFFICES ASSUME NEW r \in marked, u.id \notin contended PROVE blob'[r.id] \in whole
    OBVIOUS
  <2>1. r.id = u.id /\ waiting # {} /\ RowsOf(u.id) # {}
    BY <1>5
  <2>2. Undisturbed(u)
    BY <1>1 DEF Uploading
  <2> QED BY <1>2, <1>6, <2>1, <2>2 DEF Undisturbed
<1>10. UploadedIsThere'
  <2> SUFFICES ASSUME NEW r \in rows', r.uploaded, r.id \notin contended
               PROVE  blob'[r.id] \in whole
    BY <1>2 DEF UploadedIsThere
  <2>1. CASE r \in marked
    BY <1>5, <1>9, <2>1
  <2>2. CASE r \in rows
    <3>1. r.id \in Ids /\ blob[r.id] \in whole
      BY <1>1, <2>2 DEF TypeOK, Row, UploadedIsThere
    <3>2. r.id # u.id
      BY <1>1, <2>2 DEF Uploading, Undisturbed
    <3> QED BY <1>6, <3>1, <3>2
  <2> QED BY <1>7, <2>1, <2>2
<1> HIDE DEF waiting, marked
<1>11. TypeOK'
  <2>1. rows' \subseteq Row
    BY <1>1, <1>5, <1>7 DEF TypeOK
  <2> QED BY <1>1, <1>2, <1>6, <2>1 DEF TypeOK
<1>12. Apart' /\ HasOpened'
  BY <1>1, <1>2, <1>6 DEF Apart, HasOpened
<1>13. Writers'
  BY <1>1, <1>2 DEF Writers
<1>14. BlobsAreOwned'
  <2> SUFFICES ASSUME crashes = 0, NEW id \in Ids, blob'[id] # NoFile
               PROVE  \/ \E r \in rows' : r.id = id
                      \/ id \in unlinking
                      \/ \E v \in uploads' : v.id = id /\ v.at = "mark"
    BY <1>2 DEF BlobsAreOwned
  <2>1. CASE id = u.id
    <3>1. PICK r \in waiting : TRUE
      BY <1>6, <2>1
    <3> QED BY <1>4, <1>7, <2>1, <3>1
  <2>2. CASE id # u.id
    <3>1. blob[id] # NoFile
      BY <1>6, <2>2
    <3> QED BY <1>1, <1>2, <1>7, <2>2, <3>1 DEF BlobsAreOwned
  <2> QED BY <2>1, <2>2
<1>15. Uploading'
  <2> SUFFICES ASSUME NEW v \in uploads', v.id \notin contended PROVE Undisturbed(v)'
    BY <1>2 DEF Uploading
  <2>1. Undisturbed(v) /\ v \in uploads /\ v # u /\ v.id \in Ids
    BY <1>1, <1>2 DEF Uploading, TypeOK, Upload
  <2>2. v.id # u.id
    BY <2>1 DEF Undisturbed
  <2>3. \A r \in rows' : r.id = v.id => r \in rows
    BY <1>5, <1>7, <2>2
  <2>4. blob'[v.id] = blob[v.id]
    BY <1>6, <2>1, <2>2
  <2>5. RowsOf(v.id)' # {} => RowsOf(v.id) # {}
    BY <2>3 DEF RowsOf
  <2> QED BY <1>2, <2>1, <2>3, <2>4, <2>5 DEF Undisturbed
<1> QED BY <1>8, <1>10, <1>11, <1>12, <1>13, <1>14, <1>15 DEF IInv

-----------------------------------------------------------------------------
(* All steps.                                                              *)

LEMMA UploadStepKeeps ==
  ASSUME IInv, UploadStep
  PROVE  IInv'
<1>1. PICK u \in uploads : Reject(u) \/ Open(u) \/ Write(u) \/ WriteFails(u)
                          \/ Rename(u) \/ Mark(u)
  BY DEF UploadStep
<1>2. CASE Reject(u)
  BY <1>2, EndStep DEF Reject, table, files, ghosts
<1>3. CASE Open(u)
  BY <1>3, OpenStep
<1>4. CASE Write(u)
  BY <1>4, WriteStep
<1>5. CASE WriteFails(u)
  BY <1>5, EndStep DEF WriteFails, table, ghosts
<1>6. CASE Rename(u) /\ part[u.id] # NoFile
  BY <1>6, RenameStep
<1>7. CASE Rename(u) /\ part[u.id] = NoFile
  BY <1>7, EndStep DEF Rename, table, ghosts
<1>8. CASE Mark(u)
  BY <1>8, MarkStep
<1> QED BY <1>1, <1>2, <1>3, <1>4, <1>5, <1>6, <1>7, <1>8

LEMMA Step ==
  ASSUME IInv, [Next]_vars
  PROVE  IInv'
<1>1. ASSUME NEW o \in Owners, NEW id \in Ids, NEW size \in Sizes, Create(o, id, size)
      PROVE  IInv'
  BY <1>1, CreateStep
<1>2. ASSUME NEW id \in Ids, Delete(id) \/ Unlink(id)
      PROVE  IInv'
  BY <1>2, DeleteStep, UnlinkStep
<1>3. ASSUME NEW w \in Workers, NEW id \in Ids, BeginUpload(w, id)
      PROVE  IInv'
  BY <1>3, BeginStep
<1>4. CASE UploadStep
  BY <1>4, UploadStepKeeps
<1>5. CASE Sweep
  <2>1. Expired \in SUBSET rows
    BY DEF Expired
  <2> QED BY <1>5, <2>1, ReapStep DEF Sweep, ReapsExpired, files, ghosts
<1>6. ASSUME NEW o \in Owners, DeleteAccount(o)
      PROVE  IInv'
  <2>1. {r \in rows : r.owner = o} \in SUBSET rows
    OBVIOUS
  <2> QED BY <1>6, <2>1, ReapStep DEF DeleteAccount, files, ghosts
<1>7. CASE Crash
  BY <1>7, CrashStep
<1>8. CASE Tick
  <2>1. TypeOK'
    BY <1>8 DEF IInv, TypeOK, Tick, table, files, ghosts
  <2>2. UNCHANGED <<owners, rows, drawn, blob, part, whole, uploads, unlinking,
                    contended, tries, crashes>>
    BY <1>8 DEF Tick, table, files, ghosts
  <2> QED BY <2>1, <2>2 DEF IInv, Slots, Apart, HasOpened, Uploading, Undisturbed,
             RowsOf, UploadedIsThere, Writers, BlobsAreOwned
<1>9. CASE UNCHANGED vars
  BY <1>9 DEF vars, table, files, ghosts, IInv, TypeOK, Slots, Apart, HasOpened,
     Uploading, Undisturbed, RowsOf, UploadedIsThere, Writers, BlobsAreOwned
<1> QED BY <1>1, <1>2, <1>3, <1>4, <1>5, <1>6, <1>7, <1>8, <1>9 DEF Next

LEMMA IInvHolds == Spec => []IInv
<1>1. Init => IInv
  BY InitInvariant
<1>2. IInv /\ [Next]_vars => IInv'
  BY Step
<1> QED BY <1>1, <1>2, PTL DEF Spec

-----------------------------------------------------------------------------
(* The attachment quota.                                                   *)

\* The slots Committed(o) adds up.
Live(o) == {r \in rows : r.owner = o /\ r.expires > now}

Size == [r \in rows |-> r.size]

LEMMA SizesAreNat ==
  ASSUME TypeOK
  PROVE  \A r \in rows : Size[r] = r.size /\ r.size \in Nat
BY AttachmentsAssumption DEF TypeOK, Row, Size

LEMMA CommittedIsSum ==
  ASSUME NEW o
  PROVE  Committed(o) = SumFunctionOnSet(Size, Live(o)) /\ Live(o) \in SUBSET rows
BY DEF Committed, Live, Size

\* Slots that go or expire give bytes back.
LEMMA FewerBytes ==
  ASSUME TypeOK, TypeOK', IsFiniteSet(rows), WithinQuota, rows' \subseteq rows, now <= now'
  PROVE  IsFiniteSet(rows') /\ WithinQuota'
<1>1. IsFiniteSet(rows')
  BY FS_Subset
<1>2. ASSUME NEW o \in Owners PROVE Committed(o)' <= Quota
  <2>1. now \in Nat /\ now' \in Nat /\ \A r \in rows : r.expires \in Nat
    BY DEF TypeOK, Row
  <2>2. Live(o)' \in SUBSET Live(o)
    BY <2>1 DEF Live
  <2>3. IsFiniteSet(Live(o)) /\ IsFiniteSet(Live(o)')
    BY <2>2, FS_Subset DEF Live
  <2>4. Committed(o)' = SumFunctionOnSet(Size', Live(o)')
    BY DEF Committed, Live, Size
  <2>5. SumFunctionOnSet(Size', Live(o)') = SumFunctionOnSet(Size, Live(o)')
    <3>1. \A r \in Live(o)' : Size'[r] = Size[r]
      BY DEF Live, Size
    <3> QED BY <2>3, <3>1, SumOfSame
  <2>6. \A r \in Live(o) : Size[r] \in Nat
    BY SizesAreNat, CommittedIsSum
  <2>7. SumFunctionOnSet(Size, Live(o)') <= SumFunctionOnSet(Size, Live(o))
    BY <2>2, <2>3, <2>6, SumOfPart
  <2>8. SumFunctionOnSet(Size, Live(o)') \in Nat /\ SumFunctionOnSet(Size, Live(o)) \in Nat
    BY <2>2, <2>3, <2>6, SumIsNat
  <2>9. Committed(o) <= Quota /\ Quota \in Nat
    BY AttachmentsAssumption DEF WithinQuota
  <2> QED BY <2>4, <2>5, <2>7, <2>8, <2>9, CommittedIsSum
<1> QED BY <1>1, <1>2 DEF WithinQuota

\* A new slot is counted before it is given.
LEMMA CreateKeepsQuota ==
  ASSUME IInv, TypeOK', IsFiniteSet(rows), WithinQuota,
         NEW o \in Owners, NEW id \in Ids, NEW size \in Sizes, Create(o, id, size)
  PROVE  IsFiniteSet(rows') /\ WithinQuota'
<1> DEFINE r == [id |-> id, owner |-> o, size |-> size,
                 expires |-> now + Ttl, uploaded |-> FALSE]
<1>1. /\ rows' = rows \cup {r} /\ now' = now /\ Committed(o) + size <= Quota
      /\ id \notin drawn /\ TypeOK /\ Slots
  BY DEF Create, IInv
<1>2. r.owner = o /\ r.size = size /\ r.id = id /\ size \in Nat /\ Quota \in Nat
  BY AttachmentsAssumption
<1>3. r \notin rows
  BY <1>1, <1>2 DEF Slots
<1> HIDE DEF r
<1>4. IsFiniteSet(rows')
  BY <1>1, FS_AddElement
<1>5. ASSUME NEW p \in Owners PROVE Committed(p)' <= Quota
  <2>1. Live(p)' = Live(p) \/ (p = o /\ Live(p)' = Live(p) \cup {r})
    BY <1>1, <1>2 DEF Live
  <2>2. IsFiniteSet(Live(p)) /\ r \notin Live(p)
    BY <1>3, FS_Subset DEF Live
  <2>3. /\ \A x \in Live(p) : Size'[x] = Size[x] /\ Size[x] \in Nat /\ Size'[x] \in Nat
        /\ Size'[r] = size
    BY <1>1, <1>2, SizesAreNat DEF Live, Size
  <2>4. /\ SumFunctionOnSet(Size', Live(p)) = SumFunctionOnSet(Size, Live(p))
        /\ SumFunctionOnSet(Size, Live(p)) \in Nat
    BY <2>2, <2>3, SumOfSame, SumIsNat
  <2>5. /\ Committed(p) = SumFunctionOnSet(Size, Live(p))
        /\ Committed(p)' = SumFunctionOnSet(Size', Live(p)')
    BY DEF Committed, Live, Size
  <2>6. CASE Live(p)' = Live(p)
    BY <2>4, <2>5, <2>6 DEF WithinQuota
  <2>7. CASE p = o /\ Live(p)' = Live(p) \cup {r}
    <3>1. SumFunctionOnSet(Size', Live(p) \cup {r}) = SumFunctionOnSet(Size', Live(p)) + Size'[r]
      BY <1>2, <2>2, <2>3, SumWith
    <3> QED BY <1>1, <1>2, <2>3, <2>4, <2>5, <2>7, <3>1
  <2> QED BY <2>1, <2>6, <2>7
<1> QED BY <1>4, <1>5 DEF WithinQuota

\* A slot keeps its size when it is uploaded.
LEMMA MarkKeepsQuota ==
  ASSUME IInv, TypeOK', IsFiniteSet(rows), WithinQuota, NEW u \in uploads, Mark(u)
  PROVE  IsFiniteSet(rows') /\ WithinQuota'
<1> DEFINE waiting == {r \in RowsOf(u.id) : ~r.uploaded}
<1>1. /\ rows' = (rows \ waiting) \cup {[r EXCEPT !.uploaded = TRUE] : r \in waiting}
      /\ now' = now /\ TypeOK /\ Slots /\ now \in Nat
  BY DEF Mark, IInv, TypeOK
<1>2. CASE waiting = {}
  <2>1. rows' = rows
    BY <1>1, <1>2
  <2> QED BY <1>1, <2>1, FewerBytes
<1>3. CASE waiting # {}
  <2>1. PICK r \in waiting : TRUE
    BY <1>3
  <2> DEFINE s == [r EXCEPT !.uploaded = TRUE]
  <2>2. r \in rows /\ r \in Row /\ ~r.uploaded /\ r.id = u.id
    BY <1>1, <2>1 DEF RowsOf, TypeOK
  <2>3. waiting = {r}
    BY <1>1, <2>1, <2>2 DEF RowsOf, Slots
  <2>4. rows' = (rows \ {r}) \cup {s}
    BY <1>1, <2>3
  <2>5. /\ s.id = r.id /\ s.owner = r.owner /\ s.size = r.size /\ s.expires = r.expires
        /\ s.uploaded
    BY <2>2 DEF Row
  <2> HIDE DEF s, waiting
  <2>6. s \notin rows
    BY <1>1, <2>2, <2>5 DEF Slots
  <2>7. IsFiniteSet(rows \ {r}) /\ IsFiniteSet(rows')
    BY <2>4, FS_RemoveElement, FS_AddElement
  <2>8. ASSUME NEW p \in Owners PROVE Committed(p)' <= Quota
    <3> DEFINE rest == Live(p) \ {r}
    <3>1. /\ Committed(p) = SumFunctionOnSet(Size, Live(p))
          /\ Committed(p)' = SumFunctionOnSet(Size', Live(p)')
      BY DEF Committed, Live, Size
    <3>8. Committed(p) <= Quota
      BY DEF WithinQuota
    <3>2. IsFiniteSet(Live(p)) /\ IsFiniteSet(rest) /\ s \notin rest
      BY <2>6, FS_Subset DEF Live
    <3>3. /\ \A x \in rest : Size'[x] = Size[x] /\ Size[x] \in Nat /\ Size'[x] \in Nat
          /\ Size[r] = r.size /\ Size'[s] = r.size /\ r.size \in Nat
      BY <1>1, <2>2, <2>4, <2>5, SizesAreNat DEF Live, Size
    <3>4. \A x \in Live(p) : Size[x] \in Nat
      BY <1>1, SizesAreNat DEF Live
    <3>5. /\ SumFunctionOnSet(Size', rest) = SumFunctionOnSet(Size, rest)
          /\ SumFunctionOnSet(Size, rest) \in Nat
      <4> HIDE DEF rest
      <4> QED BY <3>2, <3>3, SumOfSame, SumIsNat
    <3>6. CASE r \in Live(p)
      <4>1. Live(p)' = rest \cup {s}
        BY <1>1, <2>4, <2>5, <3>6 DEF Live
      <4>2. SumFunctionOnSet(Size, Live(p)) = Size[r] + SumFunctionOnSet(Size, rest)
        BY <3>2, <3>4, <3>6, SumWithout
      <4>3. SumFunctionOnSet(Size', rest \cup {s}) = SumFunctionOnSet(Size', rest) + Size'[s]
        <5> HIDE DEF rest
        <5> QED BY <3>2, <3>3, SumWith
      <4> HIDE DEF rest
      <4> QED BY <3>8, <3>1, <3>3, <3>5, <4>1, <4>2, <4>3
    <3>7. CASE r \notin Live(p)
      <4>1. Live(p)' = rest /\ rest = Live(p)
        BY <1>1, <2>2, <2>4, <2>5, <3>7 DEF Live
      <4> QED BY <3>8, <3>1, <3>5, <4>1
    <3> QED BY <3>6, <3>7
  <2> QED BY <2>7, <2>8 DEF WithinQuota
<1> QED BY <1>2, <1>3

LEMMA QuotaStep ==
  ASSUME IInv, IsFiniteSet(rows), WithinQuota, [Next]_vars
  PROVE  IsFiniteSet(rows') /\ WithinQuota'
<1>1. TypeOK /\ TypeOK' /\ now \in Nat /\ now' \in Nat
  BY Step DEF IInv, TypeOK
<1>2. ASSUME rows' \subseteq rows, now' = now \/ now' = now + 1
      PROVE  IsFiniteSet(rows') /\ WithinQuota'
  <2>1. now <= now'
    BY <1>1, <1>2
  <2> QED BY <1>1, <1>2, <2>1, FewerBytes
<1>3. ASSUME NEW o \in Owners, NEW id \in Ids, NEW size \in Sizes, Create(o, id, size)
      PROVE  IsFiniteSet(rows') /\ WithinQuota'
  BY <1>1, <1>3, CreateKeepsQuota
<1>4. ASSUME NEW id \in Ids, Delete(id) \/ Unlink(id)
      PROVE  rows' \subseteq rows /\ now' = now
  BY <1>4 DEF Delete, Unlink, table
<1>5. ASSUME NEW w \in Workers, NEW id \in Ids, BeginUpload(w, id)
      PROVE  rows' \subseteq rows /\ now' = now
  BY <1>5 DEF BeginUpload, table
<1>6. ASSUME NEW u \in uploads,
             Reject(u) \/ Open(u) \/ Write(u) \/ WriteFails(u) \/ Rename(u)
      PROVE  rows' \subseteq rows /\ now' = now
  BY <1>6 DEF Reject, Open, Write, WriteFails, Rename, table
<1>7. ASSUME NEW u \in uploads, Mark(u)
      PROVE  IsFiniteSet(rows') /\ WithinQuota'
  BY <1>1, <1>7, MarkKeepsQuota
<1>8. ASSUME Sweep \/ Crash \/ \E o \in Owners : DeleteAccount(o)
      PROVE  rows' \subseteq rows /\ now' = now
  BY <1>8 DEF Sweep, Crash, DeleteAccount, ReapsExpired
<1>9. ASSUME Tick \/ UNCHANGED vars
      PROVE  rows' \subseteq rows /\ (now' = now \/ now' = now + 1)
  BY <1>9 DEF Tick, vars, table
<1> QED BY <1>2, <1>3, <1>4, <1>5, <1>6, <1>7, <1>8, <1>9 DEF Next, UploadStep

-----------------------------------------------------------------------------
(* Results.                                                                *)

\* Every reachable state is type-correct.
THEOREM TypeCorrect == Spec => []TypeOK
<1>1. IInv => TypeOK
  BY DEF IInv
<1> QED BY <1>1, IInvHolds, PTL

\* handle_attachment_upload marks a row once its blob is whole, and no crash,
\* failure, deletion or sweep takes the blob from a row that is marked.
THEOREM UploadedStaysThere == Spec => []UploadedIsThere
<1>1. IInv => UploadedIsThere
  BY DEF IInv
<1> QED BY <1>1, IInvHolds, PTL

\* The handlers, the sweep and the deletion of an account leave neither a file
\* without a row nor a half-written one behind, if the process does not die.
THEOREM NoFileIsLeftBehind == Spec => []NoFileLeftBehind
<1>1. IInv => NoFileLeftBehind
  <2> SUFFICES ASSUME IInv, uploads = {}, unlinking = {}, crashes = 0, NEW id \in Ids
               PROVE  part[id] = NoFile /\ (blob[id] # NoFile => RowsOf(id) # {})
    BY DEF NoFileLeftBehind
  <2>1. part[id] = NoFile
    BY DEF IInv, Writers
  <2>2. ASSUME blob[id] # NoFile PROVE RowsOf(id) # {}
    <3>1. \E r \in rows : r.id = id
      BY <2>2 DEF IInv, BlobsAreOwned
    <3> QED BY <3>1 DEF RowsOf
  <2> QED BY <2>1, <2>2
<1> QED BY <1>1, IInvHolds, PTL

\* create_attachment_slot adds up the slots that have not expired and refuses
\* what would exceed MAX_DEVICE_ATTACHMENT_BYTES; nothing that happens to a slot
\* afterwards makes a device hold more.
THEOREM QuotaHolds == Spec => []WithinQuota
<1> DEFINE Bounded == IsFiniteSet(rows) /\ WithinQuota
<1>1. Init => Bounded
  <2> SUFFICES ASSUME Init PROVE Bounded
    OBVIOUS
  <2>1. rows = {}
    BY DEF Init
  <2>2. ASSUME NEW o \in Owners PROVE Committed(o) <= Quota
    <3>1. Live(o) = {}
      BY <2>1 DEF Live
    <3>2. Committed(o) = 0
      BY <3>1, CommittedIsSum, SumOfNone
    <3> QED BY <3>2, AttachmentsAssumption
  <2> QED BY <2>1, <2>2, FS_EmptySet DEF WithinQuota
<1>2. IInv /\ Bounded /\ [Next]_vars => Bounded'
  BY QuotaStep
<1>3. Spec => []Bounded
  BY <1>1, <1>2, IInvHolds, PTL DEF Spec
<1> QED BY <1>3, PTL

-----------------------------------------------------------------------------
(* The rate limiter: its table and its calls.                              *)

Pending == {w \in Threads : call[w] # NoCall}

LEMMA TimesAreFinite ==
  Times \subseteq Nat /\ \A S \in SUBSET Times : IsFiniteSet(S)
<1>1. MaxBack \in Int /\ MaxTime \in Int
  BY RateLimiterAssumption
<1>2. IsFiniteSet(Times)
  BY <1>1, FS_Interval DEF Times
<1>3. Times \subseteq Nat
  BY RateLimiterAssumption DEF Times
<1> QED BY <1>2, <1>3, FS_Subset

LEMMA LimiterTypes ==
  ASSUME LimiterTypeOK
  PROVE  /\ time \in Nat /\ back \in Nat /\ back <= MaxBack /\ back <= time
         /\ {WindowSecs, MaxDelay, MaxBack, Limit} \subseteq Nat /\ WindowSecs > 0
         /\ \A k \in DOMAIN state :
              k \in Keys /\ state[k] \in Window
                /\ state[k].window_start \in Nat /\ state[k].count \in Nat
         /\ \A w \in Pending :
              call[w] \in Call /\ call[w].key \in Keys
                /\ call[w].now \in Nat /\ call[w].since \in Nat
<1>1. {WindowSecs, MaxDelay, MaxBack, MaxTime, Limit} \subseteq Nat /\ WindowSecs > 0
  BY RateLimiterAssumption
<1>2. time \in Nat /\ back \in Nat /\ back <= MaxBack /\ back <= time
  BY <1>1 DEF LimiterTypeOK, Times
<1>3. \A k \in DOMAIN state : k \in Keys /\ state[k] \in Window
  BY DEF LimiterTypeOK
<1>4. \A w \in Pending : call[w] \in Call
  BY DEF LimiterTypeOK, Pending
<1> QED BY <1>1, <1>2, <1>3, <1>4 DEF Window, Call

LEMMA OverMeans ==
  ASSUME NEW now_ \in Nat, NEW window \in Window
  PROVE  Over(now_, window) <=> now_ >= window.window_start + WindowSecs
<1>1. window.window_start \in Nat /\ WindowSecs \in Nat /\ WindowSecs > 0
  BY RateLimiterAssumption DEF Window
<1> QED BY <1>1 DEF Over, Elapsed

\* A window goes from the table only when it is over, and only the window of the
\* call changes.
LEMMA CheckTable ==
  ASSUME LimiterTypeOK, NEW w \in Threads, Check(w)
  PROVE  /\ w \in Pending
         /\ \A k \in DOMAIN state' : k # call[w].key => k \in DOMAIN state /\ state'[k] = state[k]
         /\ \A k \in DOMAIN state : k \notin DOMAIN state' => Over(call[w].now, state[k])
         /\ \/ FailsOpen(call[w]) /\ call[w].key \notin DOMAIN state'
            \/ /\ Counts(call[w]) /\ call[w].key \in DOMAIN state'
               /\ state'[call[w].key] =
                    [WindowOf(call[w].key, call[w].now) EXCEPT !.count = @ + 1]
<1> DEFINE c == call[w]
           kept == Swept(c.key, c.now)
<1>1. w \in Pending
  BY DEF Check, Pending
<1>2. kept \subseteq DOMAIN state /\ \A k \in DOMAIN state : k \notin kept => Over(c.now, state[k])
  BY DEF Swept, Retained
<1> HIDE DEF kept
<1>3. CASE FailsOpen(c)
  <2>1. c.key \notin kept /\ state' = [k \in kept |-> state[k]]
    BY <1>3 DEF FailsOpen, kept
  <2> QED BY <1>1, <1>2, <1>3, <2>1
<1>4. CASE Counts(c)
  <2> DEFINE window == [WindowOf(c.key, c.now) EXCEPT !.count = @ + 1]
  <2>1. state' = [k \in kept \cup {c.key} |-> IF k = c.key THEN window ELSE state[k]]
    BY <1>4 DEF Counts, kept
  <2> HIDE DEF window
  <2>2. /\ DOMAIN state' = kept \cup {c.key} /\ state'[c.key] = window
        /\ \A k \in kept : k # c.key => state'[k] = state[k]
    BY <2>1
  <2>3. \A k \in DOMAIN state' : k # c.key => k \in DOMAIN state /\ state'[k] = state[k]
    BY <1>2, <2>2
  <2>4. \A k \in DOMAIN state : k \notin DOMAIN state' => Over(c.now, state[k])
    BY <1>2, <2>2
  <2> QED BY <1>1, <1>4, <2>2, <2>3, <2>4 DEF window
<1> QED BY <1>3, <1>4 DEF Check

LEMMA WindowOfType ==
  ASSUME LimiterTypeOK, NEW w \in Pending
  PROVE  /\ WindowOf(call[w].key, call[w].now) \in Window
         /\ WindowOf(call[w].key, call[w].now).count \in Nat
<1>1. WindowOf(call[w].key, call[w].now) \in Window
  BY LimiterTypes DEF WindowOf, Window
<1> QED BY <1>1 DEF Window

LEMMA LimiterTypeStep ==
  ASSUME LimiterTypeOK, [LimiterNext]_limiterVars
  PROVE  LimiterTypeOK'
<1>1. ASSUME NEW w \in Threads, Check(w) PROVE LimiterTypeOK'
  <2>1. DOMAIN state' \subseteq Keys /\ state' \in [DOMAIN state' -> Window]
    <3>1. state' = [k \in DOMAIN state' |-> state'[k]]
      BY <1>1 DEF Check, FailsOpen, Counts
    <3>2. \A k \in DOMAIN state' : k \in Keys /\ state'[k] \in Window
      <4> TAKE k \in DOMAIN state'
      <4>1. CASE k # call[w].key
        BY <1>1, <4>1, CheckTable, LimiterTypes
      <4>2. CASE k = call[w].key
        <5> DEFINE window == WindowOf(k, call[w].now)
        <5>1. state'[k] = [window EXCEPT !.count = @ + 1] /\ w \in Pending
          BY <1>1, <4>2, CheckTable
        <5>2. window \in Window
          BY <4>2, <5>1, WindowOfType
        <5> HIDE DEF window
        <5>3. state'[k] \in Window
          BY <5>1, <5>2 DEF Window
        <5> QED BY <4>2, <5>1, <5>3, LimiterTypes
      <4> QED BY <4>1, <4>2
    <3> QED BY <3>1, <3>2
  <2>2. call' \in [Threads -> Call \cup {NoCall}]
    BY <1>1 DEF Check, LimiterTypeOK
  <2>3. /\ admitted' \in [Keys -> [Times -> Nat]] /\ counted' \in [Keys -> [Times -> Nat]]
        /\ checked' \in [Keys -> [Times -> Nat]] /\ refused' \subseteq Keys \X Times
    <3>1. w \in Pending /\ call[w].key \in Keys /\ time \in Times
      BY <1>1, CheckTable, LimiterTypes DEF LimiterTypeOK
    <3>2. ASSUME NEW hits \in [Keys -> [Times -> Nat]]
          PROVE  OneMore(hits, call[w].key) \in [Keys -> [Times -> Nat]]
      BY <3>1, <3>2 DEF OneMore
    <3>3. CASE FailsOpen(call[w])
      BY <3>2, <3>3 DEF FailsOpen, LimiterTypeOK
    <3>4. CASE Counts(call[w])
      <4>1. checked' \in [Keys -> [Times -> Nat]]
        BY <3>2, <3>4 DEF Counts, LimiterTypeOK
      <4>2. admitted' \in [Keys -> [Times -> Nat]] /\ counted' \in [Keys -> [Times -> Nat]]
        <5>1. \/ UNCHANGED <<admitted, counted>>
              \/ /\ admitted' = OneMore(admitted, call[w].key)
                 /\ counted' = OneMore(counted, call[w].key)
          BY <3>4 DEF Counts
        <5> QED BY <3>2, <5>1 DEF LimiterTypeOK
      <4>3. refused' \subseteq Keys \X Times
        <5>1. refused' = refused \/ refused' = refused \cup {<<call[w].key, time>>}
          BY <3>4 DEF Counts
        <5>2. refused \subseteq Keys \X Times
          BY DEF LimiterTypeOK
        <5> QED BY <3>1, <5>1, <5>2
      <4> QED BY <4>1, <4>2, <4>3
    <3> QED BY <1>1, <3>3, <3>4 DEF Check
  <2> QED BY <1>1, <2>1, <2>2, <2>3 DEF Check, LimiterTypeOK
<1>2. ASSUME NEW w \in Threads, NEW d \in Devices \cup {NoDevice}, Begin(w, d)
      PROVE  LimiterTypeOK'
  <2>1. AuthRateLimitKey(d) \in Keys
    BY DEF AuthRateLimitKey, Keys
  <2>2. Clock \in Nat /\ time \in Nat
    BY LimiterTypes DEF Clock
  <2>3. call' \in [Threads -> Call \cup {NoCall}]
    BY <1>2, <2>1, <2>2 DEF Begin, Call, LimiterTypeOK
  <2> QED BY <1>2, <2>3 DEF Begin, history, LimiterTypeOK
<1>3. CASE TimePasses
  <2>1. time' \in Times
    BY <1>3, RateLimiterAssumption DEF TimePasses, LimiterTypeOK, Times
  <2> QED BY <1>3, <2>1 DEF TimePasses, history, LimiterTypeOK
<1>4. CASE SetBack
  <2>1. back' \in 0 .. MaxBack
    BY <1>4, RateLimiterAssumption DEF SetBack, LimiterTypeOK
  <2> QED BY <1>4, <2>1 DEF SetBack, history, LimiterTypeOK
<1>5. CASE UNCHANGED limiterVars
  BY <1>5 DEF limiterVars, history, LimiterTypeOK
<1> QED BY <1>1, <1>2, <1>3, <1>4, <1>5 DEF LimiterNext

LEMMA LimiterInitType == LimiterInit => LimiterTypeOK
<1>1. MaxBack \in Times /\ 0 \in 0 .. MaxBack
  BY RateLimiterAssumption DEF Times
<1> QED BY <1>1 DEF LimiterInit, LimiterTypeOK

\* The rate limiter's variables keep their types.
THEOREM LimiterTypeCorrect == LimiterSpec => []LimiterTypeOK
BY LimiterInitType, LimiterTypeStep, PTL DEF LimiterSpec

-----------------------------------------------------------------------------
(* A key is refused for its own calls.                                     *)

\* What the stamp of a call under way says of real time.
Stamps ==
  \A w \in Pending :
    /\ call[w].since <= time /\ time <= call[w].since + MaxDelay
    /\ call[w].now <= call[w].since /\ call[w].since <= call[w].now + back

CheckedSince(k, o) == SumFunctionOnSet(checked[k], {u \in Times : o <= u /\ u <= time})

\* A window counts no call from before it was opened, at o.
Counted ==
  \A k \in DOMAIN state : \E o \in Times :
    o <= time /\ state[k].window_start <= o /\ state[k].count <= CheckedSince(k, o)

LEMMA StampsStep ==
  ASSUME LimiterTypeOK, Stamps, [LimiterNext]_limiterVars
  PROVE  Stamps'
<1>1. ASSUME NEW w \in Threads, Check(w) PROVE Stamps'
  <2>1. \A v \in Pending' : v \in Pending /\ call'[v] = call[v]
    BY <1>1 DEF Check, Pending, LimiterTypeOK
  <2> QED BY <1>1, <2>1 DEF Check, Stamps
<1>2. ASSUME NEW w \in Threads, NEW d \in Devices \cup {NoDevice}, Begin(w, d)
      PROVE  Stamps'
  <2>1. /\ call'[w].now = Clock /\ call'[w].since = time
        /\ \A v \in Pending' : v # w => v \in Pending /\ call'[v] = call[v]
    BY <1>2 DEF Begin, Pending, LimiterTypeOK
  <2>2. Clock <= time /\ time <= Clock + back /\ time <= time + MaxDelay
    BY LimiterTypes DEF Clock
  <2>3. time' = time /\ back' = back
    BY <1>2 DEF Begin
  <2> QED BY <2>1, <2>2, <2>3, LimiterTypes DEF Stamps
<1>3. CASE TimePasses
  <2>1. /\ Pending' = Pending /\ call' = call /\ time' = time + 1 /\ back' = back
        /\ \A w \in Pending : time < call[w].since + MaxDelay
    BY <1>3 DEF TimePasses, Pending
  <2> QED BY <2>1, LimiterTypes DEF Stamps
<1>4. CASE SetBack
  <2>1. Pending' = Pending /\ call' = call /\ time' = time /\ back' = back + 1
    BY <1>4 DEF SetBack, Pending
  <2> QED BY <2>1, LimiterTypes DEF Stamps
<1>5. CASE UNCHANGED limiterVars
  BY <1>5 DEF limiterVars, Stamps, Pending
<1> QED BY <1>1, <1>2, <1>3, <1>4, <1>5 DEF LimiterNext

\* The sums of a history are numbers, and no step makes one smaller.
LEMMA HitsAdd ==
  ASSUME LimiterTypeOK, NEW hits \in [Times -> Nat], NEW S \in SUBSET Times
  PROVE  /\ SumFunctionOnSet(hits, S) \in Nat
         /\ \A more : more = [hits EXCEPT ![time] = @ + 1] =>
              SumFunctionOnSet(more, S) =
                SumFunctionOnSet(hits, S) + (IF time \in S THEN 1 ELSE 0)
         /\ \A R \in SUBSET S : SumFunctionOnSet(hits, R) <= SumFunctionOnSet(hits, S)
<1>1. time \in Times /\ IsFiniteSet(S) /\ \A u \in S : hits[u] \in Nat
  BY TimesAreFinite DEF LimiterTypeOK
<1>2. SumFunctionOnSet(hits, S) \in Nat
  BY <1>1, SumIsNat
<1>3. ASSUME NEW more, more = [hits EXCEPT ![time] = @ + 1]
      PROVE  SumFunctionOnSet(more, S) =
               SumFunctionOnSet(hits, S) + (IF time \in S THEN 1 ELSE 0)
  <2>1. /\ more \in [Times -> Nat] /\ more[time] = hits[time] + 1
        /\ \A u \in Times : u # time => more[u] = hits[u]
    BY <1>1, <1>3
  <2> HIDE <1>3
  <2> QED BY <1>1, <2>1, SumOfOneMore
<1>4. \A R \in SUBSET S : SumFunctionOnSet(hits, R) <= SumFunctionOnSet(hits, S)
  BY <1>1, SumOfPart
<1> QED BY <1>2, <1>3, <1>4

\* The window a call is counted in has not ended, and what it counts so far was
\* checked within it.
LEMMA WindowCounted ==
  ASSUME LimiterTypeOK, Stamps, Counted, NEW w \in Pending,
         NEW k, k = call[w].key, NEW window, window = WindowOf(k, call[w].now)
  PROVE  \E o \in Times :
           /\ o <= time /\ window.window_start <= o
           /\ call[w].now < window.window_start + WindowSecs
           /\ window.count <= CheckedSince(k, o)
<1>1. CASE k \in DOMAIN state /\ ~Over(call[w].now, state[k])
  <2>1. window = state[k]
    BY <1>1 DEF WindowOf
  <2>2. call[w].now < state[k].window_start + WindowSecs
    BY <1>1, LimiterTypes, OverMeans
  <2> QED BY <1>1, <2>1, <2>2 DEF Counted
<1>2. CASE ~(k \in DOMAIN state /\ ~Over(call[w].now, state[k]))
  <2>1. window = [window_start |-> call[w].now, count |-> 0]
    BY <1>2 DEF WindowOf
  <2>2. window.window_start = call[w].now /\ window.count = 0
    BY <2>1
  <2>3. call[w].now <= time /\ call[w].now < call[w].now + WindowSecs /\ time <= time
    BY LimiterTypes DEF Stamps
  <2>4. 0 <= CheckedSince(k, time)
    <3>1. checked[k] \in [Times -> Nat]
      BY LimiterTypes DEF LimiterTypeOK
    <3>2. CheckedSince(k, time) \in Nat
      BY <3>1, HitsAdd DEF CheckedSince
    <3> QED BY <3>2
  <2>5. time \in Times
    BY DEF LimiterTypeOK
  <2> QED BY <2>2, <2>3, <2>4, <2>5
<1> QED BY <1>1, <1>2

LEMMA CountedStep ==
  ASSUME LimiterTypeOK, Stamps, Counted, [LimiterNext]_limiterVars
  PROVE  Counted'
<1>1. ASSUME NEW w \in Threads, Check(w), NEW k \in DOMAIN state'
      PROVE  \E o \in Times : o <= time' /\ state'[k].window_start <= o
                                /\ state'[k].count <= CheckedSince(k, o)'
  <2>1. time' = time /\ w \in Pending
    BY <1>1, CheckTable DEF Check
  <2>2. CASE k # call[w].key
    <3>1. k \in DOMAIN state /\ state'[k] = state[k]
      BY <1>1, <2>2, CheckTable
    <3>2. checked'[k] = checked[k]
      <4>1. k \in Keys /\ call[w].key \in Keys /\ checked \in [Keys -> [Times -> Nat]]
        BY <2>1, <3>1, LimiterTypes DEF LimiterTypeOK
      <4>2. checked' = checked \/ checked' = [checked EXCEPT ![call[w].key][time] = @ + 1]
        BY <1>1 DEF Check, FailsOpen, Counts, OneMore, history
      <4> QED BY <2>2, <4>1, <4>2
    <3>3. \A o \in Times : CheckedSince(k, o)' = CheckedSince(k, o)
      BY <2>1, <3>2 DEF CheckedSince
    <3> QED BY <2>1, <3>1, <3>3 DEF Counted
  <2>3. CASE k = call[w].key
    <3> DEFINE window == WindowOf(k, call[w].now)
    <3>1. Counts(call[w]) /\ state'[k] = [window EXCEPT !.count = @ + 1]
      BY <1>1, <2>3, CheckTable
    <3>2. window \in Window /\ window.count \in Nat
      BY <2>1, <2>3, WindowOfType
    <3>3. PICK o \in Times : /\ o <= time /\ window.window_start <= o
                             /\ window.count <= CheckedSince(k, o)
      BY <2>1, <2>3, WindowCounted
    <3>4. checked[k] \in [Times -> Nat] /\ checked'[k] = [checked[k] EXCEPT ![time] = @ + 1]
      <4>1. k \in Keys /\ checked \in [Keys -> [Times -> Nat]]
        BY <2>1, <2>3, LimiterTypes DEF LimiterTypeOK
      <4>2. checked' = [checked EXCEPT ![k][time] = @ + 1]
        BY <2>3, <3>1 DEF Counts, OneMore
      <4> QED BY <4>1, <4>2
    <3> HIDE DEF window
    <3>5. CheckedSince(k, o)' = CheckedSince(k, o) + 1 /\ CheckedSince(k, o) \in Nat
      <4> DEFINE S == {u \in Times : o <= u /\ u <= time}
      <4>1. time \in S /\ S \in SUBSET Times
        BY <3>3, LimiterTypes DEF LimiterTypeOK
      <4>2. /\ CheckedSince(k, o)' = SumFunctionOnSet(checked'[k], S)
            /\ CheckedSince(k, o) = SumFunctionOnSet(checked[k], S)
        BY <2>1 DEF CheckedSince
      <4> HIDE DEF S
      <4> QED BY <3>4, <4>1, <4>2, HitsAdd
    <3>6. state'[k].count = window.count + 1 /\ state'[k].window_start = window.window_start
      BY <3>1, <3>2 DEF Window
    <3> QED BY <2>1, <3>2, <3>3, <3>5, <3>6
  <2> QED BY <2>2, <2>3
<1>2. ASSUME NEW w \in Threads, NEW d \in Devices \cup {NoDevice}, Begin(w, d)
      PROVE  Counted'
  BY <1>2 DEF Begin, history, Counted, CheckedSince
<1>3. CASE TimePasses
  <2> SUFFICES ASSUME NEW k \in DOMAIN state
               PROVE  \E o \in Times : o <= time' /\ state[k].window_start <= o
                                         /\ state[k].count <= CheckedSince(k, o)'
    BY <1>3 DEF TimePasses, Counted
  <2>1. PICK o \in Times : o <= time /\ state[k].window_start <= o
                             /\ state[k].count <= CheckedSince(k, o)
    BY DEF Counted
  <2>2. checked[k] \in [Times -> Nat] /\ time' = time + 1 /\ checked' = checked
    BY <1>3, LimiterTypes DEF LimiterTypeOK, TimePasses, history
  <2>3. /\ CheckedSince(k, o) <= CheckedSince(k, o)'
        /\ CheckedSince(k, o) \in Nat /\ CheckedSince(k, o)' \in Nat
    <3> DEFINE R == {u \in Times : o <= u /\ u <= time}
               S == {u \in Times : o <= u /\ u <= time'}
    <3>1. R \in SUBSET S /\ S \in SUBSET Times /\ R \in SUBSET Times
      <4>1. \A u \in Times : u <= time => u <= time'
        BY <2>2, LimiterTypes, TimesAreFinite
      <4> QED BY <4>1
    <3>2. /\ CheckedSince(k, o) = SumFunctionOnSet(checked[k], R)
          /\ CheckedSince(k, o)' = SumFunctionOnSet(checked[k], S)
      BY <2>2 DEF CheckedSince
    <3> HIDE DEF R, S
    <3> QED BY <2>2, <3>1, <3>2, HitsAdd
  <2>4. o <= time' /\ state[k].count \in Nat
    BY <2>1, <2>2, LimiterTypes, TimesAreFinite
  <2> QED BY <2>1, <2>3, <2>4
<1>4. CASE SetBack
  BY <1>4 DEF SetBack, history, Counted, CheckedSince
<1>5. CASE UNCHANGED limiterVars
  BY <1>5 DEF limiterVars, history, Counted, CheckedSince
<1> QED BY <1>1, <1>2, <1>3, <1>4, <1>5 DEF LimiterNext, Counted

LEMMA RefusedStep ==
  ASSUME LimiterTypeOK, Stamps, Counted, RefusedForItsCalls, [LimiterNext]_limiterVars
  PROVE  RefusedForItsCalls'
<1>1. ASSUME NEW w \in Threads, Check(w), Counts(call[w]) PROVE RefusedForItsCalls'
  <2> DEFINE key == call[w].key
             window == WindowOf(key, call[w].now)
  <2>1. w \in Pending /\ key \in Keys /\ time' = time
    BY <1>1, CheckTable, LimiterTypes DEF Check
  <2>2. checked' = [checked EXCEPT ![key][time] = @ + 1]
    BY <1>1 DEF Counts, OneMore
  <2>3. /\ checked \in [Keys -> [Times -> Nat]] /\ time \in Times
        /\ \A k \in Keys : \A S \in SUBSET Times :
             SumFunctionOnSet(checked[k], S) \in Nat
    BY HitsAdd DEF LimiterTypeOK
  <2>4. /\ checked'[key] = [checked[key] EXCEPT ![time] = @ + 1]
        /\ \A k \in Keys : k # key => checked'[k] = checked[k]
    BY <2>1, <2>2, <2>3
  <2>5. \A S \in SUBSET Times :
          SumFunctionOnSet(checked'[key], S) =
            SumFunctionOnSet(checked[key], S) + (IF time \in S THEN 1 ELSE 0)
    BY <2>1, <2>3, <2>4, HitsAdd
  <2>6. \A k \in Keys, S \in SUBSET Times :
          SumFunctionOnSet(checked[k], S) <= SumFunctionOnSet(checked'[k], S)
            /\ SumFunctionOnSet(checked'[k], S) \in Nat
    <3> TAKE k \in Keys, S \in SUBSET Times
    <3>1. CASE k = key
      BY <2>3, <2>5, <3>1
    <3>2. CASE k # key
      BY <2>3, <2>4, <3>2
    <3> QED BY <3>1, <3>2
  <2>7. ASSUME NEW r \in refused
        PROVE  SumFunctionOnSet(checked'[r[1]], Recent(r[2])) > Limit
    <3>1. r[1] \in Keys /\ Recent(r[2]) \in SUBSET Times
      BY DEF LimiterTypeOK, Recent
    <3>2. SumFunctionOnSet(checked[r[1]], Recent(r[2])) > Limit
      BY DEF RefusedForItsCalls
    <3> QED BY <2>3, <2>6, <3>1, <3>2, LimiterTypes
  <2>8. ASSUME refused' # refused
        PROVE  SumFunctionOnSet(checked'[key], Recent(time)) > Limit
    <3>1. PICK o \in Times : /\ o <= time /\ window.window_start <= o
                             /\ call[w].now < window.window_start + WindowSecs
                             /\ window.count <= CheckedSince(key, o)
      BY <2>1, WindowCounted
    <3>2. window.count + 1 > Limit
      <4>1. ~(window.count + 1 <= Limit)
        BY <1>1, <2>8 DEF Counts, OneMore
      <4>2. window.count \in Nat
        BY <2>1, WindowOfType
      <4> HIDE DEF window
      <4> QED BY <4>1, <4>2, LimiterTypes
    <3>3. {u \in Times : o <= u /\ u <= time} \in SUBSET Recent(time)
      <4>1. time <= call[w].now + back + MaxDelay
        BY <2>1, LimiterTypes DEF Stamps
      <4>2. window.window_start \in Nat
        BY <2>1, WindowOfType DEF Window
      <4> HIDE DEF window
      <4>3. \A u \in Times : o <= u => time < u + WindowSecs + MaxBack + MaxDelay
        BY <2>1, <3>1, <4>1, <4>2, LimiterTypes, TimesAreFinite
      <4> QED BY <4>3 DEF Recent
    <3>4. /\ CheckedSince(key, o) + 1 <= SumFunctionOnSet(checked'[key], Recent(time))
          /\ CheckedSince(key, o) \in Nat
      <4>1. Recent(time) \in SUBSET Times
        BY DEF Recent
      <4>2. time \in Recent(time)
        BY <2>3, LimiterTypes DEF Recent
      <4>3. CheckedSince(key, o) <= SumFunctionOnSet(checked[key], Recent(time))
        BY <2>1, <2>3, <3>3, <4>1, HitsAdd DEF CheckedSince
      <4>4. SumFunctionOnSet(checked[key], Recent(time)) \in Nat
        BY <2>1, <2>3, <4>1
      <4>5. CheckedSince(key, o) \in Nat
        BY <2>1, <2>3 DEF CheckedSince
      <4> HIDE DEF key
      <4> QED BY <2>5, <4>1, <4>2, <4>3, <4>4, <4>5
    <3>5. window.count \in Nat /\ SumFunctionOnSet(checked'[key], Recent(time)) \in Nat
      <4>1. Recent(time) \in SUBSET Times
        BY DEF Recent
      <4> QED BY <2>1, <2>6, <4>1, WindowOfType
    <3> HIDE DEF window, key
    <3> QED BY <3>1, <3>2, <3>4, <3>5, LimiterTypes
  <2>9. refused' = refused \/ refused' = refused \cup {<<key, time>>}
    BY <1>1 DEF Counts, OneMore
  <2>10. ASSUME NEW r \in refused'
         PROVE  SumFunctionOnSet(checked'[r[1]], Recent(r[2])) > Limit
    <3>1. CASE r \in refused
      BY <2>7, <3>1
    <3>2. CASE r \notin refused
      <4>1. refused' # refused /\ r = <<key, time>>
        BY <2>9, <2>10, <3>2
      <4>2. r[1] = key /\ r[2] = time
        BY <4>1
      <4> HIDE DEF key
      <4> QED BY <2>8, <4>1, <4>2
    <3> QED BY <3>1, <3>2
  <2> QED BY <2>10 DEF RefusedForItsCalls
<1>2. ASSUME UNCHANGED <<checked, refused>> PROVE RefusedForItsCalls'
  BY <1>2 DEF RefusedForItsCalls
<1>3. ASSUME NEW w \in Threads, Check(w), FailsOpen(call[w]) PROVE RefusedForItsCalls'
  BY <1>2, <1>3 DEF FailsOpen
<1>4. ASSUME NEW w \in Threads, NEW d \in Devices \cup {NoDevice}, Begin(w, d)
      PROVE  RefusedForItsCalls'
  BY <1>2, <1>4 DEF Begin, history
<1>5. CASE TimePasses \/ SetBack \/ UNCHANGED limiterVars
  BY <1>2, <1>5 DEF TimePasses, SetBack, limiterVars, history
<1> QED BY <1>1, <1>3, <1>4, <1>5 DEF LimiterNext, Check

\* check refuses a key when its own window has run out: windows of other keys,
\* stamps that get to the table out of order and a clock that is set back never
\* have it refused for less than its limit.
THEOREM RefusedForOwnCalls == LimiterSpec => []RefusedForItsCalls
<1> DEFINE LIInv == LimiterTypeOK /\ Stamps /\ Counted /\ RefusedForItsCalls
<1>1. LimiterInit => LIInv
  <2> SUFFICES ASSUME LimiterInit PROVE LIInv
    OBVIOUS
  <2>1. Pending = {} /\ DOMAIN state = {} /\ refused = {}
    BY DEF LimiterInit, Pending
  <2> QED BY <2>1, LimiterInitType DEF Stamps, Counted, RefusedForItsCalls
<1>2. LIInv /\ [LimiterNext]_limiterVars => LIInv'
  BY LimiterTypeStep, StampsStep, CountedStep, RefusedStep
<1>3. LIInv => RefusedForItsCalls
  OBVIOUS
<1> QED BY <1>1, <1>2, <1>3, PTL DEF LimiterSpec

-----------------------------------------------------------------------------
(* A key is let through uncounted in a crowd only.                         *)

\* A key is in the table for a call that was counted.
Positive == \A k \in DOMAIN state : state[k].count > 0

LEMMA PositiveStep ==
  ASSUME LimiterTypeOK, Positive, [LimiterNext]_limiterVars
  PROVE  Positive'
<1>1. ASSUME NEW w \in Threads, Check(w), NEW k \in DOMAIN state'
      PROVE  state'[k].count > 0
  <2>1. CASE k # call[w].key
    <3>1. k \in DOMAIN state /\ state'[k] = state[k]
      BY <1>1, <2>1, CheckTable
    <3> QED BY <3>1 DEF Positive
  <2>2. CASE k = call[w].key
    <3> DEFINE window == WindowOf(k, call[w].now)
    <3>1. w \in Pending /\ state'[k] = [window EXCEPT !.count = @ + 1]
      BY <1>1, <2>2, CheckTable
    <3>2. window \in Window /\ window.count \in Nat
      BY <2>2, <3>1, WindowOfType
    <3> HIDE DEF window
    <3>3. state'[k].count = window.count + 1
      BY <3>1, <3>2 DEF Window
    <3> QED BY <3>2, <3>3
  <2> QED BY <2>1, <2>2
<1>2. ASSUME UNCHANGED state PROVE Positive'
  BY <1>2 DEF Positive
<1>3. ASSUME NEW w \in Threads, NEW d \in Devices \cup {NoDevice}, Begin(w, d)
      PROVE  Positive'
  BY <1>2, <1>3 DEF Begin
<1>4. CASE TimePasses \/ SetBack \/ UNCHANGED limiterVars
  BY <1>2, <1>4 DEF TimePasses, SetBack, limiterVars
<1> QED BY <1>1, <1>3, <1>4 DEF LimiterNext, Positive

LEMMA KeysAreFinite == IsFiniteSet(Keys) /\ \A S \in SUBSET Keys : IsFiniteSet(S)
<1>1. IsFiniteSet(Keys)
  BY RateLimiterAssumption, FS_AddElement DEF Keys
<1> QED BY <1>1, FS_Subset

\* A table that holds on to its keys after the sweep has a recent call of each.
LEMMA OpensAmongOthers ==
  ASSUME LimiterTypeOK, Stamps, Counted, Positive,
         NEW w \in Threads, Check(w), FailsOpen(call[w])
  PROVE  Full(Crowd(call[w].key, time))
<1> DEFINE c == call[w]
           kept == Retained(c.now)
<1>1. /\ w \in Pending /\ c.key \in Keys /\ c.now \in Nat
      /\ time \in Times /\ time \in Nat /\ time <= c.now + back + MaxDelay
  <2>1. w \in Pending /\ time \in Times
    BY CheckTable DEF LimiterTypeOK
  <2>2. c.since \in Nat /\ c.now \in Nat /\ c.key \in Keys
    BY <2>1, LimiterTypes
  <2>3. time <= c.since + MaxDelay /\ c.since <= c.now + back
    BY <2>1 DEF Stamps
  <2> HIDE DEF c
  <2> QED BY <2>1, <2>2, <2>3, LimiterTypes
<1>2. c.key \notin kept /\ Full(kept)
  <2>1. c.key \notin Swept(c.key, c.now) /\ Full(Swept(c.key, c.now))
    BY DEF FailsOpen
  <2>2. Full(DOMAIN state) /\ c.key \notin DOMAIN state
    BY <2>1 DEF Swept
  <2> QED BY <2>1, <2>2 DEF Swept
<1>3. kept \subseteq Crowd(c.key, time)
  <2> SUFFICES ASSUME NEW k \in kept
               PROVE  k \in Keys \ {c.key} /\ \E u \in Recent(time) : checked[k][u] > 0
    BY DEF Crowd
  <2>1. /\ k \in DOMAIN state /\ k \in Keys /\ k # c.key /\ state[k].window_start \in Nat
        /\ c.now < state[k].window_start + WindowSecs
    <3>1. k \in DOMAIN state /\ ~Over(c.now, state[k])
      BY DEF Retained
    <3> HIDE DEF kept, c
    <3> QED BY <1>1, <1>2, <3>1, LimiterTypes, OverMeans DEF c, kept
  <2>2. PICK o \in Times : /\ o <= time /\ state[k].window_start <= o
                           /\ state[k].count <= CheckedSince(k, o)
    BY <2>1 DEF Counted
  <2> DEFINE S == {u \in Times : o <= u /\ u <= time}
  <2>3. S \in SUBSET Recent(time)
    <3>1. time < state[k].window_start + WindowSecs + MaxBack + MaxDelay
      <4> HIDE DEF c
      <4> QED BY <1>1, <2>1, LimiterTypes
    <3>2. \A u \in Times : o <= u => time < u + WindowSecs + MaxBack + MaxDelay
      BY <1>1, <2>1, <2>2, <3>1, LimiterTypes, TimesAreFinite
    <3> QED BY <3>2 DEF Recent
  <2>4. PICK u \in S : checked[k][u] # 0
    <3>1. state[k].count > 0 /\ state[k].count \in Nat
      BY <2>1, LimiterTypes DEF Positive
    <3>2. checked[k] \in [Times -> Nat] /\ CheckedSince(k, o) = SumFunctionOnSet(checked[k], S)
      BY <2>1 DEF LimiterTypeOK, CheckedSince
    <3>3. IsFiniteSet(S) /\ S \in SUBSET Times
      BY TimesAreFinite
    <3> HIDE DEF S
    <3>4. SumFunctionOnSet(checked[k], S) # 0
      BY <2>2, <3>1, <3>2
    <3> QED BY <3>3, <3>4, SumOfZeros
  <2>5. checked[k][u] \in Nat
    BY <2>1 DEF LimiterTypeOK
  <2> QED BY <2>1, <2>3, <2>4, <2>5
<1>4. Cardinality(kept) <= Cardinality(Crowd(c.key, time))
  <2>1. Crowd(c.key, time) \in SUBSET Keys
    BY DEF Crowd
  <2> HIDE DEF kept
  <2> QED BY <1>3, <2>1, KeysAreFinite, FS_Subset
<1>5. Cardinality(kept) \in Nat /\ Cardinality(Crowd(c.key, time)) \in Nat
  <2>1. kept \in SUBSET Keys /\ Crowd(c.key, time) \in SUBSET Keys
    BY DEF Crowd, Retained, LimiterTypeOK
  <2> HIDE DEF kept
  <2> QED BY <2>1, KeysAreFinite, FS_CardinalityType
<1> HIDE DEF kept, c
<1>6. MaxTrackedKeys \in Nat
  BY RateLimiterAssumption
<1> QED BY <1>2, <1>4, <1>5, <1>6 DEF Full, c

\* A crowd grows only: no call is taken back.
LEMMA CrowdGrows ==
  ASSUME LimiterTypeOK, [LimiterNext]_limiterVars, NEW key \in Keys, NEW t \in Times,
         Full(Crowd(key, t))
  PROVE  Full(Crowd(key, t))'
<1>1. \A k \in Keys, u \in Times : checked[k][u] > 0 => checked'[k][u] > 0
  <2>1. ASSUME NEW w \in Threads, Check(w), NEW k \in Keys, NEW u \in Times
        PROVE  checked[k][u] > 0 => checked'[k][u] > 0
    <3>1. checked' = checked \/ checked' = OneMore(checked, call[w].key)
      BY <2>1 DEF Check, FailsOpen, Counts
    <3>2. checked'[k][u] = checked[k][u] \/ checked'[k][u] = checked[k][u] + 1
      BY <3>1 DEF OneMore, LimiterTypeOK
    <3>3. checked[k][u] \in Nat
      BY DEF LimiterTypeOK
    <3> QED BY <3>2, <3>3
  <2>2. ASSUME NEW w \in Threads, NEW d \in Devices \cup {NoDevice}, Begin(w, d)
        PROVE  checked' = checked
    BY <2>2 DEF Begin, history
  <2>3. CASE TimePasses \/ SetBack \/ UNCHANGED limiterVars
    BY <2>3 DEF TimePasses, SetBack, limiterVars, history
  <2> QED BY <2>1, <2>2, <2>3 DEF LimiterNext
<1> DEFINE before == Crowd(key, t)
           after == Crowd(key, t)'
<1>2. before \subseteq after /\ after \in SUBSET Keys
  <2>1. Recent(t)' = Recent(t) /\ Recent(t) \in SUBSET Times
    BY DEF Recent
  <2> QED BY <1>1, <2>1 DEF Crowd
<1>3. Cardinality(before) >= MaxTrackedKeys
  BY DEF Full
<1> HIDE DEF before, after
<1>4. /\ Cardinality(before) <= Cardinality(after)
      /\ Cardinality(before) \in Nat /\ Cardinality(after) \in Nat
  BY <1>2, KeysAreFinite, FS_Subset, FS_CardinalityType
<1>5. Cardinality(after) >= MaxTrackedKeys
  BY <1>3, <1>4, RateLimiterAssumption
<1> QED BY <1>5 DEF after, Full

LEMMA OpensStep ==
  ASSUME LimiterTypeOK, Stamps, Counted, Positive, OpensInACrowd, [LimiterNext]_limiterVars
  PROVE  OpensInACrowd'
<1> SUFFICES ASSUME NEW key \in Keys, NEW t \in Times, admitted'[key][t] # counted'[key][t]
             PROVE  Full(Crowd(key, t))'
  BY DEF OpensInACrowd
<1>1. ASSUME admitted[key][t] # counted[key][t] PROVE Full(Crowd(key, t))'
  BY <1>1, CrowdGrows DEF OpensInACrowd
<1>2. ASSUME NEW w \in Threads, Check(w), FailsOpen(call[w]) PROVE Full(Crowd(key, t))'
  <2>1. /\ admitted' = OneMore(admitted, call[w].key) /\ counted' = counted
        /\ admitted \in [Keys -> [Times -> Nat]]
    BY <1>2 DEF FailsOpen, LimiterTypeOK
  <2>2. CASE key = call[w].key /\ t = time
    BY <1>2, <2>2, OpensAmongOthers, CrowdGrows
  <2>3. CASE ~(key = call[w].key /\ t = time)
    <3>1. admitted'[key][t] = admitted[key][t]
      BY <2>1, <2>3 DEF OneMore
    <3> QED BY <1>1, <2>1, <3>1
  <2> QED BY <2>2, <2>3
<1>3. ASSUME NEW w \in Threads, Check(w), Counts(call[w]) PROVE Full(Crowd(key, t))'
  <2>1. \/ UNCHANGED <<admitted, counted>>
        \/ /\ admitted' = OneMore(admitted, call[w].key)
           /\ counted' = OneMore(counted, call[w].key)
    BY <1>3 DEF Counts
  <2>2. admitted \in [Keys -> [Times -> Nat]] /\ counted \in [Keys -> [Times -> Nat]]
    BY DEF LimiterTypeOK
  <2>3. admitted[key][t] # counted[key][t]
    BY <2>1, <2>2 DEF OneMore
  <2> QED BY <1>1, <2>3
<1>4. ASSUME NEW w \in Threads, NEW d \in Devices \cup {NoDevice}, Begin(w, d)
      PROVE  Full(Crowd(key, t))'
  BY <1>1, <1>4 DEF Begin, history
<1>5. CASE TimePasses \/ SetBack \/ UNCHANGED limiterVars
  BY <1>1, <1>5 DEF TimePasses, SetBack, limiterVars, history
<1> QED BY <1>2, <1>3, <1>4, <1>5 DEF LimiterNext, Check

\* check lets a key through without counting it (ratelimit.rs:69) only while at
\* least max_tracked_keys other keys have each had a call counted within the
\* seconds of a window that may still be open: the sweep before it leaves no
\* window behind that takes up room for nothing.
THEOREM OpensOnlyInACrowd == LimiterSpec => []OpensInACrowd
<1> DEFINE LIInv == LimiterTypeOK /\ Stamps /\ Counted /\ Positive /\ OpensInACrowd
<1>1. LimiterInit => LIInv
  <2> SUFFICES ASSUME LimiterInit PROVE LIInv
    OBVIOUS
  <2>1. Pending = {} /\ DOMAIN state = {} /\ admitted = counted
    BY DEF LimiterInit, Pending
  <2> QED BY <2>1, LimiterInitType DEF Stamps, Counted, Positive, OpensInACrowd
<1>2. LIInv /\ [LimiterNext]_limiterVars => LIInv'
  BY LimiterTypeStep, StampsStep, CountedStep, PositiveStep, OpensStep
<1>3. LIInv => OpensInACrowd
  OBVIOUS
<1> QED BY <1>1, <1>2, <1>3, PTL DEF LimiterSpec

-----------------------------------------------------------------------------
(* The table counts no more than twice the limit of a key in the seconds of *)
(* Burst.                                                                  *)

\* Of two stamps, since being when the clock was read and now what it read, one
\* was taken first, and the clock has been set back no less at the other.
InTurn(since1, now1, since2, now2) ==
  \/ since1 <= since2 /\ since1 + now2 <= since2 + now1
  \/ since2 <= since1 /\ since2 + now1 <= since1 + now2

CallsInTurn ==
  \A v, w \in Pending : InTurn(call[v].since, call[v].now, call[w].since, call[w].now)

\* The window of k was opened in second o.
OpenedAt(k, o) ==
  \E since \in Nat :
    /\ state[k].window_start <= since /\ since <= state[k].window_start + back
    /\ since <= o /\ o <= since + MaxDelay
    /\ \A w \in Pending :
         InTurn(since, state[k].window_start, call[w].since, call[w].now)

From(k, t) == SumFunctionOnSet(counted[k], {u \in Times : t <= u})

\* What the last window of k has let through.
Uses(k) ==
  IF k \in DOMAIN state /\ state[k].count <= Limit THEN state[k].count ELSE Limit

\* The last window of k was opened in second o and the one before it in second p.
TwoWindows(k, p, o) ==
  /\ p + (WindowSecs - MaxDelay) <= o /\ o <= time
  /\ k \notin DOMAIN state => o + (WindowSecs - MaxDelay) <= time
  /\ \A t \in Times : t > o => From(k, t) <= Uses(k)
  /\ \A t \in Times : t > p => From(k, t) <= Limit + Uses(k)
  /\ k \in DOMAIN state => OpenedAt(k, o)

Windows == \A k \in Keys : \E p, o \in Int : TwoWindows(k, p, o)

NoneYet == \A k \in Keys, u \in Times : u > time => counted[k][u] = 0

LEMMA CallsInTurnStep ==
  ASSUME LimiterTypeOK, Stamps, CallsInTurn, [LimiterNext]_limiterVars
  PROVE  CallsInTurn'
<1>1. ASSUME NEW w \in Threads, NEW d \in Devices \cup {NoDevice}, Begin(w, d)
      PROVE  CallsInTurn'
  <2>1. /\ call'[w].now = Clock /\ call'[w].since = time
        /\ \A v \in Pending' : v # w => v \in Pending /\ call'[v] = call[v]
    BY <1>1 DEF Begin, Pending, LimiterTypeOK
  <2>2. Clock \in Nat /\ Clock + back = time
    BY LimiterTypes DEF Clock
  <2>3. \A v \in Pending :
          InTurn(call[v].since, call[v].now, time, Clock)
            /\ InTurn(time, Clock, call[v].since, call[v].now)
    BY <2>2, LimiterTypes DEF Stamps, InTurn
  <2>4. InTurn(time, Clock, time, Clock)
    BY <2>2, LimiterTypes DEF InTurn
  <2>5. ASSUME NEW u \in Pending', NEW v \in Pending'
        PROVE  InTurn(call'[u].since, call'[u].now, call'[v].since, call'[v].now)
    <3>1. CASE u # w /\ v # w
      BY <2>1, <3>1 DEF CallsInTurn
    <3>2. CASE u = w /\ v = w
      BY <2>1, <2>4, <3>2
    <3>3. CASE (u = w) # (v = w)
      BY <2>1, <2>3, <3>3
    <3> QED BY <3>1, <3>2, <3>3
  <2> QED BY <2>5 DEF CallsInTurn
<1>2. ASSUME \A v \in Pending' : v \in Pending /\ call'[v] = call[v]
      PROVE  CallsInTurn'
  BY <1>2 DEF CallsInTurn
<1>3. ASSUME NEW w \in Threads, Check(w) PROVE CallsInTurn'
  BY <1>2, <1>3 DEF Check, Pending, LimiterTypeOK
<1>4. CASE TimePasses \/ SetBack \/ UNCHANGED limiterVars
  BY <1>2, <1>4 DEF TimePasses, SetBack, limiterVars, Pending
<1> QED BY <1>1, <1>3, <1>4 DEF LimiterNext

LEMMA NoneYetStep ==
  ASSUME LimiterTypeOK, NoneYet, [LimiterNext]_limiterVars
  PROVE  NoneYet'
<1>1. ASSUME NEW w \in Threads, Check(w) PROVE NoneYet'
  <2>1. /\ time' = time /\ time \in Times /\ call[w].key \in Keys
        /\ counted \in [Keys -> [Times -> Nat]]
    BY <1>1, CheckTable, LimiterTypes DEF Check, LimiterTypeOK
  <2>2. \/ counted' = counted
        \/ counted' = [counted EXCEPT ![call[w].key][time] = @ + 1]
    BY <1>1 DEF Check, FailsOpen, Counts, OneMore, history
  <2>3. \A k \in Keys, u \in Times : u # time => counted'[k][u] = counted[k][u]
    BY <2>1, <2>2
  <2>4. \A u \in Times : u > time => u # time
    BY LimiterTypes, TimesAreFinite
  <2> QED BY <2>1, <2>3, <2>4 DEF NoneYet
<1>2. CASE TimePasses
  <2>1. counted' = counted /\ \A u \in Times : u > time' => u > time
    BY <1>2, LimiterTypes, TimesAreFinite DEF TimePasses, history
  <2> QED BY <2>1 DEF NoneYet
<1>3. ASSUME NEW w \in Threads, NEW d \in Devices \cup {NoDevice}, Begin(w, d)
      PROVE  NoneYet'
  BY <1>3 DEF Begin, history, NoneYet
<1>4. CASE SetBack \/ UNCHANGED limiterVars
  BY <1>4 DEF SetBack, limiterVars, history, NoneYet
<1> QED BY <1>1, <1>2, <1>3, <1>4 DEF LimiterNext

\* A window that a call under way finds over was opened a window before it, less
\* the time a call may wait.
LEMMA OverLate ==
  ASSUME LimiterTypeOK, Stamps, MaxBack < WindowSecs, NEW w \in Pending,
         NEW k \in DOMAIN state, NEW o \in Int, OpenedAt(k, o), Over(call[w].now, state[k])
  PROVE  o + (WindowSecs - MaxDelay) <= time
<1> DEFINE start == state[k].window_start
           c == call[w]
<1>1. PICK since \in Nat :
        /\ start <= since /\ since <= start + back /\ since <= o /\ o <= since + MaxDelay
        /\ InTurn(since, start, c.since, c.now)
  BY DEF OpenedAt
<1>2. c.now >= start + WindowSecs
  BY LimiterTypes, OverMeans
<1>3. c.since <= time /\ c.now <= c.since
  BY DEF Stamps
<1>4. /\ {start, back, MaxBack, WindowSecs, MaxDelay, c.since, c.now, time} \subseteq Nat
      /\ back <= MaxBack
  BY LimiterTypes
<1> HIDE DEF start, c
<1>5. since <= c.since /\ since + c.now <= c.since + start
  <2>1. ~(c.since <= since)
    BY <1>1, <1>2, <1>3, <1>4
  <2> QED BY <1>1, <2>1 DEF InTurn
<1>6. since + WindowSecs <= time
  BY <1>2, <1>3, <1>4, <1>5
<1> QED BY <1>1, <1>4, <1>6

LEMMA UsesIsNat ==
  ASSUME LimiterTypeOK, NEW k
  PROVE  Uses(k) \in Nat /\ Uses(k) <= Limit
BY LimiterTypes DEF Uses

LEMMA FromIsNat ==
  ASSUME LimiterTypeOK, NEW k \in Keys, NEW t
  PROVE  From(k, t) \in Nat
<1>1. counted[k] \in [Times -> Nat]
  BY DEF LimiterTypeOK
<1> QED BY <1>1, HitsAdd DEF From

\* A step that leaves the start of a window alone leaves it in turn with the calls
\* under way, those that begin included.
LEMMA OpenedStays ==
  ASSUME LimiterTypeOK, NEW k \in DOMAIN state, NEW o \in Int, o <= time, OpenedAt(k, o),
         state'[k].window_start = state[k].window_start, back' \in Nat, back <= back',
         \A w \in Pending' :
           \/ w \in Pending /\ call'[w] = call[w]
           \/ call'[w].since = time /\ call'[w].now = Clock
  PROVE  OpenedAt(k, o)'
<1> DEFINE start == state[k].window_start
<1>1. PICK since \in Nat :
        /\ start <= since /\ since <= start + back /\ since <= o /\ o <= since + MaxDelay
        /\ \A w \in Pending : InTurn(since, start, call[w].since, call[w].now)
  BY DEF OpenedAt
<1>2. /\ start \in Nat /\ back \in Nat /\ time \in Nat /\ MaxDelay \in Nat
      /\ Clock \in Nat /\ Clock + back = time
  BY LimiterTypes DEF Clock
<1> HIDE DEF start
<1>3. since <= start + back'
  BY <1>1, <1>2
<1>4. InTurn(since, start, time, Clock)
  BY <1>1, <1>2 DEF InTurn
<1>5. \A w \in Pending' : InTurn(since, start, call'[w].since, call'[w].now)
  BY <1>1, <1>4
<1> QED BY <1>1, <1>3, <1>5 DEF OpenedAt, start

\* A step that counts nothing for k, and lets its window go only when it is over.
LEMMA WindowKept ==
  ASSUME LimiterTypeOK, LimiterTypeOK', NEW k \in Keys, NEW p \in Int, NEW o \in Int,
         TwoWindows(k, p, o), counted'[k] = counted[k],
         time <= time',
         k \in DOMAIN state' =>
           k \in DOMAIN state /\ state'[k] = state[k] /\ OpenedAt(k, o)',
         k \in DOMAIN state /\ k \notin DOMAIN state' => o + (WindowSecs - MaxDelay) <= time
  PROVE  TwoWindows(k, p, o)'
<1>1. /\ time \in Nat /\ time' \in Nat /\ {WindowSecs, MaxDelay, Limit} \subseteq Nat
      /\ Uses(k) \in Nat /\ Uses(k)' \in Nat /\ Uses(k) <= Limit
  <2>1. time' \in Nat
    BY TimesAreFinite DEF LimiterTypeOK
  <2>2. Uses(k)' \in Nat
    <3>1. k \in DOMAIN state' => state'[k].count \in Nat
      BY LimiterTypes
    <3> QED BY <3>1, LimiterTypes DEF Uses
  <2> QED BY <2>1, <2>2, LimiterTypes, UsesIsNat
<1>2. \A t \in Times : From(k, t)' = From(k, t) /\ From(k, t) \in Nat
  BY FromIsNat DEF From
<1>3. Uses(k) <= Uses(k)'
  <2>1. CASE k \in DOMAIN state'
    <3>1. Uses(k)' = Uses(k)
      BY <2>1 DEF Uses
    <3> QED BY <1>1, <3>1
  <2>2. CASE k \notin DOMAIN state'
    <3>1. Uses(k)' = Limit
      BY <2>2 DEF Uses
    <3> QED BY <1>1, <3>1
  <2> QED BY <2>1, <2>2
<1>4. /\ p + (WindowSecs - MaxDelay) <= o /\ o <= time
      /\ k \notin DOMAIN state => o + (WindowSecs - MaxDelay) <= time
      /\ \A t \in Times : t > o => From(k, t) <= Uses(k)
      /\ \A t \in Times : t > p => From(k, t) <= Limit + Uses(k)
  BY DEF TwoWindows
<1>5. o <= time' /\ (k \notin DOMAIN state' => o + (WindowSecs - MaxDelay) <= time')
  BY <1>1, <1>4
<1>6. \A t \in Times : t > o => From(k, t)' <= Uses(k)'
  BY <1>1, <1>2, <1>3, <1>4
<1>7. \A t \in Times : t > p => From(k, t)' <= Limit + Uses(k)'
  BY <1>1, <1>2, <1>3, <1>4
<1> QED BY <1>4, <1>5, <1>6, <1>7 DEF TwoWindows

\* One more call is let through, if the window has room for it.
LEMMA FromCounts ==
  ASSUME LimiterTypeOK, NEW w \in Threads, Check(w), Counts(call[w]),
         NEW k, k = call[w].key, NEW t \in Times
  PROVE  From(k, t)' = From(k, t) +
           (IF t <= time /\ WindowOf(k, call[w].now).count + 1 <= Limit THEN 1 ELSE 0)
<1> DEFINE within == WindowOf(k, call[w].now).count + 1 <= Limit
           S == {u \in Times : t <= u}
<1>1. k \in Keys /\ time \in Times /\ counted \in [Keys -> [Times -> Nat]]
  BY CheckTable, LimiterTypes DEF LimiterTypeOK
<1>2. From(k, t) \in Nat
  BY <1>1, FromIsNat
<1>3. /\ From(k, t) = SumFunctionOnSet(counted[k], S)
      /\ From(k, t)' = SumFunctionOnSet(counted'[k], S)
  BY DEF From
<1>4. S \in SUBSET Times /\ (time \in S <=> t <= time)
  BY <1>1
<1>5. CASE within
  <2>1. counted' = [counted EXCEPT ![k][time] = @ + 1]
    BY <1>5 DEF Counts, OneMore
  <2>2. /\ counted'[k] = [counted[k] EXCEPT ![time] = @ + 1]
        /\ counted[k] \in [Times -> Nat]
    BY <1>1, <2>1
  <2> HIDE DEF within, S
  <2>3. SumFunctionOnSet(counted'[k], S) =
          SumFunctionOnSet(counted[k], S) + (IF time \in S THEN 1 ELSE 0)
    BY <1>4, <2>2, HitsAdd
  <2>4. From(k, t)' = From(k, t) + (IF t <= time /\ within THEN 1 ELSE 0)
    BY <1>3, <1>4, <1>5, <2>3
  <2> QED BY <2>4 DEF within
<1>6. CASE ~within
  <2>1. counted' = counted
    BY <1>6 DEF Counts, OneMore
  <2> HIDE DEF within, S
  <2>2. From(k, t)' = From(k, t) + (IF t <= time /\ within THEN 1 ELSE 0)
    BY <1>2, <1>3, <1>6, <2>1
  <2> QED BY <2>2 DEF within
<1> QED BY <1>5, <1>6

\* A call that is counted in the last window, or opens the next one.
LEMMA WindowCounts ==
  ASSUME LimiterTypeOK, LimiterTypeOK', Stamps, CallsInTurn, NoneYet, MaxBack < WindowSecs,
         NEW w \in Threads, Check(w), Counts(call[w]),
         NEW k, k = call[w].key, NEW p \in Int, NEW o \in Int, TwoWindows(k, p, o)
  PROVE  \E q, r \in Int : TwoWindows(k, q, r)'
<1> DEFINE window == WindowOf(k, call[w].now)
           one == IF window.count + 1 <= Limit THEN 1 ELSE 0
           room == WindowSecs - MaxDelay
<1>1. /\ w \in Pending /\ k \in Keys /\ k \in DOMAIN state' /\ time' = time /\ back' = back
      /\ state'[k] = [window EXCEPT !.count = @ + 1]
      /\ \A v \in Pending' : v \in Pending /\ call'[v] = call[v]
  <2>1. time' = time /\ back' = back
    BY DEF Check
  <2>2. \A v \in Pending' : v \in Pending /\ call'[v] = call[v]
    BY DEF Check, Pending, LimiterTypeOK
  <2>3. ~FailsOpen(call[w])
    BY DEF FailsOpen, Counts, OneMore
  <2>4. /\ w \in Pending /\ k \in DOMAIN state'
        /\ state'[k] = [window EXCEPT !.count = @ + 1]
    BY <2>3, CheckTable
  <2>5. k \in Keys
    BY <2>4, LimiterTypes
  <2> QED BY <2>1, <2>2, <2>4, <2>5
<1>2. window \in Window /\ window.count \in Nat /\ window.window_start \in Nat
  BY <1>1, WindowOfType DEF Window
<1>3. /\ {time, Limit, WindowSecs, MaxDelay, MaxBack, back} \subseteq Nat
      /\ room \in Int /\ one \in 0 .. 1
  BY LimiterTypes
<1>4. /\ p + room <= o /\ o <= time /\ (k \notin DOMAIN state => o + room <= time)
      /\ \A t \in Times : t > o => From(k, t) <= Uses(k)
      /\ \A t \in Times : t > p => From(k, t) <= Limit + Uses(k)
      /\ k \in DOMAIN state => OpenedAt(k, o)
  BY DEF TwoWindows
<1>5. \A t \in Times : /\ t \in Nat /\ From(k, t) \in Nat
                       /\ From(k, t)' = From(k, t) + (IF t <= time THEN one ELSE 0)
  <2> TAKE t \in Times
  <2>1. t \in Nat /\ From(k, t) \in Nat
    BY <1>1, FromIsNat, TimesAreFinite
  <2>2. From(k, t)' =
          From(k, t) + (IF t <= time /\ window.count + 1 <= Limit THEN 1 ELSE 0)
    BY FromCounts
  <2> HIDE DEF window
  <2> QED BY <2>1, <2>2
<1>6. /\ state'[k].count = window.count + 1 /\ state'[k].window_start = window.window_start
  <2> HIDE DEF window
  <2> QED BY <1>1, <1>2 DEF Window
<1>7. Uses(k)' = (IF window.count + 1 <= Limit THEN window.count + 1 ELSE Limit)
  <2> HIDE DEF window
  <2> QED BY <1>1, <1>6 DEF Uses
<1>8. Uses(k) \in Nat /\ Uses(k) <= Limit
  BY UsesIsNat
<1>9. CASE k \in DOMAIN state /\ ~Over(call[w].now, state[k])
  <2>1. window = state[k]
    BY <1>9 DEF WindowOf
  <2> HIDE DEF window
  <2>2. Uses(k) + one <= Uses(k)'
    <3>1. Uses(k) = (IF window.count <= Limit THEN window.count ELSE Limit)
      BY <1>9, <2>1 DEF Uses
    <3> QED BY <1>2, <1>3, <1>7, <3>1
  <2>3. Uses(k)' \in Nat
    BY <1>2, <1>3, <1>7
  <2>4. OpenedAt(k, o)'
    <3>1. state'[k].window_start = state[k].window_start /\ OpenedAt(k, o)
      BY <1>4, <1>6, <1>9, <2>1
    <3>2. o <= time /\ back' \in Nat /\ back <= back' /\ k \in DOMAIN state
      BY <1>1, <1>3, <1>4, <1>9
    <3> QED BY <1>1, <3>1, <3>2, OpenedStays
  <2> HIDE DEF one, room
  <2>5. \A t \in Times : t > o => From(k, t)' <= Uses(k)'
    BY <1>3, <1>4, <1>5, <1>8, <2>2, <2>3
  <2>6. \A t \in Times : t > p => From(k, t)' <= Limit + Uses(k)'
    BY <1>3, <1>4, <1>5, <1>8, <2>2, <2>3
  <2>7. TwoWindows(k, p, o)'
    BY <1>1, <1>4, <2>4, <2>5, <2>6 DEF TwoWindows, room
  <2> QED BY <2>7
<1>10. CASE ~(k \in DOMAIN state /\ ~Over(call[w].now, state[k]))
  <2>1. window = [window_start |-> call[w].now, count |-> 0]
    BY <1>10 DEF WindowOf
  <2>2. window.window_start = call[w].now /\ window.count = 0
    BY <2>1
  <2>3. o + room <= time
    <3>1. CASE k \notin DOMAIN state
      BY <1>4, <3>1
    <3>2. CASE k \in DOMAIN state
      BY <1>1, <1>4, <1>10, <3>2, OverLate
    <3> QED BY <3>1, <3>2
  <2>4. OpenedAt(k, time)'
    <3> DEFINE since == call[w].since
    <3>1. since \in Nat /\ call[w].now \in Nat
      BY <1>1, LimiterTypes
    <3>2. /\ call[w].now <= since /\ since <= call[w].now + back
          /\ since <= time /\ time <= since + MaxDelay
      BY <1>1 DEF Stamps
    <3>3. \A v \in Pending' : InTurn(since, call[w].now, call'[v].since, call'[v].now)
      BY <1>1 DEF CallsInTurn
    <3>4. state'[k].window_start = call[w].now
      BY <1>6, <2>2
    <3> HIDE DEF since
    <3> QED BY <1>1, <3>1, <3>2, <3>3, <3>4 DEF OpenedAt
  <2>5. Uses(k)' = one /\ one <= Limit
    <3>1. Limit \in Nat /\ (0 + 1 <= Limit \/ Limit = 0)
      BY <1>3
    <3> HIDE DEF window
    <3>2. Uses(k)' = (IF 0 + 1 <= Limit THEN 0 + 1 ELSE Limit)
      BY <1>7, <2>2
    <3>3. one = (IF 0 + 1 <= Limit THEN 1 ELSE 0)
      BY <2>2
    <3> HIDE DEF one
    <3> QED BY <3>1, <3>2, <3>3
  <2> HIDE DEF one, window
  <2>6. \A t \in Times : t > time => From(k, t) = 0
    <3> TAKE t \in Times
    <3> SUFFICES ASSUME t > time PROVE From(k, t) = 0
      OBVIOUS
    <3> DEFINE S == {u \in Times : t <= u}
    <3>1. \A u \in S : counted[k][u] = 0
      <4>1. \A u \in Times : t <= u => u > time
        BY <1>3, TimesAreFinite
      <4> QED BY <1>1, <4>1 DEF NoneYet
    <3>2. IsFiniteSet(S)
      BY TimesAreFinite
    <3> HIDE DEF S
    <3>3. SumFunctionOnSet(counted[k], S) = 0
      BY <3>1, <3>2, SumOfZeros
    <3> QED BY <3>3 DEF From, S
  <2>7. \A t \in Times : t > time => From(k, t)' <= Uses(k)'
    BY <1>3, <1>5, <2>5, <2>6
  <2>8. \A t \in Times : t > o => From(k, t)' <= Limit + Uses(k)'
    BY <1>3, <1>4, <1>5, <1>8, <2>5
  <2>9. TwoWindows(k, o, time)'
    BY <1>1, <1>3, <2>3, <2>4, <2>7, <2>8 DEF TwoWindows, room
  <2>10. time \in Int
    BY <1>3
  <2> QED BY <1>1, <2>9, <2>10
<1> QED BY <1>9, <1>10

LEMMA WindowsStep ==
  ASSUME LimiterTypeOK, LimiterTypeOK', Stamps, CallsInTurn, NoneYet, Windows,
         MaxBack < WindowSecs, [LimiterNext]_limiterVars
  PROVE  Windows'
<1> SUFFICES ASSUME NEW k \in Keys PROVE \E q, r \in Int : TwoWindows(k, q, r)'
  BY DEF Windows
<1>1. PICK p \in Int, o \in Int : TwoWindows(k, p, o)
  BY DEF Windows
<1>2. /\ o <= time /\ (k \in DOMAIN state => OpenedAt(k, o))
      /\ time \in Nat /\ back \in Nat
  BY <1>1, LimiterTypes DEF TwoWindows
<1>3. ASSUME NEW w \in Threads, Check(w) PROVE \E q, r \in Int : TwoWindows(k, q, r)'
  <2>1. CASE Counts(call[w]) /\ k = call[w].key
    BY <1>1, <1>3, <2>1, WindowCounts
  <2>2. CASE ~(Counts(call[w]) /\ k = call[w].key)
    <3>1. /\ w \in Pending /\ time' = time /\ back' = back
          /\ \A v \in Pending' : v \in Pending /\ call'[v] = call[v]
      BY <1>3 DEF Check, Pending, LimiterTypeOK
    <3>2. counted'[k] = counted[k]
      <4>1. \/ counted' = counted
            \/ k # call[w].key /\ counted' = [counted EXCEPT ![call[w].key][time] = @ + 1]
        BY <1>3, <2>2 DEF Check, FailsOpen, Counts, OneMore, history
      <4>2. counted \in [Keys -> [Times -> Nat]]
        BY DEF LimiterTypeOK
      <4> QED BY <4>1, <4>2
    <3>3. k \in DOMAIN state' => k \in DOMAIN state /\ state'[k] = state[k]
      BY <1>3, <2>2, CheckTable
    <3>4. k \in DOMAIN state' => OpenedAt(k, o)'
      <4> SUFFICES ASSUME k \in DOMAIN state' PROVE OpenedAt(k, o)'
        OBVIOUS
      <4>1. k \in DOMAIN state /\ state'[k].window_start = state[k].window_start
        BY <3>3
      <4>2. back' \in Nat /\ back <= back'
        BY <1>2, <3>1
      <4> QED BY <1>2, <3>1, <4>1, <4>2, OpenedStays
    <3>5. k \in DOMAIN state /\ k \notin DOMAIN state' => o + (WindowSecs - MaxDelay) <= time
      <4> SUFFICES ASSUME k \in DOMAIN state, k \notin DOMAIN state'
                   PROVE  o + (WindowSecs - MaxDelay) <= time
        OBVIOUS
      <4>1. Over(call[w].now, state[k])
        BY <1>3, CheckTable
      <4> QED BY <1>2, <3>1, <4>1, OverLate
    <3>6. time <= time'
      BY <1>2, <3>1
    <3>7. TwoWindows(k, p, o)'
      BY <1>1, <3>2, <3>3, <3>4, <3>5, <3>6, WindowKept
    <3> QED BY <3>7
  <2> QED BY <2>1, <2>2
<1>4. ASSUME state' = state, counted' = counted, time' \in Nat, time <= time',
             back' \in Nat, back <= back',
             \A w \in Pending' :
               \/ w \in Pending /\ call'[w] = call[w]
               \/ call'[w].since = time /\ call'[w].now = Clock
      PROVE  \E q, r \in Int : TwoWindows(k, q, r)'
  <2>1. k \in DOMAIN state => OpenedAt(k, o)'
    BY <1>2, <1>4, OpenedStays
  <2>2. TwoWindows(k, p, o)'
    BY <1>1, <1>4, <2>1, WindowKept
  <2> QED BY <2>2
<1>5. ASSUME NEW w \in Threads, NEW d \in Devices \cup {NoDevice}, Begin(w, d)
      PROVE  \E q, r \in Int : TwoWindows(k, q, r)'
  <2>1. /\ call'[w].now = Clock /\ call'[w].since = time
        /\ \A v \in Pending' : v # w => v \in Pending /\ call'[v] = call[v]
    BY <1>5 DEF Begin, Pending, LimiterTypeOK
  <2>2. state' = state /\ counted' = counted /\ time' = time /\ back' = back
    BY <1>5 DEF Begin, history
  <2>3. time' \in Nat /\ time <= time' /\ back' \in Nat /\ back <= back'
    BY <1>2, <2>2
  <2> QED BY <1>4, <2>1, <2>2, <2>3
<1>6. CASE TimePasses
  <2>1. /\ Pending' = Pending /\ call' = call /\ time' = time + 1 /\ back' = back
        /\ state' = state /\ counted' = counted
    BY <1>6 DEF TimePasses, Pending, history
  <2>2. time' \in Nat /\ time <= time' /\ back' \in Nat /\ back <= back'
    BY <1>2, <2>1
  <2> QED BY <1>4, <2>1, <2>2
<1>7. CASE SetBack
  <2>1. /\ Pending' = Pending /\ call' = call /\ time' = time /\ back' = back + 1
        /\ state' = state /\ counted' = counted
    BY <1>7 DEF SetBack, Pending, history
  <2>2. time' \in Nat /\ time <= time' /\ back' \in Nat /\ back <= back'
    BY <1>2, <2>1
  <2> QED BY <1>4, <2>1, <2>2
<1>8. CASE UNCHANGED limiterVars
  <2>1. /\ Pending' = Pending /\ call' = call /\ time' = time /\ back' = back
        /\ state' = state /\ counted' = counted
    BY <1>8 DEF limiterVars, Pending, history
  <2>2. time' \in Nat /\ time <= time' /\ back' \in Nat /\ back <= back'
    BY <1>2, <2>1
  <2> QED BY <1>4, <2>1, <2>2
<1> QED BY <1>3, <1>5, <1>6, <1>7, <1>8 DEF LimiterNext

CountedBurst ==
  \A key \in Keys, t \in Times :
    SumFunctionOnSet(counted[key], Span(t, WindowSecs - MaxDelay)) <= 2 * Limit

LEMMA BurstStep ==
  ASSUME LimiterTypeOK, LimiterTypeOK', Windows', CountedBurst, MaxBack < WindowSecs,
         [LimiterNext]_limiterVars
  PROVE  CountedBurst'
<1> DEFINE room == WindowSecs - MaxDelay
<1> SUFFICES ASSUME NEW k \in Keys, NEW t \in Times
             PROVE  SumFunctionOnSet(counted'[k], Span(t, room)) <= 2 * Limit
  BY DEF CountedBurst, Span
<1>1. SumFunctionOnSet(counted[k], Span(t, room)) <= 2 * Limit
  BY DEF CountedBurst
<1>2. /\ counted[k] \in [Times -> Nat] /\ counted'[k] \in [Times -> Nat]
      /\ {time, Limit, WindowSecs, MaxDelay} \subseteq Nat /\ room \in Int
      /\ t \in Nat /\ Span(t, room) \in SUBSET Times /\ IsFiniteSet(Span(t, room))
  <2>1. Span(t, room) \in SUBSET Times
    BY DEF Span
  <2>2. /\ {time, Limit, WindowSecs, MaxDelay} \subseteq Nat
        /\ counted[k] \in [Times -> Nat] /\ counted'[k] \in [Times -> Nat]
    BY LimiterTypes DEF LimiterTypeOK
  <2> QED BY <2>1, <2>2, TimesAreFinite
<1>3. ASSUME NEW w \in Threads, Check(w), time \in Span(t, room)
      PROVE  SumFunctionOnSet(counted'[k], Span(t, room)) <= 2 * Limit
  <2>1. PICK p \in Int, o \in Int : TwoWindows(k, p, o)'
    BY DEF Windows
  <2>2. /\ p + room <= o /\ o <= time
        /\ t > p => From(k, t)' <= Limit + Uses(k)'
    BY <1>3, <2>1 DEF TwoWindows, Check
  <2>3. t <= time /\ time < t + room
    BY <1>3 DEF Span
  <2> HIDE DEF room
  <2>4. t > p
    BY <1>2, <2>2, <2>3
  <2>5. Uses(k)' \in Nat /\ Uses(k)' <= Limit
    <3>1. k \in DOMAIN state' => state'[k].count \in Nat
      BY DEF LimiterTypeOK, Window
    <3> QED BY <1>2, <3>1 DEF Uses
  <2>6. /\ SumFunctionOnSet(counted'[k], Span(t, room)) <= From(k, t)'
        /\ SumFunctionOnSet(counted'[k], Span(t, room)) \in Nat /\ From(k, t)' \in Nat
    <3> DEFINE S == {u \in Times : t <= u}
    <3>1. /\ IsFiniteSet(S) /\ Span(t, room) \in SUBSET S
          /\ \A u \in S : counted'[k][u] \in Nat
          /\ \A u \in Span(t, room) : counted'[k][u] \in Nat
      BY <1>2, TimesAreFinite DEF Span
    <3>2. From(k, t)' = SumFunctionOnSet(counted'[k], S)
      BY DEF From
    <3> HIDE DEF S
    <3> QED BY <1>2, <3>1, <3>2, SumOfPart, SumIsNat
  <2> QED BY <1>2, <2>2, <2>4, <2>5, <2>6
<1>4. ASSUME NEW w \in Threads, Check(w), time \notin Span(t, room)
      PROVE  SumFunctionOnSet(counted'[k], Span(t, room)) <= 2 * Limit
  <2>1. \A u \in Times : u # time => counted'[k][u] = counted[k][u]
    <3>1. \/ counted' = counted
          \/ counted' = [counted EXCEPT ![call[w].key][time] = @ + 1]
      BY <1>4 DEF Check, FailsOpen, Counts, OneMore, history
    <3>2. /\ call[w].key \in Keys /\ time \in Times
          /\ counted \in [Keys -> [Times -> Nat]]
      BY <1>4, CheckTable, LimiterTypes DEF LimiterTypeOK
    <3> QED BY <3>1, <3>2
  <2>2. \A u \in Span(t, room) : counted'[k][u] = counted[k][u]
    BY <1>2, <1>4, <2>1
  <2>3. SumFunctionOnSet(counted'[k], Span(t, room)) =
          SumFunctionOnSet(counted[k], Span(t, room))
    BY <1>2, <2>2, SumOfSame
  <2> QED BY <1>1, <2>3
<1>5. ASSUME counted' = counted
      PROVE  SumFunctionOnSet(counted'[k], Span(t, room)) <= 2 * Limit
  BY <1>1, <1>5
<1>6. ASSUME NEW w \in Threads, NEW d \in Devices \cup {NoDevice}, Begin(w, d)
      PROVE  SumFunctionOnSet(counted'[k], Span(t, room)) <= 2 * Limit
  BY <1>5, <1>6 DEF Begin, history
<1>7. CASE TimePasses \/ SetBack \/ UNCHANGED limiterVars
  BY <1>5, <1>7 DEF TimePasses, SetBack, limiterVars, history
<1> QED BY <1>3, <1>4, <1>6, <1>7 DEF LimiterNext

LEMMA WindowsInit ==
  ASSUME LimiterInit
  PROVE  Stamps /\ CallsInTurn /\ NoneYet /\ Windows /\ CountedBurst
<1> DEFINE room == WindowSecs - MaxDelay
<1>1. /\ Pending = {} /\ DOMAIN state = {} /\ LimiterTypeOK
      /\ \A k \in Keys, u \in Times : counted[k][u] = 0
  BY LimiterInitType DEF LimiterInit, Pending
<1>2. /\ time \in Nat /\ room \in Int /\ Limit \in Nat
  BY <1>1, LimiterTypes
<1>3. \A k \in Keys, S \in SUBSET Times : SumFunctionOnSet(counted[k], S) = 0
  <2> TAKE k \in Keys, S \in SUBSET Times
  <2>1. IsFiniteSet(S) /\ \A u \in S : counted[k][u] = 0
    BY <1>1, TimesAreFinite
  <2> QED BY <2>1, SumOfZeros
<1>4. Windows
  <2> SUFFICES ASSUME NEW k \in Keys PROVE \E p, o \in Int : TwoWindows(k, p, o)
    BY DEF Windows
  <2> DEFINE o == IF room >= 0 THEN time - room ELSE time
             p == o - room
  <2>1. /\ o \in Int /\ p \in Int /\ o <= time /\ o + room <= time /\ p + room <= o
    BY <1>2
  <2>2. Uses(k) = Limit
    BY <1>1 DEF Uses
  <2>3. \A t \in Times : From(k, t) = 0
    BY <1>3 DEF From
  <2> HIDE DEF o, p
  <2>4. TwoWindows(k, p, o)
    BY <1>1, <1>2, <2>1, <2>2, <2>3 DEF TwoWindows
  <2> QED BY <2>1, <2>4
<1>5. CountedBurst
  <2> SUFFICES ASSUME NEW k \in Keys, NEW t \in Times
               PROVE  SumFunctionOnSet(counted[k], Span(t, room)) <= 2 * Limit
    BY DEF CountedBurst
  <2>1. Span(t, room) \in SUBSET Times
    BY DEF Span
  <2> HIDE DEF room
  <2> QED BY <1>2, <1>3, <2>1
<1>6. Stamps /\ CallsInTurn /\ NoneYet
  BY <1>1 DEF Stamps, CallsInTurn, NoneYet
<1> QED BY <1>4, <1>5, <1>6

LEMMA CountedIsBounded == ASSUME MaxBack < WindowSecs PROVE LimiterSpec => []CountedBurst
<1> DEFINE LIInv ==
      LimiterTypeOK /\ Stamps /\ CallsInTurn /\ NoneYet /\ Windows /\ CountedBurst
<1>1. LimiterInit => LIInv
  BY LimiterInitType, WindowsInit
<1>2. LIInv /\ [LimiterNext]_limiterVars => LIInv'
  BY LimiterTypeStep, StampsStep, CallsInTurnStep, NoneYetStep, WindowsStep, BurstStep
<1>3. LIInv => CountedBurst
  OBVIOUS
<1> QED BY <1>1, <1>2, <1>3, PTL DEF LimiterSpec

\* In the seconds of a window less those a call may wait, the table counts no
\* more than twice the limit of calls that it lets through: a key that was dropped
\* from a full table, or whose stamps got there out of order, gets its next window
\* no earlier than that.  With the calls let through uncounted a key gets more
\* than that in a crowd only, of other keys enough to fill the table.
THEOREM BurstIsBounded == LimiterSpec => []Burst
<1>1. CASE MaxBack < WindowSecs
  <2>1. CountedBurst /\ OpensInACrowd => Burst
    <3> DEFINE room == WindowSecs - MaxDelay
    <3> SUFFICES ASSUME CountedBurst, OpensInACrowd, NEW key \in Keys, NEW t \in Times
                 PROVE  /\ SumFunctionOnSet(counted[key], Span(t, room)) <= 2 * Limit
                        /\ \/ SumFunctionOnSet(admitted[key], Span(t, room)) <= 2 * Limit
                           \/ \E u \in Span(t, room) : Full(Crowd(key, u))
      BY DEF Burst
    <3>1. SumFunctionOnSet(counted[key], Span(t, room)) <= 2 * Limit
      BY DEF CountedBurst
    <3> HIDE DEF room
    <3>2. IsFiniteSet(Span(t, room)) /\ Span(t, room) \in SUBSET Times
      BY TimesAreFinite DEF Span
    <3>3. CASE \A u \in Span(t, room) : admitted[key][u] = counted[key][u]
      <4>1. SumFunctionOnSet(admitted[key], Span(t, room)) =
              SumFunctionOnSet(counted[key], Span(t, room))
        BY <3>2, <3>3, SumOfSame
      <4> QED BY <3>1, <4>1
    <3>4. CASE \E u \in Span(t, room) : admitted[key][u] # counted[key][u]
      BY <3>1, <3>2, <3>4 DEF OpensInACrowd
    <3> QED BY <3>3, <3>4
  <2> QED BY <1>1, <2>1, CountedIsBounded, OpensOnlyInACrowd, PTL
<1>2. CASE ~(MaxBack < WindowSecs)
  <2>1. Burst
    BY <1>2 DEF Burst
  <2> QED BY <2>1, PTL
<1> QED BY <1>1, <1>2

-----------------------------------------------------------------------------
(* The table of the limiter is bounded.                                    *)

RoomForKeys == IsFiniteSet(DOMAIN state) /\ Cardinality(DOMAIN state) <= MaxTrackedKeys

\* However many keys there are, the table never tracks more than MaxTrackedKeys:
\* check inserts a key only when there is room, or the sweep has made some.
THEOREM TableIsBounded == LimiterSpec => []RoomForKeys
<1>1. LimiterInit => RoomForKeys
  <2> SUFFICES ASSUME LimiterInit PROVE RoomForKeys
    OBVIOUS
  <2>1. DOMAIN state = {}
    BY DEF LimiterInit
  <2> QED BY <2>1, FS_EmptySet, RateLimiterAssumption DEF RoomForKeys
<1>2. RoomForKeys /\ [LimiterNext]_limiterVars => RoomForKeys'
  <2> SUFFICES ASSUME RoomForKeys, [LimiterNext]_limiterVars PROVE RoomForKeys'
    OBVIOUS
  <2>1. IsFiniteSet(DOMAIN state) /\ Cardinality(DOMAIN state) \in Nat /\ MaxTrackedKeys \in Nat
    BY FS_CardinalityType, RateLimiterAssumption DEF RoomForKeys
  <2>2. ASSUME NEW w \in Threads, Check(w) PROVE RoomForKeys'
    <3> DEFINE c == call[w]
               kept == Swept(c.key, c.now)
    <3>1. kept \in SUBSET DOMAIN state
      BY DEF Swept, Retained
    <3>2. /\ IsFiniteSet(kept) /\ Cardinality(kept) \in Nat
          /\ Cardinality(kept) <= Cardinality(DOMAIN state)
      <4> HIDE DEF kept
      <4> QED BY <2>1, <3>1, FS_Subset, FS_CardinalityType
    <3>3. CASE FailsOpen(c)
      <4>1. DOMAIN state' = kept
        BY <3>3 DEF FailsOpen
      <4> HIDE DEF kept
      <4> QED BY <2>1, <3>2, <4>1 DEF RoomForKeys
    <3>4. CASE Counts(c)
      <4>1. DOMAIN state' = kept \cup {c.key} /\ (c.key \in kept \/ ~Full(kept))
        BY <3>4 DEF Counts
      <4> HIDE DEF kept, c
      <4>2. CASE c.key \in kept
        <5>1. DOMAIN state' = kept
          BY <4>1, <4>2
        <5> QED BY <2>1, <3>2, <5>1 DEF RoomForKeys
      <4>3. CASE c.key \notin kept
        <5>1. Cardinality(kept) < MaxTrackedKeys
          BY <2>1, <3>2, <4>1, <4>3 DEF Full
        <5>2. /\ IsFiniteSet(kept \cup {c.key})
              /\ Cardinality(kept \cup {c.key}) = Cardinality(kept) + 1
          BY <3>2, <4>3, FS_AddElement
        <5> QED BY <2>1, <3>2, <4>1, <5>1, <5>2 DEF RoomForKeys
      <4> QED BY <4>2, <4>3
    <3> QED BY <2>2, <3>3, <3>4 DEF Check
  <2>3. ASSUME NEW w \in Threads, NEW d \in Devices \cup {NoDevice}, Begin(w, d)
        PROVE  RoomForKeys'
    BY <2>3 DEF Begin, RoomForKeys
  <2>4. CASE TimePasses \/ SetBack \/ UNCHANGED limiterVars
    BY <2>4 DEF TimePasses, SetBack, limiterVars, RoomForKeys
  <2> QED BY <2>2, <2>3, <2>4 DEF LimiterNext
<1> QED BY <1>1, <1>2, PTL DEF LimiterSpec
=============================================================================
