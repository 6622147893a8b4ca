----------------------------- MODULE DataLemmas -----------------------------
(***************************************************************************)
(* Facts about natural numbers and about lists that the proofs of several  *)
(* modules need.  Most of them compare lists by their members.             *)
(***************************************************************************)
EXTENDS Integers, Sequences, FiniteSetTheorems, WellFoundedInduction, TLAPS, SequencesExt

-----------------------------------------------------------------------------
(* Natural numbers.                                                        *)

\* A set of natural numbers that is not empty has a least member.
LEMMA Least ==
  ASSUME NEW T \in SUBSET Nat, T # {}
  PROVE  \E m \in T : \A n \in T : m <= n
<1>1. IsWellFoundedOn(OpToRel(<, Nat), Nat)
  BY NatLessThanWellFounded
<1>2. PICK m \in T : \A n \in T : ~(<<n, m>> \in OpToRel(<, Nat))
  BY <1>1, WFMin
<1>3. \A n \in T : ~(n < m)
  BY <1>2 DEF OpToRel
<1>4. QED
  BY <1>3

\* What holds of 0 and passes from each number to the next one holds up to m.
LEMMA UpTo ==
  ASSUME NEW m \in Nat, NEW P, 0 \in P, \A n \in 1..m : n - 1 \in P => n \in P
  PROVE  \A n \in 0..m : n \in P
<1> SUFFICES ASSUME (0..m) \ P # {} PROVE FALSE
  OBVIOUS
<1>0. (0..m) \ P \in SUBSET Nat
  OBVIOUS
<1>1. PICK n \in (0..m) \ P : \A i \in (0..m) \ P : n <= i
  BY <1>0, Least
<1>2. n \in 1..m /\ n - 1 \in P
  BY <1>1
<1>3. QED
  BY <1>1, <1>2

\* A function defined by recursion over 0..m exists.
LEMMA Recursion ==
  ASSUME NEW X, NEW x \in X, NEW m \in Nat, NEW G \in [1..m -> [X -> X]]
  PROVE  \E f \in [0..m -> X] : f[0] = x /\ \A n \in 1..m : f[n] = G[n][f[n-1]]
<1> DEFINE IsIter(f, i) == f \in [0..i -> X] /\ f[0] = x /\ \A n \in 1..i : f[n] = G[n][f[n-1]]
           P == {i \in 0..m : \E f : IsIter(f, i)}
<1>1. 0 \in P
  <2> DEFINE f == [n \in 0..0 |-> x]
  <2>1. IsIter(f, 0)
    OBVIOUS
  <2>2. 0 \in 0..m
    OBVIOUS
  <2> HIDE DEF IsIter, f
  <2>3. QED
    BY <2>1, <2>2
<1>2. ASSUME NEW i \in 1..m, i - 1 \in P PROVE i \in P
  <2>1. PICK f : IsIter(f, i - 1)
    BY <1>2
  <2> DEFINE g == [n \in 0..i |-> IF n < i THEN f[n] ELSE G[i][f[i-1]]]
  <2>2. i - 1 \in Nat /\ i \in Nat /\ f[i-1] \in X /\ G[i] \in [X -> X]
    BY <2>1
  <2>3. g \in [0..i -> X]
    BY <2>1, <2>2
  <2>4. g[0] = x
    BY <2>1, <2>2
  <2>5. \A n \in 1..i : g[n] = G[n][g[n-1]]
    <3> SUFFICES ASSUME NEW n \in 1..i PROVE g[n] = G[n][g[n-1]]
      OBVIOUS
    <3>1. g[n-1] = f[n-1]
      BY <2>2
    <3>2. CASE n = i
      BY <3>1, <3>2, <2>2
    <3>3. CASE n # i
      <4>1. n \in 1..i-1 /\ g[n] = f[n]
        BY <3>3, <2>2
      <4>2. QED
        BY <4>1, <3>1, <2>1
    <3>4. QED
      BY <3>2, <3>3
  <2>6. IsIter(g, i)
    BY <2>3, <2>4, <2>5
  <2> HIDE DEF IsIter, g
  <2>7. QED
    BY <2>6
<1> HIDE DEF IsIter
<1>3. m \in P
  <2> HIDE DEF P
  <2>1. m \in 0..m
    OBVIOUS
  <2>2. QED
    BY <1>1, <1>2, <2>1, UpTo
<1>4. PICK f : IsIter(f, m)
  BY <1>3
<1>5. QED
  BY <1>4 DEF IsIter

\* The remainder of a number below the modulus.
LEMMA ModSmall == ASSUME NEW m \in Nat, NEW a \in Nat, a < m PROVE a % m = a
  OBVIOUS

\* The remainder of a number of one round.
LEMMA ModOnce == ASSUME NEW m \in Nat, NEW a \in Nat, m <= a, a < 2 * m PROVE a % m = a - m
  OBVIOUS

\* xNumOfOverflows alternates between even and odd.
LEMMA Mod2 == ASSUME NEW o \in Nat PROVE o % 2 \in {0, 1} /\ (o + 1) % 2 = 1 - (o % 2)
  OBVIOUS

\* A remainder is below the modulus.
LEMMA ModType == ASSUME NEW m \in Nat \ {0}, NEW a \in Nat PROVE a % m \in 0..m-1
  OBVIOUS

\* xNumOfOverflows alternates between even and odd across its own wrap as well.
LEMMA Par == ASSUME NEW m \in Nat, m % 2 = 0, NEW o \in 0..m-1 
   PROVE /\ (o + 1) % m \in 0..m-1 /\ ((o + 1) % m) % 2 = 1 - (o % 2)
<1>1. o + 1 < m \/ o + 1 = m
  OBVIOUS
<1>2. CASE o + 1 < m
  <2>1. (o + 1) % m = o + 1
    BY <1>2
  <2>2. QED
    BY <2>1, <1>2
<1>3. CASE o + 1 = m
  <2>1. (o + 1) % m = 0
    BY <1>3
  <2>2. QED
    BY <2>1, <1>3
<1>4. QED
  BY <1>1, <1>2, <1>3

\* A set that m numbers name, each another member, has m members.
LEMMA Counted ==
  ASSUME NEW m \in Nat, NEW S, NEW f \in [1..m -> S],
         \A i, j \in 1..m : f[i] = f[j] => i = j, \A x \in S : \E i \in 1..m : f[i] = x
  PROVE  IsFiniteSet(S) /\ Cardinality(S) = m
<1>1. IsFiniteSet(1..m) /\ Cardinality(1..m) = m
  <2>1. IsFiniteSet(1..m) /\ Cardinality(1..m) = IF 1 > m THEN 0 ELSE m - 1 + 1
    BY FS_Interval
  <2>2. QED
    BY <2>1
<1>2. f \in Bijection(1..m, S)
  BY DEF Bijection, Injection, Surjection, IsInjective
<1>3. IsFiniteSet(S) /\ Cardinality(S) = Cardinality(1..m)
  BY <1>1, <1>2, FS_Bijection DEF ExistsBijection
<1>4. QED
  BY <1>1, <1>3

-----------------------------------------------------------------------------
(* Lists.                                                                  *)


\* No task is twice in the list.
NoDup(s) == \A i, j \in DOMAIN s : s[i] = s[j] => i = j

\* A list has no entry when it has no member.
LEMMA NotEmpty ==
  ASSUME NEW T, NEW s \in Seq(T)
  PROVE  s # <<>> <=> ToSet(s) # {}
  BY DEF ToSet

\* The length tells the same.
LEMMA NoLength ==
  ASSUME NEW T, NEW s \in Seq(T)
  PROVE  Len(s) = 0 <=> ToSet(s) = {}
<1>1. Len(s) \in Nat /\ DOMAIN s = 1..Len(s)
  OBVIOUS
<1>2. ASSUME Len(s) = 0 PROVE ToSet(s) = {}
  BY <1>1, <1>2 DEF ToSet
<1>3. ASSUME Len(s) # 0 PROVE ToSet(s) # {}
  <2>1. 1 \in DOMAIN s
    BY <1>1, <1>3
  <2>2. s[1] \in ToSet(s)
    BY <2>1 DEF ToSet
  <2>3. QED
    BY <2>2
<1>4. QED
  BY <1>2, <1>3

\* vListInsertEnd adds one member, and no repetition if it was not there.
LEMMA AppendFacts ==
  ASSUME NEW T, NEW s \in Seq(T), NEW t \in T
  PROVE  /\ Append(s, t) \in Seq(T)
         /\ ToSet(Append(s, t)) = ToSet(s) \cup {t}
         /\ NoDup(s) /\ t \notin ToSet(s) => NoDup(Append(s, t))
<1>1. /\ Append(s, t) \in Seq(T) /\ DOMAIN Append(s, t) = 1..Len(s)+1 /\ Append(s, t)[Len(s)+1] = t
      /\ DOMAIN s = 1..Len(s) /\ Len(s) \in Nat /\ \A i \in 1..Len(s) : Append(s, t)[i] = s[i]
  OBVIOUS
<1>2. 1..Len(s)+1 = 1..Len(s) \cup {Len(s)+1}
  BY <1>1
<1>3. ToSet(Append(s, t)) = ToSet(s) \cup {t}
  BY <1>1, <1>2 DEF ToSet
<1>4. ASSUME NoDup(s), t \notin ToSet(s) PROVE NoDup(Append(s, t))
  BY <1>1, <1>2, <1>4 DEF NoDup, ToSet
<1>5. QED
  BY <1>1, <1>3, <1>4

\* A list behind another holds the members of both.
LEMMA ConcatFacts ==
  ASSUME NEW T, NEW r \in Seq(T), NEW s \in Seq(T)
  PROVE  /\ r \o s \in Seq(T)
         /\ ToSet(r \o s) = ToSet(r) \cup ToSet(s)
         /\ NoDup(r) /\ NoDup(s) /\ ToSet(r) \cap ToSet(s) = {} => NoDup(r \o s)
<1> DEFINE c == r \o s
           m == Len(r)
           n == Len(s)
<1>1. /\ c \in Seq(T) /\ DOMAIN c = 1..m+n /\ DOMAIN r = 1..m /\ DOMAIN s = 1..n /\ m \in Nat /\ n \in Nat
      /\ \A i \in 1..m : c[i] = r[i]
      /\ \A i \in m+1..m+n : i - m \in 1..n /\ c[i] = s[i - m]
  OBVIOUS
<1>2. \A i \in 1..n : i + m \in m+1..m+n /\ c[i + m] = s[i]
  BY <1>1
<1> HIDE DEF c, m, n
<1>3. 1..m+n = 1..m \cup (m+1..m+n)
  BY <1>1
<1>4. ToSet(c) = ToSet(r) \cup ToSet(s)
  <2>1. ASSUME NEW i \in DOMAIN c PROVE c[i] \in ToSet(r) \cup ToSet(s)
    BY <1>1, <1>3 DEF ToSet
  <2>2. ASSUME NEW i \in DOMAIN r PROVE r[i] \in ToSet(c)
    BY <1>1, <1>3 DEF ToSet
  <2>3. ASSUME NEW i \in DOMAIN s PROVE s[i] \in ToSet(c)
    BY <1>1, <1>2, <1>3 DEF ToSet
  <2>4. QED
    BY <2>1, <2>2, <2>3 DEF ToSet
<1>5. ASSUME NoDup(r), NoDup(s), ToSet(r) \cap ToSet(s) = {} PROVE NoDup(c)
  <2> SUFFICES ASSUME NEW i \in DOMAIN c, NEW j \in DOMAIN c, c[i] = c[j] PROVE i = j
    BY DEF NoDup
  <2>1. CASE i \in 1..m /\ j \in 1..m
    BY <1>1, <1>5, <2>1 DEF NoDup
  <2>2. CASE i \in m+1..m+n /\ j \in m+1..m+n
    <3>1. i - m = j - m
      BY ZenonT(60), <1>1, <1>5, <2>2 DEF NoDup
    <3>2. QED
      BY <1>1, <3>1
  <2>3. CASE i \in 1..m /\ j \in m+1..m+n
    BY <1>1, <1>5, <2>3 DEF ToSet
  <2>4. CASE i \in m+1..m+n /\ j \in 1..m
    BY <1>1, <1>5, <2>4 DEF ToSet
  <2>5. QED
    BY <1>1, <1>3, <2>1, <2>2, <2>3, <2>4
<1>6. QED
  BY <1>1, <1>4, <1>5 DEF c

\* Cut in two, a list shares its members out to the parts.
LEMMA SplitFacts ==
  ASSUME NEW T, NEW s \in Seq(T), NEW n \in 0..Len(s)
  PROVE  LET a == SubSeq(s, 1, n)
             b == SubSeq(s, n + 1, Len(s))
         IN /\ a \in Seq(T) /\ b \in Seq(T)
            /\ ToSet(a) \cup ToSet(b) = ToSet(s)
            /\ NoDup(s) => NoDup(a) /\ NoDup(b) /\ ToSet(a) \cap ToSet(b) = {}
<1> DEFINE a == SubSeq(s, 1, n)
           b == SubSeq(s, n + 1, Len(s))
           m == Len(s)
<1>1. /\ m \in Nat /\ n \in Nat /\ n <= m /\ DOMAIN s = 1..m
      /\ a \in Seq(T) /\ b \in Seq(T) /\ DOMAIN a = 1..n /\ DOMAIN b = 1..m-n
      /\ \A i \in 1..n : i \in 1..m /\ a[i] = s[i]
      /\ \A i \in 1..m-n : i + n \in n+1..m /\ b[i] = s[i + n]
  OBVIOUS
<1>2. \A i \in n+1..m : i - n \in 1..m-n /\ b[i - n] = s[i]
  BY <1>1
<1> HIDE DEF a, b, m
<1>3. 1..m = 1..n \cup (n+1..m)
  BY <1>1
<1>4. ToSet(a) \cup ToSet(b) = ToSet(s)
  <2>1. ASSUME NEW i \in DOMAIN s PROVE s[i] \in ToSet(a) \cup ToSet(b)
    BY <1>1, <1>2, <1>3 DEF ToSet
  <2>2. ASSUME NEW i \in DOMAIN a PROVE a[i] \in ToSet(s)
    BY <1>1, <1>3 DEF ToSet
  <2>3. ASSUME NEW i \in DOMAIN b PROVE b[i] \in ToSet(s)
    BY <1>1, <1>3 DEF ToSet
  <2>4. QED
    BY <2>1, <2>2, <2>3 DEF ToSet
<1>5. ASSUME NoDup(s) PROVE NoDup(a) /\ NoDup(b) /\ ToSet(a) \cap ToSet(b) = {}
  <2>1. NoDup(a)
    BY <1>1, <1>3, <1>5 DEF NoDup
  <2>2. ASSUME NEW i \in DOMAIN b, NEW j \in DOMAIN b, b[i] = b[j] PROVE i = j
    <3>1. i + n = j + n
      BY <1>1, <1>3, <1>5, <2>2 DEF NoDup
    <3>2. QED
      BY <1>1, <3>1
  <2>3. ASSUME NEW i \in DOMAIN a, NEW j \in DOMAIN b PROVE a[i] # b[j]
    <3>1. i # j + n /\ i \in 1..m /\ j + n \in 1..m
      BY <1>1, <1>3
    <3>2. QED
      BY <1>1, <1>5, <3>1 DEF NoDup
  <2>4. QED
    BY <2>1, <2>2, <2>3 DEF NoDup, ToSet
<1>6. QED
  BY <1>1, <1>4, <1>5 DEF a, b

\* The first entry of a list and the rest share its members; without repetition,
\* the first one is gone from the rest.
LEMMA TailFacts ==
  ASSUME NEW T, NEW s \in Seq(T), ToSet(s) # {}
  PROVE  /\ Tail(s) \in Seq(T) /\ Head(s) \in ToSet(s) /\ ToSet(s) = ToSet(Tail(s)) \cup {Head(s)}
         /\ NoDup(s) => NoDup(Tail(s)) /\ Head(s) \notin ToSet(Tail(s))
         /\ Len(Tail(s)) = Len(s) - 1 /\ Len(s) > 0
<1> DEFINE u == Tail(s)
           h == Head(s)
           m == Len(s)
<1>0. s # <<>>
  BY NotEmpty
<1>1. /\ m \in Nat /\ DOMAIN s = 1..m /\ m >= 1 /\ h = s[1] /\ u \in Seq(T) /\ Len(u) = m - 1
      /\ DOMAIN u = 1..m-1 /\ \A i \in 1..m-1 : u[i] = s[i+1] /\ i + 1 \in 1..m /\ i + 1 # 1
  BY <1>0
<1>2. 1 \in 1..m /\ \A i \in 1..m : i = 1 \/ (i - 1 \in 1..m-1 /\ u[i-1] = s[i])
  BY <1>1
<1> HIDE DEF u, h, m
<1>3. h \in ToSet(s)
  BY <1>1, <1>2 DEF ToSet
<1>4. \A i \in 1..m : s[i] \in ToSet(u) \cup {h}
  BY <1>1, <1>2 DEF ToSet
<1>5. \A i \in 1..m-1 : u[i] \in ToSet(s)
  BY <1>1 DEF ToSet
<1>6. ToSet(s) = ToSet(u) \cup {h}
  <2>1. ASSUME NEW x \in ToSet(s) PROVE x \in ToSet(u) \cup {h}
    BY <1>1, <1>4, <2>1 DEF ToSet
  <2>2. ASSUME NEW x \in ToSet(u) PROVE x \in ToSet(s)
    BY <1>1, <1>5, <2>2 DEF ToSet
  <2>3. QED
    BY <1>3, <2>1, <2>2
<1>7. ASSUME NoDup(s) PROVE NoDup(u) /\ h \notin ToSet(u)
  <2>1. \A i \in 1..m, n \in 1..m : s[i] = s[n] => i = n
    BY <1>1, <1>7 DEF NoDup
  <2>2. \A i \in 1..m-1 : u[i] # h
    BY <1>1, <1>2, <2>1
  <2>3. h \notin ToSet(u)
    BY <1>1, <2>2 DEF ToSet
  <2>4. ASSUME NEW i \in 1..m-1, NEW n \in 1..m-1, u[i] = u[n] PROVE i = n
    <3>1. i + 1 = n + 1
      BY <1>1, <2>1, <2>4
    <3>2. QED
      BY <1>1, <3>1
  <2>5. QED
    BY <1>1, <2>3, <2>4 DEF NoDup
<1>8. QED
  BY <1>1, <1>3, <1>6, <1>7 DEF u, h, m

\* vListInsertEnd makes a list longer by one.
LEMMA AppendLen == ASSUME NEW T, NEW s \in Seq(T), NEW x \in T PROVE Len(Append(s, x)) = Len(s) + 1
  OBVIOUS

\* The list of one task.
LEMMA OneFacts == ASSUME NEW T, NEW x \in T
                  PROVE  <<x>> \in Seq(T) /\ ToSet(<<x>>) = {x} /\ NoDup(<<x>>)
  BY DEF ToSet, NoDup

-----------------------------------------------------------------------------
(* What is and what comes: an event that has been taken, or that stands    *)
(* for what is remembered of those before it, and the ones that wait in a  *)
(* list.                                                                   *)

Stream(v, q) == [i \in 0..Len(q) |-> IF i = 0 THEN v ELSE q[i]]

\* Each a has a b behind it: the last of the two is not a.
Followed(v, q, a, b) ==
    \A i \in 0..Len(q) : Stream(v, q)[i] = a => \E m \in i+1..Len(q) : Stream(v, q)[m] = b

\* There is a b between any two a.
Separated(v, q, a, b) ==
    \A i, j \in 0..Len(q) : i < j /\ Stream(v, q)[i] = a /\ Stream(v, q)[j] = a =>
        \E m \in i+1..j-1 : Stream(v, q)[m] = b

\* When nothing waits.
LEMMA StreamOfNone ==
  ASSUME NEW v, NEW a, NEW b, NEW T, NEW q \in Seq(T), ToSet(q) = {}
  PROVE  (Followed(v, q, a, b) <=> v # a) /\ Separated(v, q, a, b)
<1>1. Len(q) = 0
  BY DEF ToSet
<1>2. Stream(v, q)[0] = v
  BY <1>1 DEF Stream
<1>3. \A i \in 0..Len(q) : i = 0 /\ ~(\E m \in i+1..Len(q) : Stream(v, q)[m] = b)
  BY <1>1
<1>4. Followed(v, q, a, b) <=> v # a
  BY <1>1, <1>2, <1>3 DEF Followed
<1>5. Separated(v, q, a, b)
  BY <1>3 DEF Separated
<1>6. QED
  BY <1>4, <1>5

\* One more event comes.
LEMMA StreamAppend ==
  ASSUME NEW T, NEW q \in Seq(T), NEW x \in T, NEW v, NEW a, NEW b, a # b
  PROVE  LET r == Append(q, x)
         IN /\ x = a => ~Followed(v, r, a, b)
            /\ x = b => Followed(v, r, a, b)
            /\ x \notin {a, b} => (Followed(v, r, a, b) <=> Followed(v, q, a, b))
            /\ Separated(v, q, a, b) /\ (x = a => Followed(v, q, a, b)) => Separated(v, r, a, b)
<1> DEFINE r == Append(q, x)
           n == Len(q)
           f == Stream(v, q)
           g == Stream(v, r)
<1>1. n \in Nat /\ Len(r) = n + 1 /\ r[n+1] = x /\ \A i \in 1..n : r[i] = q[i]
  OBVIOUS
<1> HIDE DEF r, n
<1>2. g[n+1] = x /\ \A i \in 0..n : g[i] = f[i]
  BY <1>1 DEF Stream, n
<1>3. /\ Followed(v, q, a, b) <=> \A i \in 0..n : f[i] = a => \E m \in i+1..n : f[m] = b
      /\ Separated(v, q, a, b) <=> \A i, j \in 0..n : i < j /\ f[i] = a /\ f[j] = a => \E m \in i+1..j-1 : f[m] = b
  BY DEF Followed, Separated, n
<1>4. /\ Followed(v, r, a, b) <=> \A i \in 0..n+1 : g[i] = a => \E m \in i+1..n+1 : g[m] = b
      /\ Separated(v, r, a, b) <=> \A i, j \in 0..n+1 : i < j /\ g[i] = a /\ g[j] = a => \E m \in i+1..j-1 : g[m] = b
  BY <1>1 DEF Followed, Separated
<1> HIDE DEF f, g
<1>5. x = a => ~Followed(v, r, a, b)
  BY <1>1, <1>2, <1>4
<1>6. ASSUME x = b PROVE Followed(v, r, a, b)
  <2>1. ASSUME NEW i \in 0..n+1, g[i] = a PROVE \E m \in i+1..n+1 : g[m] = b
    <3>1. i # n + 1
      BY <1>2, <1>6, <2>1
    <3>2. n + 1 \in i+1..n+1
      BY <1>1, <3>1
    <3>3. QED
      BY <1>2, <1>6, <3>2
  <2>2. QED
    BY <1>4, <2>1
<1>7. ASSUME x \notin {a, b} PROVE Followed(v, r, a, b) <=> Followed(v, q, a, b)
  <2>1. ASSUME Followed(v, r, a, b), NEW i \in 0..n, f[i] = a PROVE \E m \in i+1..n : f[m] = b
    <3>1. i \in 0..n+1 /\ g[i] = a
      BY <1>1, <1>2, <2>1
    <3>2. PICK m \in i+1..n+1 : g[m] = b
      BY <1>4, <2>1, <3>1
    <3>3. m # n + 1
      BY <1>2, <1>7, <3>2
    <3>4. m \in i+1..n /\ m \in 0..n
      BY <1>1, <3>2, <3>3
    <3>5. QED
      BY <1>2, <3>2, <3>4
  <2>2. ASSUME Followed(v, q, a, b), NEW i \in 0..n+1, g[i] = a PROVE \E m \in i+1..n+1 : g[m] = b
    <3>1. i # n + 1
      BY <1>2, <1>7, <2>2
    <3>2. i \in 0..n /\ f[i] = a
      BY <1>1, <1>2, <2>2, <3>1
    <3>3. PICK m \in i+1..n : f[m] = b
      BY <1>3, <2>2, <3>2
    <3>4. m \in i+1..n+1 /\ m \in 0..n
      BY <1>1, <3>2, <3>3
    <3>5. QED
      BY <1>2, <3>3, <3>4
  <2>3. QED
    BY <1>3, <1>4, <2>1, <2>2
<1>8. ASSUME Separated(v, q, a, b), x = a => Followed(v, q, a, b) PROVE Separated(v, r, a, b)
  <2>1. ASSUME NEW i \in 0..n+1, NEW j \in 0..n+1, i < j, g[i] = a, g[j] = a
        PROVE  \E m \in i+1..j-1 : g[m] = b
    <3>1. i \in 0..n /\ f[i] = a
      BY <1>1, <1>2, <2>1
    <3>2. CASE j = n + 1
      <4>1. PICK m \in i+1..n : f[m] = b
        BY <1>2, <1>3, <1>8, <2>1, <3>1, <3>2
      <4>2. m \in i+1..j-1 /\ m \in 0..n
        BY <1>1, <3>1, <3>2, <4>1
      <4>3. QED
        BY <1>2, <4>1, <4>2
    <3>3. CASE j # n + 1
      <4>1. j \in 0..n /\ f[j] = a
        BY <1>1, <1>2, <2>1, <3>3
      <4>2. PICK m \in i+1..j-1 : f[m] = b
        BY <1>3, <1>8, <2>1, <3>1, <4>1
      <4>3. m \in 0..n
        BY <1>1, <3>1, <4>1, <4>2
      <4>4. QED
        BY <1>2, <4>2, <4>3
    <3>4. QED
      BY <3>2, <3>3
  <2>2. QED
    BY <1>4, <2>1
<1>9. QED
  BY <1>5, <1>6, <1>7, <1>8 DEF r

\* The first one that waits is taken, and what is remembered goes with it.
LEMMA StreamTake ==
  ASSUME NEW T, NEW q \in Seq(T), ToSet(q) # {}, NEW v, NEW a, NEW b, a # b
  PROVE  LET x == Head(q)
             r == Tail(q)
         IN /\ x \in {a, b} => (Followed(x, r, a, b) <=> Followed(v, q, a, b))
            /\ Separated(v, q, a, b) => Separated(x, r, a, b) /\ (x = a => v # a)
            /\ x \notin {a, b} => (Followed(v, r, a, b) <=> Followed(v, q, a, b))
            /\ x \notin {a, b} /\ Separated(v, q, a, b) => Separated(v, r, a, b)
<1> DEFINE x == Head(q)
           r == Tail(q)
           n == Len(q)
           f == Stream(v, q)
           g == Stream(x, r)
           h == Stream(v, r)
<1>0. q # <<>>
  BY NotEmpty
<1>1. n \in Nat /\ n >= 1 /\ Len(r) = n - 1 /\ x = q[1] /\ \A i \in 1..n-1 : r[i] = q[i+1]
  BY <1>0
<1> HIDE DEF x, r, n
<1>2. f[0] = v /\ f[1] = x /\ \A i \in 0..n-1 : g[i] = f[i+1]
  <2>1. f[0] = v /\ \A i \in 1..n : f[i] = q[i]
    BY <1>1 DEF Stream, n
  <2>2. g[0] = x /\ \A i \in 1..n-1 : g[i] = r[i]
    BY <1>1 DEF Stream
  <2> HIDE DEF f, g
  <2>3. \A i \in 1..n-1 : g[i] = q[i+1] /\ i + 1 \in 1..n
    BY <1>1, <2>2
  <2>4. \A i \in 1..n-1 : g[i] = f[i+1]
    BY <2>1, <2>3
  <2>5. f[1] = x /\ g[0] = f[0+1]
    BY <1>1, <2>1, <2>2
  <2>6. QED
    BY <1>1, <2>1, <2>4, <2>5
<1>3. h[0] = v /\ \A i \in 1..n-1 : h[i] = g[i]
  BY <1>1 DEF Stream
<1>4. /\ Followed(v, q, a, b) <=> \A i \in 0..n : f[i] = a => \E m \in i+1..n : f[m] = b
      /\ Separated(v, q, a, b) <=> \A i, j \in 0..n : i < j /\ f[i] = a /\ f[j] = a => \E m \in i+1..j-1 : f[m] = b
  BY DEF Followed, Separated, n
<1>5. /\ Followed(x, r, a, b) <=> \A i \in 0..n-1 : g[i] = a => \E m \in i+1..n-1 : g[m] = b
      /\ Separated(x, r, a, b) <=> \A i, j \in 0..n-1 : i < j /\ g[i] = a /\ g[j] = a => \E m \in i+1..j-1 : g[m] = b
  BY <1>1 DEF Followed, Separated
<1>6. /\ Followed(v, r, a, b) <=> \A i \in 0..n-1 : h[i] = a => \E m \in i+1..n-1 : h[m] = b
      /\ Separated(v, r, a, b) <=> \A i, j \in 0..n-1 : i < j /\ h[i] = a /\ h[j] = a => \E m \in i+1..j-1 : h[m] = b
  BY <1>1 DEF Followed, Separated
<1> HIDE DEF f, g, h
<1>7. ASSUME x \in {a, b} PROVE Followed(x, r, a, b) <=> Followed(v, q, a, b)
  <2>1. ASSUME Followed(v, q, a, b), NEW i \in 0..n-1, g[i] = a PROVE \E m \in i+1..n-1 : g[m] = b
    <3>1. i + 1 \in 0..n /\ f[i+1] = a
      BY <1>1, <1>2, <2>1
    <3>2. PICK m \in i+1+1..n : f[m] = b
      BY <1>4, <2>1, <3>1
    <3>3. m - 1 \in i+1..n-1 /\ m - 1 \in 0..n-1 /\ (m - 1) + 1 = m
      BY <1>1, <3>2
    <3>4. QED
      BY <1>2, <3>2, <3>3
  <2>2. ASSUME Followed(x, r, a, b), NEW i \in 0..n, f[i] = a PROVE \E m \in i+1..n : f[m] = b
    <3>1. CASE i = 0 /\ x = b
      BY <1>1, <1>2, <3>1
    <3>2. CASE i = 0 /\ x = a
      <4>1. 0 \in 0..n-1 /\ g[0] = a
        BY <1>1, <1>2, <3>2
      <4>2. PICK m \in 0+1..n-1 : g[m] = b
        BY <1>5, <2>2, <4>1
      <4>3. m \in 0..n-1 /\ m + 1 \in i+1..n
        BY <1>1, <3>2, <4>2
      <4>4. QED
        BY <1>2, <4>2, <4>3
    <3>3. CASE i # 0
      <4>1. i - 1 \in 0..n-1 /\ (i - 1) + 1 = i
        BY <1>1, <3>3
      <4>2. g[i-1] = a
        BY <1>2, <2>2, <4>1
      <4>3. PICK m \in (i-1)+1..n-1 : g[m] = b
        BY <1>5, <2>2, <4>1, <4>2
      <4>4. m \in 0..n-1 /\ m + 1 \in i+1..n
        BY <1>1, <4>1, <4>3
      <4>5. QED
        BY <1>2, <4>3, <4>4
    <3>4. QED
      BY <1>7, <3>1, <3>2, <3>3
  <2>3. QED
    BY <1>4, <1>5, <2>1, <2>2
<1>8. ASSUME Separated(v, q, a, b) PROVE Separated(x, r, a, b) /\ (x = a => v # a)
  <2>1. ASSUME NEW i \in 0..n-1, NEW j \in 0..n-1, i < j, g[i] = a, g[j] = a
        PROVE  \E m \in i+1..j-1 : g[m] = b
    <3>1. i + 1 \in 0..n /\ j + 1 \in 0..n /\ i + 1 < j + 1 /\ f[i+1] = a /\ f[j+1] = a
      BY <1>1, <1>2, <2>1
    <3>2. PICK m \in i+1+1..j+1-1 : f[m] = b
      BY <1>4, <1>8, <3>1
    <3>3. m - 1 \in i+1..j-1 /\ m - 1 \in 0..n-1 /\ (m - 1) + 1 = m
      BY <1>1, <2>1, <3>2
    <3>4. QED
      BY <1>2, <3>2, <3>3
  <2>2. ASSUME x = a, v = a PROVE FALSE
    <3>1. 0 \in 0..n /\ 1 \in 0..n /\ 0 < 1
      BY <1>1
    <3>2. \E m \in 0+1..1-1 : f[m] = b
      BY <1>2, <1>4, <1>8, <2>2, <3>1
    <3>3. QED
      BY <3>2
  <2>3. QED
    BY <1>5, <2>1, <2>2
<1>9. ASSUME x \notin {a, b} PROVE Followed(v, r, a, b) <=> Followed(v, q, a, b)
  <2>1. ASSUME Followed(v, q, a, b), NEW i \in 0..n-1, h[i] = a PROVE \E m \in i+1..n-1 : h[m] = b
    <3>1. PICK j \in 0..n : f[j] = a /\ j >= i
      <4>1. CASE i = 0
        BY <1>1, <1>2, <1>3, <2>1, <4>1
      <4>2. CASE i # 0
        <5>1. i \in 1..n-1 /\ i + 1 \in 0..n /\ i + 1 >= i
          BY <1>1, <4>2
        <5>2. f[i+1] = a
          BY <1>2, <1>3, <2>1, <5>1
        <5>3. QED
          BY <5>1, <5>2
      <4>3. QED
        BY <4>1, <4>2
    <3>2. PICK m \in j+1..n : f[m] = b
      BY <1>4, <2>1, <3>1
    <3>3. m # 1 /\ (i = 0 \/ f[i+1] = a)
      BY <1>1, <1>2, <1>3, <1>9, <2>1, <3>2
    <3>4. m - 1 \in i..n-1 /\ m - 1 \in 1..n-1 /\ (m - 1) + 1 = m
      BY <1>1, <3>1, <3>2, <3>3
    <3>5. h[m-1] = b
      BY <1>2, <1>3, <3>2, <3>4
    <3>6. m - 1 # i
      BY <2>1, <3>5
    <3>7. m - 1 \in i+1..n-1
      BY <3>4, <3>6
    <3>8. QED
      BY <3>5, <3>7
  <2>2. ASSUME Followed(v, r, a, b), NEW i \in 0..n, f[i] = a PROVE \E m \in i+1..n : f[m] = b
    <3>1. i # 1
      BY <1>2, <1>9, <2>2
    <3>2. PICK j \in 0..n-1 : h[j] = a /\ j + 1 >= i
      <4>1. CASE i = 0
        BY <1>1, <1>2, <1>3, <2>2, <4>1
      <4>2. CASE i # 0
        <5>1. i - 1 \in 1..n-1 /\ (i - 1) + 1 = i
          BY <1>1, <3>1, <4>2
        <5>2. h[i-1] = a
          BY <1>2, <1>3, <2>2, <5>1
        <5>3. QED
          BY <5>1, <5>2
      <4>3. QED
        BY <4>1, <4>2
    <3>3. PICK m \in j+1..n-1 : h[m] = b
      BY <1>6, <2>2, <3>2
    <3>4. m \in 1..n-1 /\ m + 1 \in i+1..n
      BY <1>1, <3>2, <3>3
    <3>5. QED
      BY <1>2, <1>3, <3>3, <3>4
  <2>3. QED
    BY <1>4, <1>6, <2>1, <2>2
<1>10. ASSUME x \notin {a, b}, Separated(v, q, a, b) PROVE Separated(v, r, a, b)
  <2>1. ASSUME NEW i \in 0..n-1, NEW j \in 0..n-1, i < j, h[i] = a, h[j] = a
        PROVE  \E m \in i+1..j-1 : h[m] = b
    <3>1. j \in 1..n-1 /\ j + 1 \in 0..n /\ f[j+1] = a
      BY <1>1, <1>2, <1>3, <2>1
    <3>2. CASE i = 0
      <4>1. f[0] = a /\ 0 \in 0..n /\ 0 < j + 1
        BY <1>1, <1>2, <1>3, <2>1, <3>1, <3>2
      <4>2. PICK m \in 0+1..j+1-1 : f[m] = b
        BY <1>4, <1>10, <3>1, <4>1
      <4>3. m # 1
        BY <1>2, <1>10, <4>2
      <4>4. m - 1 \in i+1..j-1 /\ m - 1 \in 1..n-1 /\ (m - 1) + 1 = m
        BY <1>1, <3>1, <3>2, <4>2, <4>3
      <4>5. QED
        BY <1>2, <1>3, <4>2, <4>4
    <3>3. CASE i # 0
      <4>1. i \in 1..n-1 /\ i + 1 \in 0..n /\ i + 1 < j + 1
        BY <1>1, <2>1, <3>1, <3>3
      <4>2. f[i+1] = a
        BY <1>2, <1>3, <2>1, <4>1
      <4>3. PICK m \in i+1+1..j+1-1 : f[m] = b
        BY <1>4, <1>10, <3>1, <4>1, <4>2
      <4>4. m - 1 \in i+1..j-1 /\ m - 1 \in 1..n-1 /\ (m - 1) + 1 = m
        BY <1>1, <2>1, <3>1, <4>1, <4>3
      <4>5. QED
        BY <1>2, <1>3, <4>3, <4>4
    <3>4. QED
      BY <3>2, <3>3
  <2>2. QED
    BY <1>6, <2>1
<1>11. QED
  BY <1>7, <1>8, <1>9, <1>10 DEF x, r

\* What is remembered may change to something else than an a.
LEMMA StreamForget ==
  ASSUME NEW T, NEW q \in Seq(T), NEW v, NEW w, NEW a, NEW b, Followed(w, q, a, b), v # a
  PROVE  Followed(v, q, a, b)
<1>1. Len(q) \in Nat
  OBVIOUS
<1>2. \A i \in 1..Len(q) : Stream(v, q)[i] = Stream(w, q)[i]
  BY <1>1 DEF Stream
<1>3. Stream(v, q)[0] = v
  BY <1>1 DEF Stream
<1>4. ASSUME NEW i \in 0..Len(q), Stream(v, q)[i] = a
      PROVE  \E m \in i+1..Len(q) : Stream(v, q)[m] = b
  <2>1. i \in 1..Len(q)
    BY <1>1, <1>3, <1>4
  <2>2. PICK m \in i+1..Len(q) : Stream(w, q)[m] = b
    BY <1>2, <1>4, <2>1 DEF Followed
  <2>3. m \in 1..Len(q)
    BY <1>1, <2>1, <2>2
  <2>4. QED
    BY <1>2, <2>2, <2>3
<1>5. QED
  BY <1>4 DEF Followed

\* A stream without an a.
LEMMA StreamWithout ==
  ASSUME NEW T, NEW q \in Seq(T), NEW v, NEW a, NEW b, a \notin ToSet(q), v # a
  PROVE  Followed(v, q, a, b)
<1>1. Len(q) \in Nat
  OBVIOUS
<1>2. \A i \in 0..Len(q) : Stream(v, q)[i] # a
  BY <1>1 DEF Stream, ToSet
<1>3. QED
  BY <1>2 DEF Followed
=============================================================================
