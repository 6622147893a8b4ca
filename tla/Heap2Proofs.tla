---------------------------- MODULE Heap2Proofs ----------------------------
(***************************************************************************)
(* The blocks of heap_2 tile the heap, requests are served from the        *)
(* smallest block that is large enough, and the pieces that are handed out *)
(* keep the promise of Allocator, for every size of the heap, alignment,   *)
(* size of xBlockLink and set of requests.                                 *)
(***************************************************************************)
EXTENDS Heap2, DataLemmas, FiniteSetTheorems, SequenceTheorems, SequencesExt

-----------------------------------------------------------------------------
(* Alignment.                                                              *)

\* The sum of two multiples is one.
LEMMA ModAdd ==
  ASSUME NEW a \in Nat \ {0}, NEW x \in Nat, NEW y \in Nat, x % a = 0, y % a = 0
  PROVE  (x + y) % a = 0
<1> DEFINE q == x \div a
           r == y \div a
<1>1. x = a * q /\ y = a * r /\ q \in Int /\ r \in Int
  OBVIOUS
<1> HIDE DEF q, r
<1>2. x + y = a * (q + r)
  BY <1>1
<1>3. (a * (q + r)) % a = 0
  BY <1>1
<1>4. QED
  BY <1>2, <1>3

\* So is the difference.
LEMMA ModSub ==
  ASSUME NEW a \in Nat \ {0}, NEW x \in Nat, NEW y \in Nat, x % a = 0, y % a = 0
  PROVE  (x - y) % a = 0
<1> DEFINE q == x \div a
           r == y \div a
<1>1. x = a * q /\ y = a * r /\ q \in Int /\ r \in Int
  OBVIOUS
<1> HIDE DEF q, r
<1>2. x - y = a * (q - r)
  BY <1>1
<1>3. (a * (q - r)) % a = 0
  BY <1>1
<1>4. QED
  BY <1>2, <1>3

\* Rounding up as heapSTRUCT_SIZE and pvPortMalloc do.
LEMMA RoundUp ==
  ASSUME NEW a \in Nat \ {0}, NEW x \in Nat
  PROVE  x % a \in 0..a-1 /\ (x + a - (x % a)) % a = 0
<1> DEFINE q == x \div a
           r == x % a
<1>1. x = a * q + r /\ q \in Int /\ r \in 0..a-1
  OBVIOUS
<1> HIDE DEF q, r
<1>2. x + a - r = a * (q + 1)
  BY <1>1
<1>3. (a * (q + 1)) % a = 0
  BY <1>1
<1>4. QED
  BY <1>1, <1>2, <1>3 DEF r

\* The sizes of the link and of the heap.
LEMMA SizeFacts ==
  /\ portBYTE_ALIGNMENT \in Nat \ {0} /\ Requests \subseteq Nat
  /\ heapSTRUCT_SIZE \in Nat \ {0} /\ heapSTRUCT_SIZE % portBYTE_ALIGNMENT = 0
  /\ heapMINIMUM_BLOCK_SIZE = heapSTRUCT_SIZE + heapSTRUCT_SIZE
  /\ configTOTAL_HEAP_SIZE \in Nat \ {0} /\ configTOTAL_HEAP_SIZE % portBYTE_ALIGNMENT = 0
  /\ heapSTRUCT_SIZE <= configTOTAL_HEAP_SIZE
<1>1. /\ portBYTE_ALIGNMENT \in Nat \ {0} /\ LinkSize \in Nat \ {0} /\ Requests \subseteq Nat
      /\ configTOTAL_HEAP_SIZE \in Nat /\ configTOTAL_HEAP_SIZE % portBYTE_ALIGNMENT = 0
      /\ heapSTRUCT_SIZE <= configTOTAL_HEAP_SIZE
  BY HeapAssumption
<1>2. /\ LinkSize % portBYTE_ALIGNMENT \in 0..portBYTE_ALIGNMENT-1
      /\ (LinkSize + portBYTE_ALIGNMENT - (LinkSize % portBYTE_ALIGNMENT)) % portBYTE_ALIGNMENT = 0
  BY <1>1, RoundUp
<1>3. heapSTRUCT_SIZE \in Nat \ {0} /\ heapSTRUCT_SIZE % portBYTE_ALIGNMENT = 0
  <2> DEFINE r == LinkSize % portBYTE_ALIGNMENT
  <2>1. heapSTRUCT_SIZE = LinkSize + portBYTE_ALIGNMENT - r /\ r \in 0..portBYTE_ALIGNMENT-1
    BY <1>2 DEF heapSTRUCT_SIZE
  <2>2. heapSTRUCT_SIZE % portBYTE_ALIGNMENT = 0
    BY <1>2 DEF heapSTRUCT_SIZE
  <2> HIDE DEF r
  <2>3. QED
    BY <1>1, <2>1, <2>2
<1>4. heapMINIMUM_BLOCK_SIZE = heapSTRUCT_SIZE + heapSTRUCT_SIZE
  BY <1>3 DEF heapMINIMUM_BLOCK_SIZE
<1>5. QED
  BY <1>1, <1>3, <1>4

\* A request is rounded up to a multiple of the alignment that holds the link
\* and what was asked for.
LEMMA WantedFacts ==
  ASSUME NEW n \in Requests
  PROVE  /\ Wanted(n) \in Nat /\ Wanted(n) % portBYTE_ALIGNMENT = 0
         /\ n = 0 => Wanted(n) = 0
         /\ n # 0 => Wanted(n) >= n + heapSTRUCT_SIZE
<1> DEFINE w == n + heapSTRUCT_SIZE
           r == w % portBYTE_ALIGNMENT
<1>1. /\ n \in Nat /\ w \in Nat /\ portBYTE_ALIGNMENT \in Nat \ {0} /\ heapSTRUCT_SIZE \in Nat
      /\ 0 % portBYTE_ALIGNMENT = 0
  BY SizeFacts
<1>2. r \in 0..portBYTE_ALIGNMENT-1 /\ (w + portBYTE_ALIGNMENT - r) % portBYTE_ALIGNMENT = 0
  BY <1>1, RoundUp
<1>3. Wanted(n) = IF n = 0 THEN 0 ELSE IF r = 0 THEN w ELSE w + portBYTE_ALIGNMENT - r
  BY DEF Wanted
<1>4. r = 0 => w % portBYTE_ALIGNMENT = 0
  OBVIOUS
<1> HIDE DEF r
<1>5. w + portBYTE_ALIGNMENT - r \in Nat /\ w + portBYTE_ALIGNMENT - r >= w
  BY <1>1, <1>2
<1> HIDE DEF w
<1>6. CASE n = 0
  BY <1>1, <1>3, <1>6
<1>7. CASE n # 0 /\ r = 0
  BY <1>1, <1>3, <1>4, <1>7 DEF w
<1>8. CASE n # 0 /\ r # 0
  BY <1>1, <1>2, <1>3, <1>5, <1>8 DEF w
<1>9. QED
  BY <1>6, <1>7, <1>8

-----------------------------------------------------------------------------
(* The free list.                                                          *)

\* In the order of the sizes.
Sorted(s, sizes) == \A i, j \in DOMAIN s : i < j => sizes[s[i]] <= sizes[s[j]]

\* Where the entries of two lists are when one follows the other.
LEMMA ConcatEntries ==
  ASSUME NEW T, NEW r \in Seq(T), NEW s \in Seq(T)
  PROVE  /\ r \o s \in Seq(T) /\ Len(r \o s) = Len(r) + Len(s)
         /\ \A i \in 1..Len(r)+Len(s) : (r \o s)[i] = IF i <= Len(r) THEN r[i] ELSE s[i - Len(r)]
  OBVIOUS

\* Where the entries of a list are when one has been put in.
LEMMA InsertAtEntries ==
  ASSUME NEW T, NEW s \in Seq(T), NEW e \in T, NEW p \in 1..Len(s)+1
  PROVE  LET r == InsertAt(s, p, e)
         IN /\ r \in Seq(T) /\ Len(r) = Len(s) + 1
            /\ \A i \in 1..Len(s)+1 : r[i] = IF i < p THEN s[i] ELSE IF i = p THEN e ELSE s[i-1]
<1> DEFINE m == Len(s)
           a == SubSeq(s, 1, p - 1)
           b == SubSeq(s, p, m)
           u == <<e>>
           c == a \o u
           r == c \o b
<1>1. m \in Nat /\ p \in 1..m+1 /\ \A i \in 1..m : s[i] \in T
  OBVIOUS
<1>2. a \in Seq(T) /\ Len(a) = p - 1 /\ \A i \in 1..p-1 : a[i] = s[i]
  OBVIOUS
<1>3. b \in Seq(T) /\ Len(b) = m + 1 - p /\ \A i \in 1..m+1-p : b[i] = s[i + p - 1]
  OBVIOUS
<1>4. u \in Seq(T) /\ Len(u) = 1 /\ u[1] = e
  OBVIOUS
<1>5. InsertAt(s, p, e) = r
  BY DEF InsertAt
<1> HIDE DEF m, a, b, u
<1>6. c \in Seq(T) /\ Len(c) = p /\ \A i \in 1..p : c[i] = IF i < p THEN s[i] ELSE e
  <2>1. /\ c \in Seq(T) /\ Len(c) = Len(a) + Len(u)
        /\ \A i \in 1..Len(a)+Len(u) : c[i] = IF i <= Len(a) THEN a[i] ELSE u[i - Len(a)]
    BY <1>2, <1>4, ConcatEntries
  <2> HIDE DEF c
  <2>2. (p - 1) + 1 = p /\ p \in Nat
    BY <1>1
  <2>3. c \in Seq(T) /\ Len(c) = p
    BY <1>2, <1>4, <2>1, <2>2
  <2>4. ASSUME NEW i \in 1..p PROVE c[i] = IF i < p THEN s[i] ELSE e
    <3>1. c[i] = IF i <= p - 1 THEN a[i] ELSE u[i - (p - 1)]
      BY <1>2, <1>4, <2>1, <2>2
    <3>2. CASE i < p
      BY <1>2, <2>2, <3>1, <3>2
    <3>3. CASE i = p
      <4>1. i - (p - 1) = 1 /\ ~(i <= p - 1)
        BY <2>2, <3>3
      <4>2. QED
        BY <1>4, <3>1, <3>3, <4>1, <2>2
    <3>4. QED
      BY <2>2, <3>2, <3>3
  <2>5. QED
    BY <2>3, <2>4
<1> HIDE DEF c
<1>7. /\ r \in Seq(T) /\ Len(r) = m + 1
      /\ \A i \in 1..m+1 : r[i] = IF i <= p THEN c[i] ELSE b[i - p]
  <2>1. /\ r \in Seq(T) /\ Len(r) = Len(c) + Len(b)
        /\ \A i \in 1..Len(c)+Len(b) : r[i] = IF i <= Len(c) THEN c[i] ELSE b[i - Len(c)]
    BY <1>3, <1>6, ConcatEntries
  <2> HIDE DEF r
  <2>2. Len(c) = p /\ Len(c) + Len(b) = m + 1
    BY <1>1, <1>3, <1>6
  <2>3. QED
    BY <2>1, <2>2
<1> HIDE DEF r
<1>8. ASSUME NEW i \in 1..m+1 PROVE r[i] = IF i < p THEN s[i] ELSE IF i = p THEN e ELSE s[i-1]
  <2>1. CASE i <= p
    BY <1>1, <1>6, <1>7, <2>1
  <2>2. CASE i > p
    <3>1. i - p \in 1..m+1-p /\ (i - p) + p - 1 = i - 1
      BY <1>1, <2>2
    <3>2. b[i - p] = s[i - 1]
      BY <1>3, <3>1
    <3>3. QED
      BY <1>1, <1>7, <2>2, <3>2
  <2>3. QED
    BY <1>1, <2>1, <2>2
<1>9. QED
  BY <1>5, <1>7, <1>8 DEF m

\* Put in behind the last entry.
LEMMA InsertAtEnd ==
  ASSUME NEW T, NEW s \in Seq(T), NEW e \in T
  PROVE  InsertAt(s, Len(s) + 1, e) = Append(s, e)
<1>1. Len(s) \in Nat
  OBVIOUS
<1>2. \A p \in 1..Len(s)+1 :
         /\ InsertAt(s, p, e) \in Seq(T) /\ Len(InsertAt(s, p, e)) = Len(s) + 1
         /\ \A i \in 1..Len(s)+1 : InsertAt(s, p, e)[i] =
                                   IF i < p THEN s[i] ELSE IF i = p THEN e ELSE s[i-1]
  BY InsertAtEntries
<1> DEFINE x == InsertAt(s, Len(s) + 1, e)
           y == Append(s, e)
<1>3. y \in Seq(T) /\ Len(y) = Len(s) + 1 /\ \A i \in 1..Len(s)+1 : y[i] = IF i < Len(s) + 1 THEN s[i] ELSE e
  OBVIOUS
<1>4. x \in Seq(T) /\ Len(x) = Len(s) + 1 /\ \A i \in 1..Len(s)+1 : x[i] = IF i < Len(s) + 1 THEN s[i] ELSE e
  BY <1>1, <1>2
<1> HIDE DEF x, y
<1>5. x = y
  BY <1>3, <1>4, SeqEqual
<1>6. QED
  BY <1>5 DEF x, y

\* Where the entries of a list are when one has been taken out.
LEMMA RemoveAtEntries ==
  ASSUME NEW T, NEW s \in Seq(T), NEW p \in 1..Len(s)
  PROVE  LET r == RemoveAt(s, p)
         IN /\ r \in Seq(T) /\ Len(r) = Len(s) - 1
            /\ \A i \in 1..Len(s)-1 : r[i] = IF i < p THEN s[i] ELSE s[i+1]
<1> DEFINE m == Len(s)
           a == SubSeq(s, 1, p - 1)
           b == SubSeq(s, p + 1, m)
           r == a \o b
<1>1. m \in Nat /\ p \in 1..m
  OBVIOUS
<1>2. a \in Seq(T) /\ Len(a) = p - 1 /\ \A i \in 1..p-1 : a[i] = s[i]
  OBVIOUS
<1>3. b \in Seq(T) /\ Len(b) = m - p /\ \A i \in 1..m-p : b[i] = s[i + p]
  OBVIOUS
<1>4. RemoveAt(s, p) = r
  BY DEF RemoveAt
<1> HIDE DEF m, a, b
<1>5. /\ r \in Seq(T) /\ Len(r) = m - 1
      /\ \A i \in 1..m-1 : r[i] = IF i < p THEN a[i] ELSE b[i - p + 1]
  <2>1. /\ r \in Seq(T) /\ Len(r) = Len(a) + Len(b)
        /\ \A i \in 1..Len(a)+Len(b) : r[i] = IF i <= Len(a) THEN a[i] ELSE b[i - Len(a)]
    BY <1>2, <1>3, ConcatEntries
  <2> HIDE DEF r
  <2>2. Len(a) = p - 1 /\ Len(a) + Len(b) = m - 1
    BY <1>1, <1>2, <1>3
  <2>3. \A i \in 1..m-1 : (i <= p - 1 <=> i < p) /\ i - (p - 1) = i - p + 1
    BY <1>1
  <2>4. QED
    BY <2>1, <2>2, <2>3
<1> HIDE DEF r
<1>6. ASSUME NEW i \in 1..m-1 PROVE r[i] = IF i < p THEN s[i] ELSE s[i+1]
  <2>1. CASE i < p
    BY <1>1, <1>2, <1>5, <2>1
  <2>2. CASE i >= p
    <3>1. i - p + 1 \in 1..m-p /\ (i - p + 1) + p = i + 1
      BY <1>1, <2>2
    <3>2. b[i - p + 1] = s[i + 1]
      BY <1>3, <3>1
    <3>3. QED
      BY <1>1, <1>5, <2>2, <3>2
  <2>3. QED
    BY <1>1, <2>1, <2>2
<1>7. QED
  BY <1>4, <1>5, <1>6 DEF m

\* A block that is put in where it belongs keeps the list sorted.
LEMMA InsertAtFacts ==
  ASSUME NEW T, NEW s \in Seq(T), NEW e \in T, NEW p \in 1..Len(s)+1, NEW sizes \in [T -> Nat],
         Sorted(s, sizes),
         \A i \in 1..p-1 : sizes[s[i]] <= sizes[e], \A i \in p..Len(s) : sizes[e] <= sizes[s[i]]
  PROVE  LET r == InsertAt(s, p, e)
         IN /\ r \in Seq(T) /\ ToSet(r) = ToSet(s) \cup {e} /\ Sorted(r, sizes)
            /\ NoDup(s) /\ e \notin ToSet(s) => NoDup(r)
<1> DEFINE r == InsertAt(s, p, e)
           m == Len(s)
<1>1. /\ r \in Seq(T) /\ Len(r) = m + 1
      /\ \A i \in 1..m+1 : r[i] = IF i < p THEN s[i] ELSE IF i = p THEN e ELSE s[i-1]
  <2>1. /\ InsertAt(s, p, e) \in Seq(T) /\ Len(InsertAt(s, p, e)) = Len(s) + 1
        /\ \A i \in 1..Len(s)+1 : InsertAt(s, p, e)[i] = IF i < p THEN s[i] ELSE IF i = p THEN e ELSE s[i-1]
    <3> HIDE DEF m, r
    <3>1. QED
      BY InsertAtEntries
  <2>2. QED
    BY <2>1
<1> HIDE DEF r
<1>2. DOMAIN r = 1..m+1 /\ DOMAIN s = 1..m /\ m \in Nat /\ p \in 1..m+1 /\ \A i \in 1..m : s[i] \in T
  BY <1>1
<1> HIDE DEF m
<1>3. ToSet(r) = ToSet(s) \cup {e}
  <2>1. ASSUME NEW i \in 1..m PROVE s[i] \in ToSet(r)
    <3>1. CASE i < p
      <4>1. i \in 1..m+1 /\ r[i] = s[i]
        BY <1>1, <1>2, <3>1
      <4>2. QED
        BY <1>2, <4>1 DEF ToSet
    <3>2. CASE i >= p
      <4>1. i + 1 \in 1..m+1 /\ r[i+1] = s[i]
        BY <1>1, <1>2, <3>2
      <4>2. QED
        BY <1>2, <4>1 DEF ToSet
    <3>3. QED
      BY <1>2, <3>1, <3>2
  <2>2. e \in ToSet(r)
    <3>1. r[p] = e /\ p \in DOMAIN r
      BY <1>1, <1>2
    <3>2. QED
      BY <3>1 DEF ToSet
  <2>3. ASSUME NEW i \in 1..m+1 PROVE r[i] \in ToSet(s) \cup {e}
    <3>1. CASE i < p
      BY SMTT(30), <1>1, <1>2, <3>1 DEF ToSet
    <3>2. CASE i = p
      BY <1>1, <3>2
    <3>3. CASE i > p
      <4>1. i - 1 \in 1..m /\ r[i] = s[i-1]
        BY <1>1, <1>2, <3>3
      <4>2. QED
        BY <1>2, <4>1 DEF ToSet
    <3>4. QED
      BY <1>2, <3>1, <3>2, <3>3
  <2>4. QED
    BY <1>2, <2>1, <2>2, <2>3 DEF ToSet
<1>4. ASSUME NEW i \in 1..m+1, NEW j \in 1..m+1, i < j PROVE sizes[r[i]] <= sizes[r[j]]
  <2>1. \A x, y \in 1..m : x < y => sizes[s[x]] <= sizes[s[y]]
    BY <1>2 DEF Sorted
  <2>2. (\A x \in 1..p-1 : sizes[s[x]] <= sizes[e]) /\ (\A x \in p..m : sizes[e] <= sizes[s[x]])
    BY DEF m
  <2>3. CASE j < p
    BY SMTT(30), <1>1, <1>2, <1>4, <2>1, <2>3
  <2>4. CASE j = p
    BY <1>1, <1>2, <1>4, <2>2, <2>4
  <2>5. CASE j > p
    <3>1. j - 1 \in p..m /\ r[j] = s[j-1] /\ j - 1 \in 1..m
      BY <1>1, <1>2, <2>5
    <3>2. CASE i < p
      <4>1. i \in 1..m /\ i < j - 1 /\ r[i] = s[i]
        BY <1>1, <1>2, <2>5, <3>2
      <4>2. QED
        BY <2>1, <3>1, <4>1
    <3>3. CASE i = p
      BY <1>1, <1>2, <2>2, <3>1, <3>3
    <3>4. CASE i > p
      <4>1. i - 1 \in 1..m /\ r[i] = s[i-1] /\ i - 1 < j - 1
        BY <1>1, <1>2, <1>4, <3>4
      <4>2. QED
        BY <2>1, <3>1, <4>1
    <3>5. QED
      BY <1>2, <3>2, <3>3, <3>4
  <2>6. QED
    BY <1>2, <2>3, <2>4, <2>5
<1>5. ASSUME NoDup(s), e \notin ToSet(s) PROVE NoDup(r)
  <2>1. \A x, y \in 1..m : s[x] = s[y] => x = y
    BY <1>2, <1>5 DEF NoDup
  <2>2. \A x \in 1..m : s[x] # e
    BY <1>2, <1>5 DEF ToSet
  <2>3. ASSUME NEW i \in 1..m+1, NEW j \in 1..m+1, i < j PROVE r[i] # r[j]
    <3>1. CASE j < p
      BY SMTT(30), <1>1, <1>2, <2>1, <2>3, <3>1
    <3>2. CASE j = p
      BY <1>1, <1>2, <2>2, <2>3, <3>2
    <3>3. CASE j > p
      <4>1. r[j] = s[j-1] /\ j - 1 \in 1..m
        BY <1>1, <1>2, <3>3
      <4>2. CASE i < p
        BY <1>1, <1>2, <2>1, <2>3, <3>3, <4>1, <4>2
      <4>3. CASE i = p
        BY <1>1, <1>2, <2>2, <4>1, <4>3
      <4>4. CASE i > p
        <5>1. i - 1 \in 1..m /\ r[i] = s[i-1] /\ i - 1 # j - 1
          BY SMTT(30), <1>1, <1>2, <2>3, <4>4
        <5>2. QED
          BY <2>1, <4>1, <5>1
      <4>5. QED
        BY <1>2, <4>2, <4>3, <4>4
    <3>4. QED
      BY <1>2, <3>1, <3>2, <3>3
  <2>4. QED
    <3>1. \A i, j \in 1..m+1 : r[i] = r[j] => ~(i < j) /\ ~(j < i)
      BY <2>3
    <3>2. \A i, j \in 1..m+1 : ~(i < j) /\ ~(j < i) => i = j
      BY <1>2
    <3>3. QED
      BY <1>2, <3>1, <3>2 DEF NoDup
<1>6. QED
  BY <1>1, <1>2, <1>3, <1>4, <1>5 DEF Sorted, r

\* A list without one of its entries keeps the order of the others.
LEMMA RemoveAtFacts ==
  ASSUME NEW T, NEW s \in Seq(T), NEW p \in 1..Len(s), NEW sizes, Sorted(s, sizes), NoDup(s)
  PROVE  LET r == RemoveAt(s, p)
         IN r \in Seq(T) /\ ToSet(r) = ToSet(s) \ {s[p]} /\ Sorted(r, sizes) /\ NoDup(r)
<1> DEFINE r == RemoveAt(s, p)
           m == Len(s)
<1>1. /\ r \in Seq(T) /\ Len(r) = m - 1
      /\ \A i \in 1..m-1 : r[i] = IF i < p THEN s[i] ELSE s[i+1]
  BY RemoveAtEntries
<1> HIDE DEF r
<1>2. DOMAIN r = 1..m-1 /\ DOMAIN s = 1..m /\ m \in Nat /\ p \in 1..m
  BY <1>1
<1> HIDE DEF m
<1>3. \A x, y \in 1..m : s[x] = s[y] => x = y
  BY <1>2 DEF NoDup
<1> DEFINE at(i) == IF i < p THEN i ELSE i + 1
<1>4. \A i \in 1..m-1 : at(i) \in 1..m /\ at(i) # p /\ r[i] = s[at(i)]
  BY <1>1, <1>2
<1>5. \A i, j \in 1..m-1 : i < j => at(i) < at(j)
  BY <1>2
<1>6. \A x \in 1..m : x # p => \E i \in 1..m-1 : at(i) = x
  <2> SUFFICES ASSUME NEW x \in 1..m, x # p PROVE \E i \in 1..m-1 : at(i) = x
    OBVIOUS
  <2>1. CASE x < p
    <3>1. x \in 1..m-1 /\ at(x) = x
      BY <1>2, <2>1
    <3>2. QED
      BY <3>1
  <2>2. CASE x > p
    <3>1. x - 1 \in 1..m-1 /\ at(x-1) = x
      BY <1>2, <2>2
    <3>2. QED
      BY <3>1
  <2>3. QED
    BY <1>2, <2>1, <2>2
<1> HIDE DEF at
<1>7. ToSet(r) = ToSet(s) \ {s[p]}
  <2>1. ASSUME NEW i \in 1..m-1 PROVE r[i] \in ToSet(s) /\ r[i] # s[p]
    BY <1>2, <1>3, <1>4 DEF ToSet
  <2>2. ASSUME NEW x \in 1..m, s[x] # s[p] PROVE s[x] \in ToSet(r)
    <3>1. PICK i \in 1..m-1 : at(i) = x
      BY <1>6, <2>2
    <3>2. QED
      BY <1>2, <1>4, <3>1 DEF ToSet
  <2>3. QED
    BY <1>2, <2>1, <2>2 DEF ToSet
<1>8. Sorted(r, sizes)
  <2>1. \A x, y \in 1..m : x < y => sizes[s[x]] <= sizes[s[y]]
    BY <1>2 DEF Sorted
  <2>2. ASSUME NEW i \in 1..m-1, NEW j \in 1..m-1, i < j PROVE sizes[r[i]] <= sizes[r[j]]
    BY <1>4, <1>5, <2>1, <2>2
  <2>3. QED
    BY <1>2, <2>2 DEF Sorted
<1>9. NoDup(r)
  <2>1. ASSUME NEW i \in 1..m-1, NEW j \in 1..m-1, r[i] = r[j] PROVE i = j
    <3>1. at(i) = at(j)
      BY <1>3, <1>4, <2>1
    <3>2. ~(i < j) /\ ~(j < i)
      BY <1>2, <1>4, <1>5, <3>1
    <3>3. QED
      BY <1>2, <3>2
  <2>2. QED
    BY <1>2, <2>1 DEF NoDup
<1>10. QED
  BY <1>1, <1>7, <1>8, <1>9 DEF r

\* prvInsertBlockIntoFreeList keeps the list sorted and adds the block.
LEMMA InsertBlock ==
  ASSUME NEW T, NEW list \in Seq(T), NEW b \in T, NEW sizes \in [T -> Nat], Sorted(list, sizes)
  PROVE  LET r == prvInsertBlockIntoFreeList(list, b, sizes)
         IN /\ r \in Seq(T) /\ ToSet(r) = ToSet(list) \cup {b} /\ Sorted(r, sizes)
            /\ NoDup(list) /\ b \notin ToSet(list) => NoDup(r)
<1> DEFINE larger == {i \in DOMAIN list : sizes[list[i]] >= sizes[b]}
           first == CHOOSE i \in larger : \A j \in larger : i <= j
           m == Len(list)
           p == IF larger = {} THEN m + 1 ELSE first
<1>1. m \in Nat /\ DOMAIN list = 1..m /\ \A i \in 1..m : list[i] \in T
  OBVIOUS
<1>2. prvInsertBlockIntoFreeList(list, b, sizes) = InsertAt(list, p, b)
  <2>1. CASE larger = {}
    <3>1. InsertAt(list, m + 1, b) = Append(list, b)
      BY InsertAtEnd
    <3>2. QED
      BY <2>1, <3>1 DEF prvInsertBlockIntoFreeList
  <2>2. CASE larger # {}
    BY SMTT(30), <2>2 DEF prvInsertBlockIntoFreeList
  <2>3. QED
    BY <2>1, <2>2
<1>3. larger # {} => first \in larger /\ \A j \in larger : first <= j
  <2> SUFFICES ASSUME larger # {} PROVE first \in larger /\ \A j \in larger : first <= j
    OBVIOUS
  <2>1. larger \in SUBSET Nat
    BY <1>1
  <2> HIDE DEF larger
  <2>2. \E i \in larger : \A j \in larger : i <= j
    BY <2>1, Least
  <2>3. QED
    BY <2>2
<1> HIDE DEF first
<1>4. p \in 1..m+1
  BY <1>1, <1>3
<1>5. ASSUME NEW i \in 1..p-1 PROVE sizes[list[i]] <= sizes[b]
  <2>1. i \in 1..m
    BY <1>1, <1>4
  <2>2. i \notin larger
    <3>1. larger # {} => ~(p <= i) /\ p = first
      BY <1>1, <1>4
    <3> HIDE DEF larger, p
    <3>2. QED
      BY <1>3, <3>1
  <2>3. sizes[list[i]] \in Nat /\ sizes[b] \in Nat
    BY <1>1, <2>1
  <2>4. QED
    BY <1>1, <2>1, <2>2, <2>3
<1>6. ASSUME NEW i \in p..m PROVE sizes[b] <= sizes[list[i]]
  <2>1. i \in 1..m /\ larger # {} /\ p = first /\ p \in 1..m /\ sizes[list[p]] >= sizes[b]
    BY <1>1, <1>3, <1>4, <1>6
  <2>2. sizes[list[i]] \in Nat /\ sizes[b] \in Nat /\ sizes[list[p]] \in Nat
    BY <1>1, <2>1
  <2> HIDE DEF p, larger
  <2>3. sizes[list[p]] <= sizes[list[i]]
    <3>1. CASE i = p
      BY <2>2, <3>1
    <3>2. CASE p < i
      BY <1>1, <2>1, <3>2 DEF Sorted
    <3>3. QED
      BY <1>6, <2>1, <3>1, <3>2
  <2>4. QED
    BY <2>1, <2>2, <2>3
<1> HIDE DEF p, larger
<1>7. LET r == InsertAt(list, p, b)
      IN /\ r \in Seq(T) /\ ToSet(r) = ToSet(list) \cup {b} /\ Sorted(r, sizes)
         /\ NoDup(list) /\ b \notin ToSet(list) => NoDup(r)
  BY <1>4, <1>5, <1>6, InsertAtFacts
<1>8. QED
  BY <1>2, <1>7

\* A list without repetition is as long as the set of its members is large.
LEMMA LengthOfSet ==
  ASSUME NEW T, NEW s \in Seq(T), NoDup(s)
  PROVE  Cardinality(ToSet(s)) = Len(s)
<1> DEFINE m == Len(s)
           f == [i \in 1..m |-> s[i]]
<1>1. m \in Nat /\ DOMAIN s = 1..m
  OBVIOUS
<1>2. f \in [1..m -> ToSet(s)]
  BY <1>1 DEF ToSet
<1>3. \A i, j \in 1..m : f[i] = f[j] => i = j
  BY <1>1 DEF NoDup
<1>4. \A t \in ToSet(s) : \E i \in 1..m : f[i] = t
  BY <1>1 DEF ToSet
<1> HIDE DEF f
<1>5. QED
  BY <1>1, <1>2, <1>3, <1>4, Counted

-----------------------------------------------------------------------------
(* The invariant.                                                          *)

\* Where blocks can be, and how large.
Blocks ==
    /\ size \in [DOMAIN size -> Nat] /\ DOMAIN size \subseteq 0..configTOTAL_HEAP_SIZE-1
    /\ \A b \in DOMAIN size : b % portBYTE_ALIGNMENT = 0 /\ size[b] % portBYTE_ALIGNMENT = 0

\* Each block ends where the next one begins: the part of Tiles about blocks.
Consecutive ==
    /\ 0 \in DOMAIN size
    /\ \A b \in DOMAIN size :
          /\ b + size[b] \in DOMAIN size \cup {configTOTAL_HEAP_SIZE}
          /\ size[b] >= heapSTRUCT_SIZE
          /\ \A c \in DOMAIN size : c > b => c >= b + size[b]

\* The list has the blocks that are not in use, once each, small ones first.
FreeList ==
    /\ free \in Seq(DOMAIN size) /\ ToSet(free) = DOMAIN size \ DOMAIN used
    /\ NoDup(free) /\ Sorted(free, size)

\* A block in use holds its link and what was asked for.
InUse ==
    /\ DOMAIN used \subseteq DOMAIN size
    /\ \A b \in DOMAIN used : used[b] \in Requests \ {0} /\ size[b] >= Wanted(used[b])

HeapInv == Blocks /\ Consecutive /\ FreeList /\ InUse

\* What the invariant says of one block.
LEMMA BlockFacts ==
  ASSUME HeapInv, NEW b \in DOMAIN size
  PROVE  /\ b \in Nat /\ b < configTOTAL_HEAP_SIZE /\ size[b] \in Nat /\ configTOTAL_HEAP_SIZE \in Nat
         /\ b + size[b] <= configTOTAL_HEAP_SIZE
         /\ b + size[b] \in DOMAIN size \cup {configTOTAL_HEAP_SIZE}
         /\ size[b] >= heapSTRUCT_SIZE /\ heapSTRUCT_SIZE \in Nat \ {0}
         /\ \A c \in DOMAIN size : c > b => c >= b + size[b]
         /\ b % portBYTE_ALIGNMENT = 0 /\ size[b] % portBYTE_ALIGNMENT = 0
<1>1. configTOTAL_HEAP_SIZE \in Nat /\ heapSTRUCT_SIZE \in Nat \ {0}
  BY SizeFacts
<1>2. /\ size \in [DOMAIN size -> Nat] /\ DOMAIN size \subseteq 0..configTOTAL_HEAP_SIZE-1
      /\ b % portBYTE_ALIGNMENT = 0 /\ size[b] % portBYTE_ALIGNMENT = 0
  BY DEF HeapInv, Blocks
<1>3. /\ b + size[b] \in DOMAIN size \cup {configTOTAL_HEAP_SIZE}
      /\ size[b] >= heapSTRUCT_SIZE
      /\ \A c \in DOMAIN size : c > b => c >= b + size[b]
  BY DEF HeapInv, Consecutive
<1>4. b \in Nat /\ b < configTOTAL_HEAP_SIZE /\ size[b] \in Nat
  BY <1>1, <1>2
<1>5. b + size[b] <= configTOTAL_HEAP_SIZE
  BY <1>1, <1>2, <1>3
<1>6. QED
  BY <1>1, <1>2, <1>3, <1>4, <1>5

\* The search ends at the first block of the list that is large enough: at a
\* free one, and at none that is larger than it need be.
LEMMA FirstFitFacts ==
  ASSUME HeapInv, NEW n \in Requests, CanServe(n)
  PROVE  LET b == free[FirstFit(n)]
         IN /\ FirstFit(n) \in 1..Len(free) /\ b \in ToSet(free)
            /\ b \in DOMAIN size /\ b \notin DOMAIN used /\ Suffices(b, n)
            /\ \A c \in ToSet(free) : Suffices(c, n) => size[b] <= size[c]
            /\ n # 0 /\ Wanted(n) \in Nat /\ Wanted(n) >= n + heapSTRUCT_SIZE
<1> DEFINE S == {i \in DOMAIN free : Suffices(free[i], n)}
           p == FirstFit(n)
<1>1. /\ free \in Seq(DOMAIN size) /\ ToSet(free) = DOMAIN size \ DOMAIN used
      /\ \A i, j \in DOMAIN free : i < j => size[free[i]] <= size[free[j]]
  BY DEF HeapInv, FreeList, Sorted
<1>2. DOMAIN free = 1..Len(free) /\ Len(free) \in Nat /\ \A i \in DOMAIN free : free[i] \in DOMAIN size
  BY <1>1
<1>3. p \in DOMAIN free /\ Suffices(free[p], n) /\ \A j \in 1..p-1 : ~Suffices(free[j], n)
  <2>1. S \in SUBSET Nat /\ S # {}
    BY <1>2 DEF CanServe
  <2> HIDE DEF S
  <2>2. PICK m \in S : \A j \in S : m <= j
    BY <2>1, Least
  <2>3. m \in 1..Len(free) /\ Suffices(free[m], n)
    BY <1>2, <2>2 DEF S
  <2>4. \A j \in 1..m-1 : j \in DOMAIN free /\ ~(m <= j)
    BY <1>2, <2>3
  <2>5. \A j \in 1..m-1 : ~Suffices(free[j], n)
    BY <2>2, <2>4 DEF S
  <2>6. \E i \in DOMAIN free : Suffices(free[i], n) /\ \A j \in 1..i-1 : ~Suffices(free[j], n)
    BY <1>2, <2>3, <2>5
  <2>7. QED
    BY <2>6 DEF FirstFit
<1> HIDE DEF p
<1>4. free[p] \in ToSet(free)
  BY <1>3 DEF ToSet
<1>5. ASSUME NEW c \in ToSet(free), Suffices(c, n) PROVE size[free[p]] <= size[c]
  <2>1. PICK j \in DOMAIN free : free[j] = c
    BY DEF ToSet
  <2>2. ~(j \in 1..p-1)
    BY <1>3, <1>5, <2>1
  <2>3. p = j \/ p < j
    BY <1>2, <1>3, <2>2
  <2>4. size[free[p]] \in Nat
    BY <1>2, <1>3, BlockFacts
  <2>5. QED
    BY <1>1, <1>3, <2>1, <2>3, <2>4
<1>6. n # 0 /\ Wanted(n) \in Nat /\ Wanted(n) >= n + heapSTRUCT_SIZE
  <2>1. Wanted(n) > 0
    BY DEF CanServe
  <2>2. QED
    BY <2>1, WantedFacts
<1>7. QED
  BY <1>1, <1>2, <1>3, <1>4, <1>5, <1>6 DEF p

-----------------------------------------------------------------------------
(* The steps.                                                              *)

\* One block that covers the heap.
LEMMA InitHolds == Init => HeapInv
<1> SUFFICES ASSUME Init PROVE HeapInv
  OBVIOUS
<1>1. /\ configTOTAL_HEAP_SIZE \in Nat \ {0} /\ configTOTAL_HEAP_SIZE % portBYTE_ALIGNMENT = 0
      /\ heapSTRUCT_SIZE <= configTOTAL_HEAP_SIZE /\ portBYTE_ALIGNMENT \in Nat \ {0}
      /\ heapSTRUCT_SIZE \in Nat
  BY SizeFacts
<1>2. DOMAIN size = {0} /\ size[0] = configTOTAL_HEAP_SIZE /\ size \in [{0} -> Nat]
  BY <1>1 DEF Init
<1>3. DOMAIN used = {} /\ free = <<0>>
  BY DEF Init
<1>4. Blocks
  BY <1>1, <1>2 DEF Blocks
<1>5. Consecutive
  BY <1>1, <1>2 DEF Consecutive
<1>6. FreeList
  <2>1. free \in Seq({0}) /\ ToSet(free) = {0} /\ NoDup(free)
    BY <1>3, OneFacts
  <2>2. DOMAIN free = 1..1
    BY <1>3
  <2>3. Sorted(free, size)
    BY <2>2 DEF Sorted
  <2>4. QED
    BY <1>2, <1>3, <2>1, <2>3 DEF FreeList
<1>7. InUse
  BY <1>3 DEF InUse
<1>8. QED
  BY <1>4, <1>5, <1>6, <1>7 DEF HeapInv

\* A request that gets the whole of a block: the tiling stays, the block leaves
\* the list.
LEMMA TakeWholeStep ==
  ASSUME HeapInv, NEW n \in Requests, TakeWhole(n)
  PROVE  HeapInv'
<1> DEFINE p == FirstFit(n)
           b == free[p]
<1>1. CanServe(n) /\ free' = RemoveAt(free, p) /\ size' = size
  BY DEF TakeWhole
<1>2. used' = [x \in DOMAIN used \cup {b} |-> IF x = b THEN n ELSE used[x]]
  BY DEF TakeWhole, Take
<1>3. /\ p \in 1..Len(free) /\ b \in ToSet(free) /\ b \in DOMAIN size /\ b \notin DOMAIN used
      /\ Suffices(b, n) /\ n # 0
  BY <1>1, FirstFitFacts
<1> HIDE DEF p
<1>4. /\ free \in Seq(DOMAIN size) /\ ToSet(free) = DOMAIN size \ DOMAIN used
      /\ NoDup(free) /\ Sorted(free, size)
  BY DEF HeapInv, FreeList
<1>5. /\ free' \in Seq(DOMAIN size) /\ ToSet(free') = ToSet(free) \ {b}
      /\ NoDup(free') /\ Sorted(free', size)
  BY <1>1, <1>3, <1>4, RemoveAtFacts
<1>6. DOMAIN used' = DOMAIN used \cup {b} /\ used'[b] = n /\ \A x \in DOMAIN used : used'[x] = used[x]
  BY <1>2, <1>3
<1> HIDE DEF b
<1>7. FreeList'
  BY <1>1, <1>4, <1>5, <1>6 DEF FreeList
<1>8. InUse'
  BY <1>1, <1>3, <1>6 DEF HeapInv, InUse, Suffices, Wanted
<1>9. Blocks' /\ Consecutive'
  BY <1>1 DEF HeapInv, Blocks, Consecutive
<1>10. QED
  BY <1>7, <1>8, <1>9 DEF HeapInv

\* NULL changes nothing.
LEMMA ReturnNullStep ==
  ASSUME HeapInv, NEW n \in Requests, ReturnNull(n)
  PROVE  HeapInv'
  BY DEF ReturnNull, HeapInv, Blocks, Consecutive, FreeList, InUse, Suffices

\* A block that is freed is in no list and goes where its size belongs.
LEMMA FreeStep ==
  ASSUME HeapInv, NEW b \in DOMAIN used, vPortFree(b)
  PROVE  HeapInv'
<1>1. /\ free' = prvInsertBlockIntoFreeList(free, b, size) /\ size' = size
      /\ used' = [x \in DOMAIN used \ {b} |-> used[x]]
  BY DEF vPortFree
<1>2. /\ free \in Seq(DOMAIN size) /\ ToSet(free) = DOMAIN size \ DOMAIN used
      /\ NoDup(free) /\ Sorted(free, size)
  BY DEF HeapInv, FreeList
<1>3. b \in DOMAIN size /\ size \in [DOMAIN size -> Nat]
  BY DEF HeapInv, InUse, Blocks
<1>4. /\ free' \in Seq(DOMAIN size) /\ ToSet(free') = ToSet(free) \cup {b} /\ Sorted(free', size)
      /\ NoDup(free) /\ b \notin ToSet(free) => NoDup(free')
  BY <1>1, <1>2, <1>3, InsertBlock
<1>5. DOMAIN used' = DOMAIN used \ {b} /\ \A x \in DOMAIN used' : used'[x] = used[x]
  BY <1>1
<1>6. FreeList'
  BY <1>1, <1>2, <1>3, <1>4, <1>5 DEF FreeList
<1>7. InUse'
  BY <1>1, <1>5 DEF HeapInv, InUse
<1>8. Blocks' /\ Consecutive'
  BY <1>1 DEF HeapInv, Blocks, Consecutive
<1>9. QED
  BY <1>6, <1>7, <1>8 DEF HeapInv

\* Where a split leaves the blocks: the remainder begins inside the block that
\* is taken, where no block began, and ends where that one ended.
LEMMA SplitBlocks ==
  ASSUME HeapInv, NEW n \in Requests, Split(n)
  PROVE  LET p == FirstFit(n)
             b == free[p]
             new == b + Wanted(n)
         IN /\ p \in 1..Len(free) /\ b \in ToSet(free) /\ b \in DOMAIN size /\ b \notin DOMAIN used
            /\ n # 0 /\ Wanted(n) \in Nat /\ Wanted(n) >= n + heapSTRUCT_SIZE /\ n \in Nat
            /\ Wanted(n) % portBYTE_ALIGNMENT = 0
            /\ new \in Nat /\ new > b /\ new < configTOTAL_HEAP_SIZE /\ new \notin DOMAIN size
            /\ size[b] - Wanted(n) \in Nat /\ size[b] - Wanted(n) >= heapSTRUCT_SIZE
            /\ new + (size[b] - Wanted(n)) = b + size[b]
            /\ DOMAIN size' = DOMAIN size \cup {new}
            /\ size'[new] = size[b] - Wanted(n) /\ size'[b] = Wanted(n)
            /\ \A x \in DOMAIN size : x # b => size'[x] = size[x]
            /\ size' = [x \in DOMAIN size' |-> size'[x]]
<1> DEFINE p == FirstFit(n)
           b == free[p]
           w == Wanted(n)
           new == b + w
<1>1. CanServe(n) /\ size[b] - w > heapMINIMUM_BLOCK_SIZE
  BY DEF Split
<1>2. size' = [x \in DOMAIN size \cup {new} |->
                 CASE x = new -> size[b] - w [] x = b -> w [] OTHER -> size[x]]
  BY DEF Split
<1>3. /\ p \in 1..Len(free) /\ b \in ToSet(free) /\ b \in DOMAIN size /\ b \notin DOMAIN used
      /\ n # 0 /\ w \in Nat /\ w >= n + heapSTRUCT_SIZE
  BY <1>1, FirstFitFacts
<1>4. n \in Nat /\ w % portBYTE_ALIGNMENT = 0
  BY SizeFacts, WantedFacts
<1> HIDE DEF p, w
<1>5. /\ b \in Nat /\ b < configTOTAL_HEAP_SIZE /\ size[b] \in Nat /\ configTOTAL_HEAP_SIZE \in Nat
      /\ b + size[b] <= configTOTAL_HEAP_SIZE
      /\ \A c \in DOMAIN size : c > b => c >= b + size[b]
      /\ heapSTRUCT_SIZE \in Nat \ {0}
  BY <1>3, BlockFacts
<1>6. heapMINIMUM_BLOCK_SIZE = heapSTRUCT_SIZE + heapSTRUCT_SIZE
  BY SizeFacts
<1> HIDE DEF b
<1>7. /\ new \in Nat /\ new > b /\ new < configTOTAL_HEAP_SIZE /\ new < b + size[b]
      /\ size[b] - w \in Nat /\ size[b] - w >= heapSTRUCT_SIZE /\ new + (size[b] - w) = b + size[b]
  BY <1>1, <1>3, <1>4, <1>5, <1>6
<1>8. new \notin DOMAIN size
  BY <1>5, <1>7
<1> HIDE DEF new
<1>9. b # new
  BY <1>5, <1>7
<1>10. /\ DOMAIN size' = DOMAIN size \cup {new} /\ size'[new] = size[b] - w
      /\ size' = [x \in DOMAIN size' |-> size'[x]]
  <2> DEFINE f == [x \in DOMAIN size \cup {new} |->
                     CASE x = new -> size[b] - w [] x = b -> w [] OTHER -> size[x]]
  <2>1. DOMAIN f = DOMAIN size \cup {new} /\ f[new] = size[b] - w
    BY <1>9
  <2>2. f = [x \in DOMAIN f |-> f[x]]
    OBVIOUS
  <2> HIDE DEF f
  <2>3. size' = f
    BY <1>2 DEF f
  <2>4. QED
    BY <2>1, <2>2, <2>3
<1>11. size'[b] = w /\ \A x \in DOMAIN size : x # b => size'[x] = size[x]
  BY <1>2, <1>3, <1>8, <1>9
<1>12. QED
  BY <1>3, <1>4, <1>7, <1>8, <1>10, <1>11 DEF new, b, w, p

\* A split keeps the tiling and puts the remainder where its size belongs.
LEMMA SplitStep ==
  ASSUME HeapInv, NEW n \in Requests, Split(n)
  PROVE  HeapInv'
<1> DEFINE p == FirstFit(n)
           b == free[p]
           w == Wanted(n)
           new == b + w
           rest == size[b] - w
<1>1. /\ p \in 1..Len(free) /\ b \in ToSet(free) /\ b \in DOMAIN size /\ b \notin DOMAIN used
      /\ n # 0 /\ w \in Nat /\ w >= n + heapSTRUCT_SIZE /\ n \in Nat
      /\ w % portBYTE_ALIGNMENT = 0
      /\ new \in Nat /\ new > b /\ new < configTOTAL_HEAP_SIZE /\ new \notin DOMAIN size
      /\ rest \in Nat /\ rest >= heapSTRUCT_SIZE
      /\ new + rest = b + size[b]
      /\ DOMAIN size' = DOMAIN size \cup {new}
      /\ size'[new] = rest /\ size'[b] = w
      /\ \A x \in DOMAIN size : x # b => size'[x] = size[x]
      /\ size' = [x \in DOMAIN size' |-> size'[x]]
  BY SplitBlocks
<1>2. used' = [x \in DOMAIN used \cup {b} |-> IF x = b THEN n ELSE used[x]]
  BY DEF Split, Take
<1>3. free' = prvInsertBlockIntoFreeList(RemoveAt(free, p), new, size')
  BY DEF Split
<1>4. /\ free \in Seq(DOMAIN size) /\ ToSet(free) = DOMAIN size \ DOMAIN used
      /\ NoDup(free) /\ Sorted(free, size)
  BY DEF HeapInv, FreeList
<1> DEFINE list == RemoveAt(free, p)
<1>5. list \in Seq(DOMAIN size) /\ ToSet(list) = ToSet(free) \ {b} /\ NoDup(list) /\ Sorted(list, size)
  <2> HIDE DEF p
  <2>1. QED
    BY <1>1, <1>4, RemoveAtFacts
<1> HIDE DEF list, p
<1>6. DOMAIN used' = DOMAIN used \cup {b} /\ used'[b] = n /\ \A x \in DOMAIN used : used'[x] = used[x]
  BY <1>1, <1>2
<1>7. /\ size \in [DOMAIN size -> Nat] /\ DOMAIN size \subseteq 0..configTOTAL_HEAP_SIZE-1
      /\ \A x \in DOMAIN size : x % portBYTE_ALIGNMENT = 0 /\ size[x] % portBYTE_ALIGNMENT = 0
      /\ b \in Nat /\ size[b] \in Nat /\ configTOTAL_HEAP_SIZE \in Nat
  BY <1>1, BlockFacts DEF HeapInv, Blocks
<1>8. new % portBYTE_ALIGNMENT = 0 /\ rest % portBYTE_ALIGNMENT = 0
  <2>1. portBYTE_ALIGNMENT \in Nat \ {0}
    BY SizeFacts
  <2>2. b % portBYTE_ALIGNMENT = 0 /\ size[b] % portBYTE_ALIGNMENT = 0
    BY <1>1, <1>7
  <2>3. new % portBYTE_ALIGNMENT = 0
    BY <1>1, <1>7, <2>1, <2>2, ModAdd
  <2>4. rest % portBYTE_ALIGNMENT = 0
    <3>1. size[b] - w \in Nat /\ w \in Nat /\ w % portBYTE_ALIGNMENT = 0
      BY <1>1
    <3> HIDE DEF w, b
    <3>2. (size[b] - w) % portBYTE_ALIGNMENT = 0
      BY <1>7, <2>1, <2>2, <3>1, ModSub
    <3>3. QED
      BY <3>2
  <2>5. QED
    BY <2>3, <2>4
<1> HIDE DEF b, w, new, rest
<1>9. size' \in [DOMAIN size' -> Nat]
  BY <1>1, <1>7
<1>10. Blocks'
  BY SMTT(30), <1>1, <1>7, <1>8, <1>9 DEF Blocks
<1>11. Consecutive'
  <2>1. 0 \in DOMAIN size'
    BY <1>1 DEF HeapInv, Consecutive
  <2>2. ASSUME NEW x \in DOMAIN size'
        PROVE  /\ x + size'[x] \in DOMAIN size' \cup {configTOTAL_HEAP_SIZE}
               /\ size'[x] >= heapSTRUCT_SIZE
               /\ \A c \in DOMAIN size' : c > x => c >= x + size'[x]
    <3>1. /\ b + size[b] \in DOMAIN size \cup {configTOTAL_HEAP_SIZE}
          /\ \A c \in DOMAIN size : c > b => c >= b + size[b]
          /\ heapSTRUCT_SIZE \in Nat \ {0}
      BY <1>1, BlockFacts
    <3>2. CASE x = new
      <4>1. \A c \in DOMAIN size : c \in Nat
        BY <1>7
      <4>2. \A c \in DOMAIN size : c > new => c >= b + size[b]
        BY <1>1, <1>7, <3>1, <4>1
      <4>3. QED
        BY <1>1, <3>1, <3>2, <4>2
    <3>3. CASE x = b
      <4>1. x + size'[x] = new /\ b + w = new
        BY <1>1, <3>3 DEF new
      <4>2. \A c \in DOMAIN size : c \in Nat
        BY <1>7
      <4>3. \A c \in DOMAIN size : c > b => c >= new
        BY <1>1, <1>7, <3>1, <4>2
      <4>4. size'[x] >= heapSTRUCT_SIZE
        BY <1>1, <3>1, <3>3
      <4>5. QED
        BY <1>1, <1>7, <3>3, <4>1, <4>3, <4>4
    <3>4. CASE x # new /\ x # b
      <4>1. x \in DOMAIN size /\ size'[x] = size[x]
        BY <1>1, <3>4
      <4>2. /\ x \in Nat /\ size[x] \in Nat /\ x + size[x] \in DOMAIN size \cup {configTOTAL_HEAP_SIZE}
            /\ size[x] >= heapSTRUCT_SIZE
            /\ \A c \in DOMAIN size : c > x => c >= x + size[x]
        BY <4>1, BlockFacts
      <4>3. new > x => new >= x + size[x]
        <5>1. CASE x < b
          BY <1>1, <1>7, <4>2, <5>1
        <5>2. CASE x > b
          BY <1>1, <1>7, <3>1, <4>1, <4>2, <5>2
        <5>3. QED
          BY <1>7, <3>4, <4>2, <5>1, <5>2
      <4>4. QED
        BY <1>1, <4>1, <4>2, <4>3
    <3>5. QED
      BY <3>2, <3>3, <3>4
  <2>3. QED
    BY <2>1, <2>2 DEF Consecutive
<1>12. FreeList'
  <2>1. list \in Seq(DOMAIN size') /\ new \in DOMAIN size'
    BY <1>1, <1>5, SeqMonotonic
  <2>2. Sorted(list, size')
    <3>1. \A i \in DOMAIN list : list[i] \in ToSet(list)
      BY DEF ToSet
    <3>2. \A i \in DOMAIN list : list[i] \in DOMAIN size /\ list[i] # b
      BY <1>4, <1>5, <3>1
    <3>3. \A i \in DOMAIN list : size'[list[i]] = size[list[i]]
      BY <1>1, <3>2
    <3>4. QED
      BY <1>5, <3>3 DEF Sorted
  <2>3. new \notin ToSet(list)
    BY <1>1, <1>4, <1>5
  <2>4. /\ free' \in Seq(DOMAIN size') /\ ToSet(free') = ToSet(list) \cup {new} /\ Sorted(free', size')
        /\ NoDup(list) /\ new \notin ToSet(list) => NoDup(free')
    <3>1. free' = prvInsertBlockIntoFreeList(list, new, size')
      BY <1>3 DEF list, new, w, b
    <3>2. QED
      BY <1>9, <2>1, <2>2, <3>1, InsertBlock
  <2>5. ToSet(free') = DOMAIN size' \ DOMAIN used'
    <3>1. DOMAIN used \subseteq DOMAIN size
      BY DEF HeapInv, InUse
    <3>2. QED
      BY <1>1, <1>4, <1>5, <1>6, <2>4, <3>1
  <2>6. QED
    BY <1>5, <2>3, <2>4, <2>5 DEF FreeList
<1>13. InUse'
  <2>1. DOMAIN used \subseteq DOMAIN size
    BY DEF HeapInv, InUse
  <2>2. ASSUME NEW x \in DOMAIN used' PROVE used'[x] \in Requests \ {0} /\ size'[x] >= Wanted(used'[x])
    <3>1. CASE x = b
      <4>1. used'[x] = n /\ size'[x] = Wanted(n) /\ Wanted(n) \in Nat
        BY <1>1, <1>6, <3>1 DEF w
      <4>2. QED
        BY <1>1, <4>1
    <3>2. CASE x # b
      <4>1. x \in DOMAIN used /\ used'[x] = used[x] /\ size'[x] = size[x]
        BY <1>1, <1>6, <2>1, <3>2
      <4>2. used[x] \in Requests \ {0} /\ size[x] >= Wanted(used[x])
        BY <4>1 DEF HeapInv, InUse
      <4>3. QED
        BY <4>1, <4>2
    <3>3. QED
      BY <3>1, <3>2
  <2>3. QED
    BY <1>1, <1>6, <2>1, <2>2 DEF InUse
<1>14. QED
  BY <1>10, <1>11, <1>12, <1>13 DEF HeapInv

\* Every step keeps the invariant.
LEMMA StepHolds == HeapInv /\ [Next]_vars => HeapInv'
<1> SUFFICES ASSUME HeapInv, [Next]_vars PROVE HeapInv'
  OBVIOUS
<1>1. CASE UNCHANGED vars
  BY <1>1 DEF vars, HeapInv, Blocks, Consecutive, FreeList, InUse
<1>2. ASSUME NEW n \in Requests, pvPortMalloc(n) PROVE HeapInv'
  BY <1>2, ReturnNullStep, TakeWholeStep, SplitStep DEF pvPortMalloc
<1>3. ASSUME NEW b \in DOMAIN used, vPortFree(b) PROVE HeapInv'
  BY <1>3, FreeStep
<1>4. QED
  BY <1>1, <1>2, <1>3 DEF Next

\* The invariant always holds.
THEOREM Invariance == Spec => []HeapInv
<1>1. Init => HeapInv
  BY InitHolds
<1>2. HeapInv /\ [Next]_vars => HeapInv'
  BY StepHolds
<1>3. QED
  BY <1>1, <1>2, PTL DEF Spec

-----------------------------------------------------------------------------
(* What follows.                                                           *)

\* The blocks follow one another from the start of the heap to its end, and each
\* is in use or in the free list, once: however pvPortMalloc and vPortFree are
\* called, no byte of the heap is lost and none has two owners.
THEOREM HeapTiles == Spec => []Tiles
<1>1. HeapInv => Tiles
  <2> SUFFICES ASSUME HeapInv PROVE Tiles
    OBVIOUS
  <2>1. Cardinality(ToSet(free)) = Len(free)
    BY LengthOfSet DEF HeapInv, FreeList
  <2>2. QED
    BY <2>1 DEF HeapInv, Consecutive, FreeList, Tiles
<1>2. QED
  BY <1>1, Invariance, PTL

\* What BestFit says of one step.
FitStep ==
    /\ \A b \in DOMAIN used' \ DOMAIN used :
          b \in ToSet(free) /\ Suffices(b, used'[b])
          /\ \A c \in ToSet(free) : Suffices(c, used'[b]) => size[b] <= size[c]
    /\ refused' \notin {none, 0} /\ Wanted(refused') # configTOTAL_HEAP_SIZE =>
          \A c \in ToSet(free) : ~Suffices(c, refused')

\* A block that is taken for a request is the one the search ended at.
LEMMA TakeFits ==
  ASSUME HeapInv, NEW n \in Requests, CanServe(n), Take(free[FirstFit(n)], n)
  PROVE  FitStep
<1> DEFINE b == free[FirstFit(n)]
<1>1. /\ b \in ToSet(free) /\ b \notin DOMAIN used /\ Suffices(b, n)
      /\ \A c \in ToSet(free) : Suffices(c, n) => size[b] <= size[c]
  BY FirstFitFacts
<1>2. /\ used' = [x \in DOMAIN used \cup {b} |-> IF x = b THEN n ELSE used[x]]
      /\ refused' = none
  BY DEF Take
<1> HIDE DEF b
<1>3. DOMAIN used' \ DOMAIN used = {b} /\ used'[b] = n
  BY <1>1, <1>2
<1>4. QED
  BY <1>1, <1>2, <1>3 DEF FitStep

\* A request is refused only if no free block is large enough, or if it would
\* take more than there is.
LEMMA NullFits ==
  ASSUME HeapInv, NEW n \in Requests, ReturnNull(n)
  PROVE  FitStep
<1>1. ~CanServe(n) /\ refused' = n /\ used' = used
  BY DEF ReturnNull
<1>2. ASSUME n # 0, Wanted(n) # configTOTAL_HEAP_SIZE, NEW c \in ToSet(free), Suffices(c, n) PROVE FALSE
  <2>1. c \in DOMAIN size
    BY DEF HeapInv, FreeList
  <2>2. /\ c \in Nat /\ size[c] \in Nat /\ configTOTAL_HEAP_SIZE \in Nat
        /\ c + size[c] <= configTOTAL_HEAP_SIZE /\ heapSTRUCT_SIZE \in Nat \ {0}
    BY <2>1, BlockFacts
  <2>3. Wanted(n) \in Nat /\ Wanted(n) >= n + heapSTRUCT_SIZE /\ n \in Nat
    BY <1>2, WantedFacts, SizeFacts
  <2>4. size[c] >= Wanted(n)
    BY <1>2 DEF Suffices
  <2>5. Wanted(n) > 0 /\ Wanted(n) < configTOTAL_HEAP_SIZE
    BY <1>2, <2>2, <2>3, <2>4
  <2>6. \E i \in DOMAIN free : Suffices(free[i], n)
    BY <1>2 DEF ToSet
  <2>7. QED
    BY <1>1, <2>5, <2>6 DEF CanServe
<1>3. DOMAIN used' \ DOMAIN used = {}
  BY <1>1
<1>4. QED
  BY <1>1, <1>2, <1>3 DEF FitStep

\* A request takes the smallest free block that is large enough, which only the
\* order of the list ensures, and pvPortMalloc returns NULL only when there is
\* none: through every split and every free.
THEOREM TakesBestFit == Spec => BestFit
<1>1. HeapInv /\ [Next]_vars => [FitStep]_vars
  <2> SUFFICES ASSUME HeapInv, Next PROVE FitStep
    OBVIOUS
  <2>1. ASSUME NEW n \in Requests, pvPortMalloc(n) PROVE FitStep
    <3>1. CASE ReturnNull(n)
      BY <3>1, NullFits
    <3>2. CASE TakeWhole(n)
      BY <3>2, TakeFits DEF TakeWhole
    <3>3. CASE Split(n)
      BY <3>3, TakeFits DEF Split
    <3>4. QED
      BY <2>1, <3>1, <3>2, <3>3 DEF pvPortMalloc
  <2>2. ASSUME NEW b \in DOMAIN used, vPortFree(b) PROVE FitStep
    <3>1. DOMAIN used' \ DOMAIN used = {} /\ refused' = none
      BY <2>2 DEF vPortFree
    <3>2. QED
      BY <3>1 DEF FitStep
  <2>3. QED
    BY <2>1, <2>2 DEF Next
<1>2. []HeapInv /\ [][Next]_vars => [][FitStep]_vars
  BY <1>1, PTL
<1>3. QED
  BY <1>2, Invariance DEF Spec, BestFit, FitStep

-----------------------------------------------------------------------------
(* Heap2 implements Allocator.                                             *)

\* What the caller sees of the blocks in use: the memory behind the links.
PiecesOf(u) == [a \in {b + heapSTRUCT_SIZE : b \in DOMAIN u} |-> u[a - heapSTRUCT_SIZE]]
Pieces == PiecesOf(used)

\* A piece and its block.
LEMMA PieceFacts ==
  ASSUME NEW u, \A b \in DOMAIN u : b \in Nat
  PROVE  /\ DOMAIN PiecesOf(u) = {b + heapSTRUCT_SIZE : b \in DOMAIN u}
         /\ \A b \in DOMAIN u : PiecesOf(u)[b + heapSTRUCT_SIZE] = u[b]
         /\ PiecesOf(u) = [a \in DOMAIN PiecesOf(u) |-> PiecesOf(u)[a]]
<1>1. heapSTRUCT_SIZE \in Nat
  BY SizeFacts
<1> HIDE DEF heapSTRUCT_SIZE
<1>2. \A b \in DOMAIN u : (b + heapSTRUCT_SIZE) - heapSTRUCT_SIZE = b
  BY <1>1
<1>3. QED
  BY <1>2 DEF PiecesOf

\* A block that is taken gives the caller a piece of memory that lies in the
\* heap, aligned, and apart from the others: the link in front of it and the
\* rounding leave it room.
LEMMA TakeIsMalloc ==
  ASSUME HeapInv, NEW n \in Requests, CanServe(n), Take(free[FirstFit(n)], n)
  PROVE  Memory!Malloc
<1> DEFINE b == free[FirstFit(n)]
           h == heapSTRUCT_SIZE
           a == b + h
<1>1. /\ b \in DOMAIN size /\ b \notin DOMAIN used /\ size[b] >= Wanted(n) /\ n # 0
      /\ Wanted(n) \in Nat /\ Wanted(n) >= n + h
  BY FirstFitFacts DEF Suffices
<1>2. used' = [x \in DOMAIN used \cup {b} |-> IF x = b THEN n ELSE used[x]]
  BY DEF Take
<1> HIDE DEF b
<1>3. n \in Nat /\ portBYTE_ALIGNMENT \in Nat \ {0} /\ h % portBYTE_ALIGNMENT = 0
  BY SizeFacts
<1>4. /\ b \in Nat /\ size[b] \in Nat /\ configTOTAL_HEAP_SIZE \in Nat /\ h \in Nat
      /\ b + size[b] <= configTOTAL_HEAP_SIZE
      /\ \A c \in DOMAIN size : c > b => c >= b + size[b]
      /\ b % portBYTE_ALIGNMENT = 0
  BY <1>1, BlockFacts
<1> HIDE DEF h
<1>5. a \in 0..configTOTAL_HEAP_SIZE-1 /\ a + n <= configTOTAL_HEAP_SIZE /\ a + n <= b + size[b]
  BY <1>1, <1>3, <1>4
<1>6. a % portBYTE_ALIGNMENT = 0
  BY <1>3, <1>4, ModAdd
<1>7. /\ DOMAIN Pieces = {x + h : x \in DOMAIN used}
      /\ \A x \in DOMAIN used : Pieces[x + h] = used[x]
      /\ \A x \in DOMAIN used : x \in Nat
  <2>1. \A x \in DOMAIN used : x \in Nat
    BY BlockFacts DEF HeapInv, InUse
  <2>2. QED
    BY <2>1, PieceFacts DEF h, Pieces
<1>8. ASSUME NEW y \in DOMAIN Pieces PROVE y + Pieces[y] <= a \/ a + n <= y
  <2>1. PICK x \in DOMAIN used : y = x + h
    BY <1>7
  <2>2. /\ x \in DOMAIN size /\ used[x] \in Requests \ {0} /\ size[x] >= Wanted(used[x])
        /\ Pieces[y] = used[x]
    BY <1>7, <2>1 DEF HeapInv, InUse
  <2>3. used[x] \in Nat /\ Wanted(used[x]) \in Nat /\ Wanted(used[x]) >= used[x] + h
    BY <2>2, WantedFacts, SizeFacts DEF h
  <2>4. x \in Nat /\ size[x] \in Nat /\ \A c \in DOMAIN size : c > x => c >= x + size[x]
    BY <2>2, BlockFacts
  <2>5. CASE x < b
    <3>1. b >= x + size[x]
      BY <1>1, <2>4, <2>5
    <3>2. QED
      BY <1>4, <2>1, <2>2, <2>3, <2>4, <3>1
  <2>6. CASE x > b
    <3>1. x >= b + size[b]
      BY <1>4, <2>2, <2>6
    <3>2. QED
      BY <1>3, <1>4, <1>5, <2>1, <2>4, <3>1
  <2>7. QED
    BY <1>1, <1>4, <2>1, <2>4, <2>5, <2>6
<1>9. Pieces' = [y \in DOMAIN Pieces \cup {a} |-> IF y = a THEN n ELSE Pieces[y]]
  <2>1. DOMAIN used' = DOMAIN used \cup {b} /\ used'[b] = n /\ \A x \in DOMAIN used : used'[x] = used[x]
    BY <1>1, <1>2
  <2>2. /\ DOMAIN Pieces' = {x + h : x \in DOMAIN used'}
        /\ \A x \in DOMAIN used' : Pieces'[x + h] = used'[x]
        /\ Pieces' = [y \in DOMAIN Pieces' |-> Pieces'[y]]
    <3>1. \A x \in DOMAIN used' : x \in Nat
      BY <1>4, <1>7, <2>1
    <3>2. QED
      BY <3>1, PieceFacts DEF h, Pieces
  <2>3. \A x \in DOMAIN used : x # b
    BY <1>1
  <2>4. DOMAIN Pieces' = DOMAIN Pieces \cup {a}
    BY <1>7, <2>1, <2>2
  <2>5. ASSUME NEW y \in DOMAIN Pieces' PROVE Pieces'[y] = IF y = a THEN n ELSE Pieces[y]
    <3>1. CASE y = a
      BY <2>1, <2>2, <3>1
    <3>2. CASE y # a
      <4>1. PICK x \in DOMAIN used : y = x + h
        BY <1>7, <2>4, <3>2
      <4>2. QED
        BY <1>7, <2>1, <2>2, <3>2, <4>1
    <3>3. QED
      BY <3>1, <3>2
  <2>6. QED
    BY <2>2, <2>4, <2>5
<1> HIDE DEF a
<1>10. a \in Memory!Address /\ n \in Requests \ {0}
  BY <1>1, <1>5, <1>6 DEF Memory!Address
<1>11. QED
  BY <1>5, <1>8, <1>9, <1>10 DEF Memory!Malloc, Pieces, PiecesOf

\* A block that is freed takes its piece away and no other.
LEMMA FreeIsFree ==
  ASSUME HeapInv, NEW b \in DOMAIN used, vPortFree(b)
  PROVE  Memory!Free
<1> DEFINE h == heapSTRUCT_SIZE
           a == b + h
<1>1. used' = [x \in DOMAIN used \ {b} |-> used[x]]
  BY DEF vPortFree
<1>2. /\ DOMAIN Pieces = {x + h : x \in DOMAIN used}
      /\ \A x \in DOMAIN used : Pieces[x + h] = used[x]
      /\ \A x \in DOMAIN used : x \in Nat
  <2>1. \A x \in DOMAIN used : x \in Nat
    BY BlockFacts DEF HeapInv, InUse
  <2>2. QED
    BY <2>1, PieceFacts DEF Pieces
<1>3. DOMAIN used' = DOMAIN used \ {b} /\ \A x \in DOMAIN used' : used'[x] = used[x]
  BY <1>1
<1>4. /\ DOMAIN Pieces' = {x + h : x \in DOMAIN used'}
      /\ \A x \in DOMAIN used' : Pieces'[x + h] = used'[x]
      /\ Pieces' = [y \in DOMAIN Pieces' |-> Pieces'[y]]
  <2>1. \A x \in DOMAIN used' : x \in Nat
    BY <1>2, <1>3
  <2>2. QED
    BY <2>1, PieceFacts DEF Pieces
<1>5. h \in Nat
  BY SizeFacts
<1> HIDE DEF h
<1>6. DOMAIN Pieces' = DOMAIN Pieces \ {a}
  <2>1. \A x \in DOMAIN used : x + h = b + h => x = b
    BY <1>2, <1>5
  <2>2. QED
    BY <1>2, <1>3, <1>4, <2>1
<1>7. ASSUME NEW y \in DOMAIN Pieces' PROVE Pieces'[y] = Pieces[y]
  BY <1>2, <1>3, <1>4
<1>8. Pieces' = [y \in DOMAIN Pieces \ {a} |-> Pieces[y]]
  BY <1>4, <1>6, <1>7
<1>9. a \in DOMAIN Pieces
  BY <1>2
<1> HIDE DEF a
<1>10. QED
  BY <1>8, <1>9 DEF Memory!Free, Pieces, PiecesOf

\* What pvPortMalloc hands out is what the caller may rely on: as large as asked
\* for, aligned, inside the heap and apart from all other pieces in use; a split
\* or a whole block is one step of Allocator, and NULL is none.
THEOREM Implements == Spec => ImplementsAllocator
<1>1. Init => Memory!Init
  <2> SUFFICES ASSUME Init PROVE Pieces = [a \in {} |-> 0]
    BY DEF Memory!Init, Pieces, PiecesOf
  <2>1. DOMAIN used = {}
    BY DEF Init
  <2>2. QED
    BY <2>1 DEF Pieces, PiecesOf
<1>2. HeapInv /\ [Next]_vars => [Memory!Malloc \/ Memory!Free]_Pieces
  <2> SUFFICES ASSUME HeapInv, [Next]_vars
               PROVE  Memory!Malloc \/ Memory!Free \/ Pieces' = Pieces
    OBVIOUS
  <2>1. ASSUME used' = used PROVE Pieces' = Pieces
    BY <2>1 DEF Pieces
  <2>2. CASE UNCHANGED vars
    BY <2>1, <2>2 DEF vars
  <2>3. ASSUME NEW n \in Requests, pvPortMalloc(n) PROVE Memory!Malloc \/ Pieces' = Pieces
    <3>1. CASE ReturnNull(n)
      BY <2>1, <3>1 DEF ReturnNull
    <3>2. CASE TakeWhole(n)
      BY <3>2, TakeIsMalloc DEF TakeWhole
    <3>3. CASE Split(n)
      BY <3>3, TakeIsMalloc DEF Split
    <3>4. QED
      BY <2>3, <3>1, <3>2, <3>3 DEF pvPortMalloc
  <2>4. ASSUME NEW b \in DOMAIN used, vPortFree(b) PROVE Memory!Free
    BY <2>4, FreeIsFree
  <2>5. QED
    BY <2>2, <2>3, <2>4 DEF Next
<1>3. QED
  BY <1>1, <1>2, Invariance, PTL DEF Spec, ImplementsAllocator, Memory!Spec, Pieces, PiecesOf
=============================================================================
