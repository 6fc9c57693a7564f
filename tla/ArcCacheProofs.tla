--------------------------- MODULE ArcCacheProofs ---------------------------
(***************************************************************************)
(* What holds of the cache of map data for any pieces, sizes and readers:  *)
(* its lists and its hash agree, data that readers have stays in memory,   *)
(* the byte counts are those of the entries, the room meant for t1 stays   *)
(* within bounds, and the cache implements PinnedStore. With pieces of one *)
(* size and few readers, also how much memory is in use.                   *)
(*                                                                         *)
(* A call of cache.c takes an entry out of a list and later puts it into   *)
(* another or frees it. Sound(c, out) says what is true of the cache in    *)
(* between: out are the entries that are in the hash and in no list. Each  *)
(* function of cache.c has a lemma that says what it makes of a sound      *)
(* cache.                                                                  *)
(***************************************************************************)
EXTENDS ArcCache, Counting, SequenceTheorems

Injective(s) == \A i, j \in DOMAIN s : s[i] = s[j] => i = j

Shape == [list : [List -> Seq(Id)], size : [List -> Int],
          entry : [Id -> Entry], hash : SUBSET Id, t1_target : Int]

ListSound(c, out, l) ==
    /\ Injective(c.list[l])
    /\ Members(c.list[l]) \subseteq c.hash \ out
    /\ \A id \in Members(c.list[l]) : c.entry[id].where = l

\* The size of a list is what its entries have, with or without data.
SizeSound(c, l) ==
    /\ c.size[l] = SumFunctionOnSet(Bytes(l), Members(c.list[l]))
    /\ \A id \in Members(c.list[l]) : c.entry[id].size = Bytes(l)[id]

\* Ghosts have no readers.
GhostsSound(c, l) == \A id \in Members(c.list[l]) : c.entry[id].usage = 0

Sound(c, out) ==
    /\ c \in Shape
    /\ out \subseteq c.hash
    /\ \A l \in List : ListSound(c, out, l) /\ SizeSound(c, l)
    /\ \A id \in c.hash \ out :
          c.entry[id].where \in List /\ id \in Members(c.list[c.entry[id].where])
    /\ \A id \in Id \ c.hash : c.entry[id] = NoEntry
    /\ \A l \in GhostList : GhostsSound(c, l)

\* The pieces whose data is in memory.
Res(c) == Members(c.list["t1"]) \union Members(c.list["t2"])

SameUsage(c, d) == \A id \in Id : d.entry[id].usage = c.entry[id].usage

\* From c to d, at most one piece without readers left the memory.
EvictsOne(c, d) ==
    /\ SameUsage(c, d)
    /\ \E o \in {{}} \union {{id} : id \in {r \in Res(c) : c.entry[r].usage = 0}} :
          Res(d) = Res(c) \ o

-----------------------------------------------------------------------------
(* Sequences *)

\* The parts of a sequence before and behind the element at i.
LEMMA CutParts ==
    ASSUME NEW S, NEW s \in Seq(S), NEW i \in 1 .. Len(s)
    PROVE  LET a == SubSeq(s, 1, i - 1)
               b == SubSeq(s, i + 1, Len(s))
           IN  /\ a \in Seq(S) /\ Len(a) = i - 1
               /\ \A j \in 1 .. i - 1 : a[j] = s[j]
               /\ b \in Seq(S) /\ Len(b) = Len(s) - i
               /\ \A j \in 1 .. Len(s) - i : b[j] = s[i + j]
<1> DEFINE n == Len(s)
           m == i + 1
           a == SubSeq(s, 1, i - 1)
           b == SubSeq(s, m, n)
<1>1. n \in Nat /\ \A j \in 1 .. n : s[j] \in S
  BY LenProperties, ElementOfSeq
<1>2. i \in Int /\ m \in Int /\ i - 1 \in Int /\ i \in 1 .. n /\ m = i + 1
  BY <1>1
<1> HIDE DEF n, m
<1>3. a \in Seq(S) /\ Len(a) = i - 1 /\ \A j \in 1 .. i - 1 : a[j] = s[j]
  <2>1. \A j \in 1 .. i - 1 : s[j] \in S
    BY <1>1, <1>2
  <2>2. /\ a \in Seq(S) /\ Len(a) = IF 1 <= i - 1 THEN (i - 1) - 1 + 1 ELSE 0
        /\ \A j \in 1 .. (i - 1) - 1 + 1 : a[j] = s[1 + j - 1]
    BY <1>2, <2>1, SubSeqProperties
  <2>3. (i - 1) - 1 + 1 = i - 1 /\ \A j \in 1 .. i - 1 : 1 + j - 1 = j
    BY <1>2
  <2> HIDE DEF a
  <2> QED BY <1>2, <2>2, <2>3
<1>4. b \in Seq(S) /\ Len(b) = n - i /\ \A j \in 1 .. n - i : b[j] = s[i + j]
  <2>1. \A j \in m .. n : s[j] \in S
    BY <1>1, <1>2
  <2>2. /\ b \in Seq(S) /\ Len(b) = IF m <= n THEN n - m + 1 ELSE 0
        /\ \A j \in 1 .. n - m + 1 : b[j] = s[m + j - 1]
    BY <1>1, <1>2, <2>1, SubSeqProperties
  <2>3. n - m + 1 = n - i /\ \A j \in 1 .. n - i : m + j - 1 = i + j
    BY <1>1, <1>2
  <2>4. (IF m <= n THEN n - m + 1 ELSE 0) = n - i
    BY <1>1, <1>2
  <2> HIDE DEF b
  <2> QED BY <2>2, <2>3, <2>4
<1> QED BY <1>3, <1>4 DEF n, m

\* The sequence r has the n elements of s but the one at i, in an order that f
\* gives.
Reorders(r, s, n, i, f) ==
    /\ n \in Nat /\ i \in 1 .. n
    /\ DOMAIN s = 1 .. n /\ Injective(s)
    /\ DOMAIN r = 1 .. n - 1
    /\ f \in [1 .. n - 1 -> (1 .. n) \ {i}]
    /\ \A j, k \in 1 .. n - 1 : f[j] = f[k] => j = k
    /\ \A k \in (1 .. n) \ {i} : \E j \in 1 .. n - 1 : f[j] = k
    /\ \A j \in 1 .. n - 1 : r[j] = s[f[j]]

LEMMA ReordersProperties ==
    ASSUME NEW r, NEW s, NEW n, NEW i, NEW f, Reorders(r, s, n, i, f)
    PROVE  Injective(r) /\ Members(r) = Members(s) \ {s[i]}
<1> USE DEF Reorders
<1>1. Injective(r)
  BY DEF Injective
<1>2. ASSUME NEW j \in 1 .. n - 1 PROVE r[j] \in Members(s) \ {s[i]}
  <2>1. f[j] \in 1 .. n /\ f[j] # i /\ r[j] = s[f[j]]
    OBVIOUS
  <2>2. s[f[j]] # s[i]
    BY <2>1 DEF Injective
  <2> QED BY <2>1, <2>2 DEF Members
<1>3. ASSUME NEW k \in (1 .. n) \ {i} PROVE s[k] \in Members(r)
  <2>1. PICK j \in 1 .. n - 1 : f[j] = k
    OBVIOUS
  <2>2. r[j] = s[k]
    BY <2>1
  <2> QED BY <2>2 DEF Members
<1>4. Members(s) \ {s[i]} \subseteq Members(r)
  <2> SUFFICES ASSUME NEW x \in Members(s), x # s[i] PROVE x \in Members(r)
    OBVIOUS
  <2>1. PICK k \in 1 .. n : x = s[k]
    BY DEF Members
  <2>2. k \in (1 .. n) \ {i}
    BY <2>1
  <2> QED BY <1>3, <2>1, <2>2
<1>5. Members(r) \subseteq Members(s) \ {s[i]}
  BY <1>2 DEF Members
<1> QED BY <1>1, <1>4, <1>5

\* Taking the element at i out of a sequence without repetitions leaves the
\* other elements, ...
LEMMA CutProperties ==
    ASSUME NEW S, NEW s \in Seq(S), Injective(s), NEW i \in 1 .. Len(s)
    PROVE  LET r == SubSeq(s, 1, i - 1) \o SubSeq(s, i + 1, Len(s)) IN
           /\ r \in Seq(S) /\ Len(r) = Len(s) - 1
           /\ Injective(r) /\ Members(r) = Members(s) \ {s[i]}
<1> DEFINE n == Len(s)
           a == SubSeq(s, 1, i - 1)
           b == SubSeq(s, i + 1, n)
           r == a \o b
           f == [j \in 1 .. n - 1 |-> IF j <= i - 1 THEN j ELSE j + 1]
<1>1. n \in Nat /\ DOMAIN s = 1 .. n /\ \A j \in 1 .. n : s[j] \in S
  BY LenProperties, ElementOfSeq
<1>2. /\ a \in Seq(S) /\ Len(a) = i - 1 /\ \A j \in 1 .. i - 1 : a[j] = s[j]
      /\ b \in Seq(S) /\ Len(b) = n - i /\ \A j \in 1 .. n - i : b[j] = s[i + j]
  BY CutParts, Zenon
<1> HIDE DEF n, a, b
<1>3. /\ r \in Seq(S) /\ Len(r) = Len(a) + Len(b)
      /\ \A j \in 1 .. Len(a) + Len(b) : r[j] = IF j <= Len(a) THEN a[j] ELSE b[j - Len(a)]
  BY <1>2, ConcatProperties
<1>4. Len(r) = n - 1 /\ DOMAIN r = 1 .. n - 1
  <2>1. i \in 1 .. n
    BY DEF n
  <2>2. Len(r) = n - 1
    BY <1>1, <1>2, <1>3, <2>1
  <2>3. DOMAIN r = 1 .. Len(r)
    BY <1>3, LenProperties
  <2> QED BY <2>2, <2>3
<1> HIDE DEF r
<1>5. ASSUME NEW j \in 1 .. n - 1 PROVE r[j] = s[f[j]]
  <2>1. j \in 1 .. Len(a) + Len(b)
    BY <1>1, <1>2 DEF n
  <2>2. CASE j <= i - 1
    BY <1>1, <1>2, <1>3, <2>1, <2>2 DEF n
  <2>3. CASE j > i - 1
    <3>1. r[j] = b[j - (i - 1)]
      BY <1>1, <1>2, <1>3, <2>1, <2>3 DEF n
    <3>2. j - (i - 1) \in 1 .. n - i /\ i + (j - (i - 1)) = j + 1
      BY <1>1, <2>3 DEF n
    <3>3. b[j - (i - 1)] = s[i + (j - (i - 1))]
      BY <1>2, <3>2
    <3> QED BY <2>3, <3>1, <3>2, <3>3, <1>1
  <2> QED BY <1>1, <2>2, <2>3 DEF n
<1>6. /\ f \in [1 .. n - 1 -> (1 .. n) \ {i}]
      /\ \A j, k \in 1 .. n - 1 : f[j] = f[k] => j = k
  BY <1>1 DEF n
<1>7. ASSUME NEW k \in (1 .. n) \ {i} PROVE \E j \in 1 .. n - 1 : f[j] = k
  <2>1. CASE k < i
    <3>1. k \in 1 .. n - 1 /\ f[k] = k
      BY <1>1, <2>1 DEF n
    <3> QED BY <3>1
  <2>2. CASE k > i
    <3>1. k - 1 \in 1 .. n - 1 /\ f[k - 1] = k
      BY <1>1, <2>2 DEF n
    <3> QED BY <3>1
  <2> QED BY <1>1, <2>1, <2>2 DEF n
<1> HIDE DEF f
<1>8. n \in Nat /\ i \in 1 .. n
  BY <1>1 DEF n
<1>9. Reorders(r, s, n, i, f)
  BY <1>1, <1>4, <1>5, <1>6, <1>7, <1>8 DEF Reorders
<1>10. Injective(r) /\ Members(r) = Members(s) \ {s[i]}
  BY <1>9, ReordersProperties
<1> QED BY <1>3, <1>4, <1>10 DEF r, a, b, n

\* ... also if what stood behind it is put in front.
LEMMA TurnProperties ==
    ASSUME NEW S, NEW s \in Seq(S), Injective(s), NEW i \in 1 .. Len(s)
    PROVE  LET r == SubSeq(s, i + 1, Len(s)) \o SubSeq(s, 1, i - 1) IN
           /\ r \in Seq(S) /\ Len(r) = Len(s) - 1
           /\ Injective(r) /\ Members(r) = Members(s) \ {s[i]}
<1> DEFINE n == Len(s)
           a == SubSeq(s, 1, i - 1)
           b == SubSeq(s, i + 1, n)
           r == b \o a
           f == [j \in 1 .. n - 1 |-> IF j <= n - i THEN i + j ELSE j - (n - i)]
<1>1. n \in Nat /\ DOMAIN s = 1 .. n /\ \A j \in 1 .. n : s[j] \in S
  BY LenProperties, ElementOfSeq
<1>2. /\ a \in Seq(S) /\ Len(a) = i - 1 /\ \A j \in 1 .. i - 1 : a[j] = s[j]
      /\ b \in Seq(S) /\ Len(b) = n - i /\ \A j \in 1 .. n - i : b[j] = s[i + j]
  BY CutParts, Zenon
<1> HIDE DEF n, a, b
<1>3. /\ r \in Seq(S) /\ Len(r) = Len(b) + Len(a)
      /\ \A j \in 1 .. Len(b) + Len(a) : r[j] = IF j <= Len(b) THEN b[j] ELSE a[j - Len(b)]
  BY <1>2, ConcatProperties
<1>4. Len(r) = n - 1 /\ DOMAIN r = 1 .. n - 1
  <2>1. i \in 1 .. n
    BY DEF n
  <2>2. Len(r) = n - 1
    BY <1>1, <1>2, <1>3, <2>1
  <2>3. DOMAIN r = 1 .. Len(r)
    BY <1>3, LenProperties
  <2> QED BY <2>2, <2>3
<1> HIDE DEF r
<1>5. ASSUME NEW j \in 1 .. n - 1 PROVE r[j] = s[f[j]]
  <2>1. j \in 1 .. Len(b) + Len(a)
    BY <1>1, <1>2 DEF n
  <2>2. CASE j <= n - i
    BY <1>1, <1>2, <1>3, <2>1, <2>2 DEF n
  <2>3. CASE j > n - i
    <3>1. r[j] = a[j - (n - i)]
      BY <1>1, <1>2, <1>3, <2>1, <2>3 DEF n
    <3>2. j - (n - i) \in 1 .. i - 1
      BY <1>1, <2>3 DEF n
    <3>3. a[j - (n - i)] = s[j - (n - i)]
      BY <1>2, <3>2
    <3> QED BY <2>3, <3>1, <3>3, <1>1
  <2> QED BY <1>1, <2>2, <2>3 DEF n
<1>6. /\ f \in [1 .. n - 1 -> (1 .. n) \ {i}]
      /\ \A j, k \in 1 .. n - 1 : f[j] = f[k] => j = k
  BY <1>1 DEF n
<1>7. ASSUME NEW k \in (1 .. n) \ {i} PROVE \E j \in 1 .. n - 1 : f[j] = k
  <2>1. CASE k < i
    <3>1. k + (n - i) \in 1 .. n - 1 /\ f[k + (n - i)] = k
      BY <1>1, <2>1 DEF n
    <3> QED BY <3>1
  <2>2. CASE k > i
    <3>1. k - i \in 1 .. n - 1 /\ f[k - i] = k
      BY <1>1, <2>2 DEF n
    <3> QED BY <3>1
  <2> QED BY <1>1, <2>1, <2>2 DEF n
<1> HIDE DEF f
<1>8. n \in Nat /\ i \in 1 .. n
  BY <1>1 DEF n
<1>9. Reorders(r, s, n, i, f)
  BY <1>1, <1>4, <1>5, <1>6, <1>7, <1>8 DEF Reorders
<1>10. Injective(r) /\ Members(r) = Members(s) \ {s[i]}
  BY <1>9, ReordersProperties
<1> QED BY <1>3, <1>4, <1>10 DEF r, a, b, n

\* An element in front of a sequence that does not have it.
LEMMA ConsProperties ==
    ASSUME NEW S, NEW s \in Seq(S), NEW e \in S, Injective(s), e \notin Members(s)
    PROVE  LET r == <<e>> \o s IN
           /\ r \in Seq(S) /\ Len(r) = Len(s) + 1
           /\ Injective(r) /\ Members(r) = {e} \union Members(s)
<1> DEFINE n == Len(s)
           r == <<e>> \o s
<1>1. n \in Nat /\ DOMAIN s = 1 .. n
  BY LenProperties
<1>2. <<e>> \in Seq(S) /\ Len(<<e>>) = 1 /\ <<e>>[1] = e
  OBVIOUS
<1>3. /\ r \in Seq(S) /\ Len(r) = Len(<<e>>) + Len(s)
      /\ \A j \in 1 .. Len(<<e>>) + Len(s) : r[j] = IF j <= Len(<<e>>) THEN <<e>>[j] ELSE s[j - Len(<<e>>)]
  BY <1>2, ConcatProperties
<1> HIDE DEF r
<1>4. Len(r) = n + 1 /\ DOMAIN r = 1 .. n + 1
  BY <1>1, <1>2, <1>3, LenProperties
<1>5. /\ r[1] = e
      /\ \A j \in 2 .. n + 1 : r[j] = s[j - 1]
  BY <1>1, <1>2, <1>3
<1> HIDE DEF n
<1>6. Injective(r)
  <2> SUFFICES ASSUME NEW j \in 1 .. n + 1, NEW k \in 1 .. n + 1, r[j] = r[k], j # k
               PROVE  FALSE
    BY <1>4 DEF Injective
  <2>1. \A l \in 2 .. n + 1 : l - 1 \in 1 .. n /\ r[l] = s[l - 1] /\ r[l] # e
    <3> TAKE l \in 2 .. n + 1
    <3>1. l - 1 \in 1 .. n
      BY <1>1
    <3> QED BY <1>1, <1>5, <3>1 DEF Members
  <2>2. j \in 2 .. n + 1 /\ k \in 2 .. n + 1
    BY <1>1, <1>5, <2>1
  <2>3. s[j - 1] = s[k - 1] /\ j - 1 \in 1 .. n /\ k - 1 \in 1 .. n
    BY <2>1, <2>2
  <2>4. j - 1 = k - 1
    BY <1>1, <2>3 DEF Injective
  <2> QED BY <1>1, <2>4
<1>7. Members(r) \subseteq {e} \union Members(s)
  <2>1. ASSUME NEW j \in 1 .. n + 1 PROVE r[j] \in {e} \union Members(s)
    <3>1. CASE j = 1
      BY <1>5, <3>1
    <3>2. CASE j # 1
      <4>1. j \in 2 .. n + 1 /\ j - 1 \in 1 .. n
        BY <1>1, <3>2
      <4> QED BY <1>1, <1>5, <4>1 DEF Members
    <3> QED BY <3>1, <3>2
  <2> QED BY <1>4, <2>1 DEF Members
<1>8. e \in Members(r)
  <2>1. 1 \in DOMAIN r
    BY <1>1, <1>4
  <2> QED BY <1>5, <2>1 DEF Members
<1>9. ASSUME NEW j \in DOMAIN s PROVE s[j] \in Members(r)
  <2>1. j + 1 \in 2 .. n + 1 /\ (j + 1) - 1 = j
    BY <1>1
  <2>2. r[j + 1] = s[j] /\ j + 1 \in DOMAIN r
    BY <1>1, <1>4, <1>5, <2>1
  <2> QED BY <2>2 DEF Members
<1>10. Members(r) = {e} \union Members(s)
  BY <1>7, <1>8, <1>9 DEF Members
<1> QED BY <1>3, <1>4, <1>6, <1>10 DEF r, n
\* A set of positions that is not empty has a last one.
LEMMA LastPosition ==
    ASSUME NEW n \in Nat, NEW T, T \subseteq 1 .. n, T # {}
    PROVE  \E i \in T : \A j \in T : j <= i
<1> DEFINE R == {p \in Nat \X Nat : p[1] < p[2]}
           D == {n - i : i \in T}
<1>1. IsWellFoundedOn(R, Nat)
  BY NatLessThanWellFounded DEF OpToRel
<1>2. D \subseteq Nat /\ D # {}
  <2>1. \A i \in T : n - i \in Nat
    OBVIOUS
  <2> QED BY <2>1
<1> HIDE DEF D
<1>3. PICK d \in D : \A e \in D : <<e, d>> \notin R
  <2> HIDE DEF R
  <2> QED BY <1>1, <1>2, WFMin
<1>4. PICK i \in T : d = n - i
  BY DEF D
<1>5. ASSUME NEW j \in T PROVE j <= i
  <2>1. n - j \in D /\ n - j \in Nat /\ d \in Nat
    BY <1>2, <1>4 DEF D
  <2>2. ~(n - j < d)
    BY <1>3, <2>1
  <2> QED BY <1>4, <2>2
<1> QED BY <1>5

-----------------------------------------------------------------------------
(* The functions of cache.c *)

\* A sound cache has the fields that its type says.
LEMMA SoundFields ==
    ASSUME NEW c, NEW out, Sound(c, out)
    PROVE  /\ \A l \in List : c.list[l] \in Seq(Id) /\ c.size[l] \in Int
           /\ \A id \in Id : /\ c.entry[id] \in Entry
                            /\ c.entry[id].usage \in Nat /\ c.entry[id].size \in Nat
                            /\ c.entry[id].where \in List \union {"none"}
           /\ c.hash \subseteq Id /\ c.t1_target \in Int
           /\ \A l \in List : Members(c.list[l]) \subseteq Id
<1>1. c \in Shape
  BY DEF Sound
<1>2. \A l \in List : c.list[l] \in Seq(Id) /\ c.size[l] \in Int
  BY <1>1 DEF Shape
<1>3. c.entry \in [Id -> Entry] /\ c.hash \subseteq Id /\ c.t1_target \in Int
  BY <1>1 DEF Shape
<1>4. \A id \in Id : /\ c.entry[id] \in Entry
                    /\ c.entry[id].usage \in Nat /\ c.entry[id].size \in Nat
                    /\ c.entry[id].where \in List \union {"none"}
  BY <1>3 DEF Entry
<1>5. \A l \in List : Members(c.list[l]) \subseteq Id
  BY <1>3 DEF Sound, ListSound
<1> QED BY <1>2, <1>3, <1>4, <1>5

\* What an entry has in bytes, and what a set of them has.
LEMMA BytesType ==
    /\ \A l \in List, id \in Id : Bytes(l)[id] \in Nat \ {0}
    /\ \A l \in List, s \in SUBSET Id :
          IsFiniteSet(s) /\ SumFunctionOnSet(Bytes(l), s) \in Int
<1>1. \A l \in List, id \in Id : Bytes(l)[id] \in Nat \ {0}
  <2> SUFFICES ASSUME NEW l \in List, NEW id \in Id PROVE Bytes(l)[id] \in Nat \ {0}
    OBVIOUS
  <2>1. DataSize[id] \in Nat \ {0} /\ EntrySize \in Nat \ {0}
    BY SizesAssumption
  <2> QED BY <2>1 DEF Bytes
<1>2. ASSUME NEW l \in List, NEW s \in SUBSET Id
      PROVE  IsFiniteSet(s) /\ SumFunctionOnSet(Bytes(l), s) \in Int
  <2>1. IsFiniteSet(s)
    BY SizesAssumption, FS_Subset
  <2>2. \A id \in s : Bytes(l)[id] \in Int
    BY <1>1
  <2> QED BY <2>1, <2>2, SumTake
<1> QED BY <1>1, <1>2

\* The entry at i leaves its list, by a cut at its place or by turning the list
\* to it ...
Cut(c, l, i, d) ==
    \E r : /\ \/ r = SubSeq(c.list[l], 1, i - 1) \o SubSeq(c.list[l], i + 1, Len(c.list[l]))
              \/ r = SubSeq(c.list[l], i + 1, Len(c.list[l])) \o SubSeq(c.list[l], 1, i - 1)
           /\ d = [c EXCEPT !.list[l] = r, !.size[l] = @ - c.entry[c.list[l][i]].size]

\* ... and what remains is sound, but for the entry.
Without(c, out, l, id, d) ==
    /\ id \in c.hash \ out /\ id \in Members(c.list[l])
    /\ Sound(d, out \union {id})
    /\ Members(d.list[l]) = Members(c.list[l]) \ {id}
    /\ \A k \in List \ {l} : d.list[k] = c.list[k]
    /\ d.entry = c.entry /\ d.hash = c.hash /\ d.t1_target = c.t1_target

LEMMA TakenOut ==
    ASSUME NEW c, NEW out, Sound(c, out), NEW l \in List, NEW i \in DOMAIN c.list[l],
           NEW d, Cut(c, l, i, d)
    PROVE  Without(c, out, l, c.list[l][i], d)
<1>0. PICK r :
         /\ \/ r = SubSeq(c.list[l], 1, i - 1) \o SubSeq(c.list[l], i + 1, Len(c.list[l]))
            \/ r = SubSeq(c.list[l], i + 1, Len(c.list[l])) \o SubSeq(c.list[l], 1, i - 1)
         /\ d = [c EXCEPT !.list[l] = r, !.size[l] = @ - c.entry[c.list[l][i]].size]
  BY DEF Cut
<1> DEFINE s == c.list[l]
           id == s[i]
<1>1. /\ s \in Seq(Id) /\ Injective(s) /\ DOMAIN s = 1 .. Len(s) /\ i \in 1 .. Len(s)
      /\ Members(s) \subseteq c.hash \ out /\ Len(s) \in Nat
  <2>1. s \in Seq(Id)
    BY SoundFields
  <2>2. Len(s) \in Nat /\ DOMAIN s = 1 .. Len(s)
    BY <2>1, LenProperties
  <2>3. ListSound(c, out, l)
    BY DEF Sound
  <2>4. Injective(s) /\ Members(s) \subseteq c.hash \ out
    BY <2>3 DEF ListSound
  <2> QED BY <2>1, <2>2, <2>4
<1>2. id \in Members(s) /\ id \in Id /\ c.entry[id].where = l /\ c.entry[id].size \in Nat
  <2>1. id \in Members(s)
    BY DEF Members
  <2>2. ListSound(c, out, l) /\ Members(s) \subseteq Id
    BY SoundFields DEF Sound
  <2>3. c.entry[id].where = l
    BY <2>1, <2>2 DEF ListSound
  <2> QED BY <2>1, <2>2, <2>3, SoundFields
<1>3. /\ r \in Seq(Id) /\ Len(r) = Len(s) - 1
      /\ Injective(r) /\ Members(r) = Members(s) \ {id}
  <2>1. CASE r = SubSeq(s, 1, i - 1) \o SubSeq(s, i + 1, Len(s))
    <3> HIDE DEF s
    <3> QED BY <1>1, <2>1, CutProperties
  <2>2. CASE r = SubSeq(s, i + 1, Len(s)) \o SubSeq(s, 1, i - 1)
    <3> HIDE DEF s
    <3> QED BY <1>1, <2>2, TurnProperties
  <2> QED BY <1>0, <2>1, <2>2
<1>4. c \in Shape
  BY DEF Sound
<1>5. /\ d.list = [c.list EXCEPT ![l] = r]
      /\ d.size = [c.size EXCEPT ![l] = @ - c.entry[id].size]
      /\ d.entry = c.entry /\ d.hash = c.hash /\ d.t1_target = c.t1_target
  BY <1>0, <1>4 DEF Shape
<1>6. d.list \in [List -> Seq(Id)] /\ d.size \in [List -> Int]
  BY <1>2, <1>3, <1>4, <1>5 DEF Shape
<1>7. d \in Shape
  BY <1>0, <1>4, <1>6 DEF Shape
<1>8. d.list[l] = r /\ \A k \in List \ {l} : d.list[k] = c.list[k] /\ d.size[k] = c.size[k]
  BY <1>4, <1>5 DEF Shape
<1>9. d.size[l] = c.size[l] - c.entry[id].size
  BY <1>4, <1>5 DEF Shape
<1> HIDE DEF s, id
<1>10. ASSUME NEW k \in List PROVE ListSound(d, out \union {id}, k)
  <2>1. CASE k = l
    BY <1>1, <1>3, <1>5, <1>8, <2>1 DEF Sound, ListSound, s
  <2>2. CASE k # l
    <3>1. ListSound(c, out, k) /\ d.list[k] = c.list[k]
      BY <1>8, <2>2 DEF Sound
    <3>2. id \notin Members(c.list[k])
      BY <1>2, <2>2, <3>1 DEF ListSound
    <3> QED BY <1>5, <3>1, <3>2 DEF ListSound
  <2> QED BY <2>1, <2>2
<1>11. ASSUME NEW o \in d.hash \ (out \union {id})
       PROVE  d.entry[o].where \in List /\ o \in Members(d.list[d.entry[o].where])
  <2>1. c.entry[o].where \in List /\ o \in Members(c.list[c.entry[o].where])
    BY <1>5, <1>11 DEF Sound
  <2> QED BY <1>3, <1>5, <1>8, <1>11, <2>1 DEF s
<1>12. ASSUME NEW k \in List PROVE SizeSound(d, k)
  <2>1. SizeSound(c, k) /\ Members(c.list[k]) \in SUBSET Id
    BY SoundFields DEF Sound
  <2>2. CASE k = l
    <3>1. IsFiniteSet(Members(s)) /\ \A o \in Members(s) : Bytes(l)[o] \in Int
      BY <2>1, <2>2, BytesType DEF s
    <3>2. SumFunctionOnSet(Bytes(l), Members(s))
            = Bytes(l)[id] + SumFunctionOnSet(Bytes(l), Members(s) \ {id})
      BY <1>2, <3>1, SumTake
    <3>3. c.entry[id].size = Bytes(l)[id] /\ c.size[l] = SumFunctionOnSet(Bytes(l), Members(s))
      BY <1>2, <2>1, <2>2 DEF SizeSound, s
    <3>4. SumFunctionOnSet(Bytes(l), Members(s) \ {id}) \in Int /\ Bytes(l)[id] \in Int
      BY <1>2, <2>1, <2>2, BytesType DEF s
    <3>5. d.size[l] = SumFunctionOnSet(Bytes(l), Members(s) \ {id})
      BY <1>9, <3>2, <3>3, <3>4
    <3> QED BY <1>3, <1>5, <1>8, <2>1, <2>2, <3>5 DEF SizeSound, s
  <2>3. CASE k # l
    BY <1>5, <1>8, <2>1, <2>3 DEF SizeSound
  <2> QED BY <2>2, <2>3
<1>16. ASSUME NEW k \in GhostList PROVE GhostsSound(d, k)
  <2>1. GhostsSound(c, k) /\ k \in List
    BY DEF Sound, List
  <2>2. Members(d.list[k]) \subseteq Members(c.list[k])
    BY <1>3, <1>8, <2>1 DEF s
  <2> QED BY <1>5, <2>1, <2>2 DEF GhostsSound
<1>13. \A o \in Id \ d.hash : d.entry[o] = NoEntry
  BY <1>5 DEF Sound
<1>14. out \union {id} \subseteq d.hash /\ id \in c.hash \ out
  BY <1>1, <1>2, <1>5 DEF Sound
<1>15. Sound(d, out \union {id})
  BY <1>7, <1>10, <1>11, <1>12, <1>13, <1>14, <1>16 DEF Sound
<1> QED BY <1>2, <1>3, <1>5, <1>8, <1>14, <1>15 DEF s, id, Without

\* cache_insert_mru puts an entry that was in no list into one.
With(c, out, l, id, d) ==
    /\ Sound(d, out \ {id})
    /\ Members(d.list[l]) = {id} \union Members(c.list[l])
    /\ \A k \in List \ {l} : d.list[k] = c.list[k]
    /\ d.entry = [c.entry EXCEPT ![id].where = l]
    /\ d.hash = c.hash /\ d.t1_target = c.t1_target

LEMMA PutIn ==
    ASSUME NEW c, NEW out, Sound(c, out), NEW id \in out, NEW l \in List,
           c.entry[id].size = Bytes(l)[id], l \in GhostList => c.entry[id].usage = 0
    PROVE  With(c, out, l, id, InsertMru(c, l, id))
<1> DEFINE s == c.list[l]
           r == <<id>> \o s
           d == InsertMru(c, l, id)
<1>1. id \in Id /\ id \in c.hash /\ c.entry[id] \in Entry /\ c.entry[id].size \in Nat
  BY SoundFields DEF Sound
<1>2. s \in Seq(Id) /\ Len(s) \in Nat /\ Injective(s) /\ id \notin Members(s)
  <2>1. s \in Seq(Id)
    BY SoundFields
  <2>2. ListSound(c, out, l)
    BY DEF Sound
  <2> QED BY <2>1, <2>2, LenProperties DEF ListSound
<1>3. /\ r \in Seq(Id) /\ Len(r) = Len(s) + 1
      /\ Injective(r) /\ Members(r) = {id} \union Members(s)
  <2> HIDE DEF s
  <2> QED BY <1>1, <1>2, ConsProperties
<1>4. c \in Shape
  BY DEF Sound
<1>5. /\ d.list = [c.list EXCEPT ![l] = r]
      /\ d.size = [c.size EXCEPT ![l] = @ + c.entry[id].size]
      /\ d.entry = [c.entry EXCEPT ![id].where = l]
      /\ d.hash = c.hash /\ d.t1_target = c.t1_target
  BY <1>4 DEF Shape, InsertMru
<1>6. /\ d.list \in [List -> Seq(Id)] /\ d.size \in [List -> Int]
      /\ d.entry \in [Id -> Entry]
  <2>1. d.list \in [List -> Seq(Id)] /\ d.size \in [List -> Int]
    BY <1>1, <1>3, <1>4, <1>5 DEF Shape
  <2>2. c.entry \in [Id -> Entry]
    BY <1>4 DEF Shape
  <2>3. [c.entry[id] EXCEPT !.where = l] \in Entry
    BY <1>1 DEF Entry
  <2> QED BY <1>1, <1>5, <2>1, <2>2, <2>3
<1>7. d \in Shape
  BY <1>4, <1>5, <1>6 DEF Shape, InsertMru
<1>8. d.list[l] = r /\ \A k \in List \ {l} : d.list[k] = c.list[k] /\ d.size[k] = c.size[k]
  BY <1>4, <1>5 DEF Shape
<1>9. d.size[l] = c.size[l] + c.entry[id].size
  BY <1>4, <1>5 DEF Shape
<1>10. /\ d.entry[id].where = l /\ d.entry[id].size = c.entry[id].size
       /\ d.entry[id].usage = c.entry[id].usage
       /\ \A o \in Id \ {id} : d.entry[o] = c.entry[o]
  BY <1>1, <1>4, <1>5 DEF Shape, Entry
<1> HIDE DEF s, r, d
<1>11. ASSUME NEW k \in List PROVE ListSound(d, out \ {id}, k)
  <2>1. ListSound(c, out, k) /\ Members(c.list[k]) \subseteq Id
    BY SoundFields DEF Sound
  <2>2. CASE k = l
    BY <1>1, <1>3, <1>5, <1>8, <1>10, <2>1, <2>2 DEF ListSound, s
  <2>3. CASE k # l
    BY <1>5, <1>8, <1>10, <2>1, <2>3 DEF ListSound
  <2> QED BY <2>2, <2>3
<1>12. ASSUME NEW o \in d.hash \ (out \ {id})
       PROVE  d.entry[o].where \in List /\ o \in Members(d.list[d.entry[o].where])
  <2>1. CASE o = id
    BY <1>3, <1>8, <1>10, <2>1
  <2>2. CASE o # id
    <3>1. o \in c.hash \ out /\ o \in Id
      BY <1>5, <1>12, <2>2, SoundFields
    <3>2. c.entry[o].where \in List /\ o \in Members(c.list[c.entry[o].where])
      BY <3>1 DEF Sound
    <3>3. d.entry[o] = c.entry[o]
      BY <1>10, <2>2, <3>1
    <3> QED BY <1>3, <1>8, <3>2, <3>3 DEF s
  <2> QED BY <2>1, <2>2
<1>13. ASSUME NEW k \in List PROVE SizeSound(d, k)
  <2>1. SizeSound(c, k) /\ Members(c.list[k]) \in SUBSET Id /\ id \notin Members(c.list[k])
    BY SoundFields DEF Sound, ListSound
  <2>2. CASE k = l
    <3>1. IsFiniteSet(Members(s)) /\ \A o \in Members(s) \union {id} : Bytes(l)[o] \in Int
      BY <1>1, <2>1, <2>2, BytesType DEF s
    <3>2. SumFunctionOnSet(Bytes(l), Members(s) \union {id})
            = SumFunctionOnSet(Bytes(l), Members(s)) + Bytes(l)[id]
      BY <1>2, <3>1, SumAdd
    <3>3. c.size[l] = SumFunctionOnSet(Bytes(l), Members(s))
      BY <2>1, <2>2 DEF SizeSound, s
    <3>4. d.size[l] = SumFunctionOnSet(Bytes(l), Members(s) \union {id})
      BY <1>9, <3>2, <3>3
    <3>5. Members(d.list[l]) = Members(s) \union {id}
      BY <1>3, <1>8
    <3>6. ASSUME NEW o \in Members(d.list[l]) PROVE d.entry[o].size = Bytes(l)[o]
      <4>1. CASE o = id
        BY <1>2, <1>10, <4>1
      <4>2. CASE o # id
        <5>1. o \in Members(c.list[l]) /\ o \in Id \ {id}
          BY <2>1, <2>2, <3>5, <3>6, <4>2 DEF s
        <5>2. c.entry[o].size = Bytes(l)[o]
          BY <2>1, <2>2, <5>1 DEF SizeSound
        <5> QED BY <1>10, <5>1, <5>2
      <4> QED BY <4>1, <4>2
    <3> QED BY <2>2, <3>4, <3>5, <3>6 DEF SizeSound
  <2>3. CASE k # l
    BY <1>8, <1>10, <2>1, <2>3 DEF SizeSound
  <2> QED BY <2>2, <2>3
<1>17. ASSUME NEW k \in GhostList PROVE GhostsSound(d, k)
  <2>1. GhostsSound(c, k) /\ k \in List /\ Members(c.list[k]) \subseteq Id
    BY SoundFields DEF Sound, List
  <2>2. \A o \in Members(d.list[k]) : o \in Members(c.list[k]) \/ (o = id /\ k = l)
    BY <1>3, <1>8, <2>1 DEF s
  <2> QED BY <1>10, <2>1, <2>2 DEF GhostsSound
<1>14. \A o \in Id \ d.hash : d.entry[o] = NoEntry
  BY <1>1, <1>5, <1>10 DEF Sound
<1>15. out \ {id} \subseteq d.hash
  BY <1>5 DEF Sound
<1>16. Sound(d, out \ {id})
  BY <1>7, <1>11, <1>12, <1>13, <1>14, <1>15, <1>17 DEF Sound
<1> QED BY <1>3, <1>5, <1>8, <1>16 DEF s, d, With

\* cache_remove frees an entry that was in no list.
Less(c, out, id, d) ==
    /\ Sound(d, out \ {id})
    /\ d.list = c.list /\ d.t1_target = c.t1_target
    /\ d.hash = c.hash \ {id}
    /\ d.entry = [c.entry EXCEPT ![id] = NoEntry]

LEMMA Freed ==
    ASSUME NEW c, NEW out, Sound(c, out), NEW id \in out
    PROVE  Less(c, out, id, Remove(c, id))
<1> DEFINE d == Remove(c, id)
<1>1. c \in Shape /\ id \in Id /\ id \in c.hash
  BY SoundFields DEF Sound
<1>2. /\ d.list = c.list /\ d.size = c.size /\ d.t1_target = c.t1_target
      /\ d.hash = c.hash \ {id}
      /\ d.entry = [c.entry EXCEPT ![id] = NoEntry]
  BY <1>1 DEF Shape, Remove
<1>3. NoEntry \in Entry
  BY DEF NoEntry, Entry
<1>4. d.entry \in [Id -> Entry] /\ d.hash \subseteq Id
  BY <1>1, <1>2, <1>3 DEF Shape
<1>5. d \in Shape
  BY <1>1, <1>2, <1>4 DEF Shape, Remove
<1>6. d.entry[id] = NoEntry /\ \A o \in Id \ {id} : d.entry[o] = c.entry[o]
  BY <1>1, <1>2 DEF Shape
<1>7. \A l \in List : id \notin Members(c.list[l]) /\ Members(c.list[l]) \subseteq Id
  BY SoundFields DEF Sound, ListSound
<1>8. ASSUME NEW l \in List PROVE ListSound(d, out \ {id}, l) /\ SizeSound(d, l)
  <2>1. ListSound(c, out, l) /\ SizeSound(c, l)
    BY DEF Sound
  <2>2. ListSound(d, out \ {id}, l)
    BY <1>2, <1>6, <1>7, <2>1 DEF ListSound
  <2>3. SizeSound(d, l)
    BY <1>2, <1>6, <1>7, <2>1 DEF SizeSound
  <2> QED BY <2>2, <2>3
<1>9. ASSUME NEW o \in d.hash \ (out \ {id})
      PROVE  d.entry[o].where \in List /\ o \in Members(d.list[d.entry[o].where])
  <2>1. o \in c.hash \ out /\ d.entry[o] = c.entry[o]
    BY <1>2, <1>6, <1>9, SoundFields
  <2> QED BY <1>2, <2>1 DEF Sound
<1>10. ASSUME NEW l \in GhostList PROVE GhostsSound(d, l)
  <2>1. GhostsSound(c, l) /\ l \in List
    BY DEF Sound, List
  <2> QED BY <1>2, <1>6, <1>7, <2>1 DEF GhostsSound
<1>11. \A o \in Id \ d.hash : d.entry[o] = NoEntry
  BY <1>2, <1>6 DEF Sound
<1>12. out \ {id} \subseteq d.hash
  BY <1>2 DEF Sound
<1>13. Sound(d, out \ {id})
  BY <1>5, <1>8, <1>9, <1>10, <1>11, <1>12 DEF Sound
<1> QED BY <1>2, <1>13 DEF Less

\* The entry that TakeLru takes has no readers.
LEMMA LruTaken ==
    ASSUME NEW c, NEW out, Sound(c, out), NEW l \in List, Unused(c, l) # {}
    PROVE  /\ c.entry[Lru(c, l)].usage = 0
           /\ Without(c, out, l, Lru(c, l), TakeLru(c, l))
<1> DEFINE s == c.list[l]
           i == LruPos(c, l)
<1>1. s \in Seq(Id) /\ Len(s) \in Nat /\ DOMAIN s = 1 .. Len(s)
  BY SoundFields, LenProperties
<1>2. Unused(c, l) \subseteq 1 .. Len(s)
  BY <1>1 DEF Unused
<1>3. \E j \in Unused(c, l) : \A k \in Unused(c, l) : k <= j
  BY <1>1, <1>2, LastPosition
<1>4. i \in Unused(c, l)
  BY <1>3 DEF LruPos
<1>5. i \in DOMAIN s /\ c.entry[s[i]].usage = 0 /\ Lru(c, l) = s[i]
  BY <1>4 DEF Unused, Lru
<1>6. Cut(c, l, i, TakeLru(c, l))
  <2>1. c \in Shape
    BY DEF Sound
  <2> QED BY <1>5, <2>1 DEF TakeLru, Cut, Shape
<1> HIDE DEF i
<1>7. Without(c, out, l, s[i], TakeLru(c, l))
  BY <1>5, <1>6, TakenOut
<1> QED BY <1>5, <1>7

\* What a call may do to make room: entries without readers leave the memory,
\* at most one, and what was between the lists stays there.
MakesRoom(c, out, d) ==
    /\ Sound(d, out) /\ EvictsOne(c, d)
    /\ d.hash \subseteq c.hash /\ out \subseteq d.hash
    /\ d.t1_target = c.t1_target

\* One entry goes from a list to another, ...
Shifts(c, d, l, g) ==
    /\ l # g
    /\ \E id \in Members(c.list[l]) \ Members(c.list[g]) :
          /\ Members(d.list[l]) = Members(c.list[l]) \ {id}
          /\ Members(d.list[g]) = Members(c.list[g]) \union {id}
    /\ \A k \in List \ {l, g} : d.list[k] = c.list[k]

\* ... or leaves all of them.
Drops(c, d, l) ==
    /\ \E id \in Members(c.list[l]) : Members(d.list[l]) = Members(c.list[l]) \ {id}
    /\ \A k \in List \ {l} : d.list[k] = c.list[k]

\* cache_move makes a ghost of an entry without readers.
LEMMA Moved ==
    ASSUME NEW c, NEW out, Sound(c, out), NEW l \in DataList, Unused(c, l) # {}
    PROVE  /\ MakesRoom(c, out, Move(c, l, GhostsOf[l]))
           /\ Shifts(c, Move(c, l, GhostsOf[l]), l, GhostsOf[l])
<1> DEFINE g == GhostsOf[l]
           id == Lru(c, l)
           t == TakeLru(c, l)
           m == Trim(t, id)
           d == InsertMru(m, g, id)
<1>1. l \in List /\ g \in GhostList /\ g \in List /\ g # l
  BY DEF List, DataList, GhostList, GhostsOf
<1>2. c.entry[id].usage = 0 /\ Without(c, out, l, id, t)
  BY <1>1, LruTaken
<1> HIDE DEF id, t
<1>3. /\ Sound(t, out \union {id}) /\ t \in Shape
      /\ t.entry = c.entry /\ t.hash = c.hash /\ t.t1_target = c.t1_target
      /\ id \in c.hash /\ id \notin out /\ id \in Id /\ c.entry[id] \in Entry
  BY <1>2, SoundFields DEF Without, Sound
<1>4. /\ m.list = t.list /\ m.size = t.size /\ m.hash = t.hash /\ m.t1_target = t.t1_target
      /\ m.entry = [t.entry EXCEPT ![id].size = EntrySize]
  BY <1>3 DEF Trim, Shape
<1>5. /\ m.entry[id].size = EntrySize /\ m.entry[id].usage = 0
      /\ m.entry[id].where = t.entry[id].where /\ m.entry[id] \in Entry
      /\ \A o \in Id \ {id} : m.entry[o] = t.entry[o]
  <2>1. t.entry \in [Id -> Entry] /\ t.entry[id] \in Entry
    BY <1>3 DEF Shape
  <2>2. m.entry[id] = [t.entry[id] EXCEPT !.size = EntrySize]
    BY <1>3, <1>4, <2>1
  <2>3. \A o \in Id \ {id} : m.entry[o] = t.entry[o]
    BY <1>4, <2>1
  <2> QED BY <1>2, <1>3, <2>1, <2>2, <2>3, SizesAssumption DEF Entry
<1>6. m \in Shape
  <2>1. m.entry \in [Id -> Entry]
    BY <1>3, <1>4, <1>5 DEF Shape
  <2> QED BY <1>3, <1>4, <2>1 DEF Trim, Shape
<1> HIDE DEF m
<1>7. \A k \in List : Members(t.list[k]) \subseteq Id \ {id}
  BY <1>3, SoundFields DEF Sound, ListSound
<1>8. Sound(m, out \union {id})
  <2>1. ASSUME NEW k \in List PROVE ListSound(m, out \union {id}, k) /\ SizeSound(m, k)
    <3>1. ListSound(t, out \union {id}, k) /\ SizeSound(t, k)
      BY <1>3 DEF Sound
    <3>2. ListSound(m, out \union {id}, k)
      BY <1>4, <1>5, <1>7, <3>1 DEF ListSound
    <3>3. SizeSound(m, k)
      BY <1>4, <1>5, <1>7, <3>1 DEF SizeSound
    <3> QED BY <3>2, <3>3
  <2>2. ASSUME NEW o \in m.hash \ (out \union {id})
        PROVE  m.entry[o].where \in List /\ o \in Members(m.list[m.entry[o].where])
    <3>1. o \in Id \ {id} /\ o \in t.hash \ (out \union {id})
      BY <1>3, <1>4, <2>2, SoundFields
    <3>2. t.entry[o].where \in List /\ o \in Members(t.list[t.entry[o].where])
      BY <1>3, <3>1 DEF Sound
    <3> QED BY <1>4, <1>5, <3>1, <3>2
  <2>3. ASSUME NEW k \in GhostList PROVE GhostsSound(m, k)
    <3>1. GhostsSound(t, k) /\ k \in List
      BY <1>3 DEF Sound, List
    <3> QED BY <1>4, <1>5, <1>7, <3>1 DEF GhostsSound
  <2>4. \A o \in Id \ m.hash : m.entry[o] = NoEntry
    BY <1>3, <1>4, <1>5 DEF Sound
  <2>5. out \union {id} \subseteq m.hash
    BY <1>3, <1>4 DEF Sound
  <2> QED BY <1>6, <2>1, <2>2, <2>3, <2>4, <2>5 DEF Sound
<1>9. /\ Sound(d, (out \union {id}) \ {id})
      /\ Members(d.list[g]) = {id} \union Members(m.list[g])
      /\ \A k \in List \ {g} : d.list[k] = m.list[k]
      /\ d.entry = [m.entry EXCEPT ![id].where = g]
      /\ d.hash = m.hash /\ d.t1_target = m.t1_target
  <2>1. id \in out \union {id}
    OBVIOUS
  <2> HIDE DEF g
  <2>3. m.entry[id].size = Bytes(g)[id]
    BY <1>1, <1>3, <1>5 DEF Bytes, GhostList, DataList
  <2>2. With(m, out \union {id}, g, id, d)
    BY <1>1, <1>5, <1>8, <2>1, <2>3, PutIn
  <2> QED BY <2>2 DEF With
<1> HIDE DEF d, g
<1>10. Sound(d, out)
  <2>1. (out \union {id}) \ {id} = out
    BY <1>3
  <2> QED BY <1>9, <2>1
<1>11. SameUsage(c, d)
  <2>1. \A o \in Id : d.entry[o].usage = m.entry[o].usage
    BY <1>5, <1>6, <1>9 DEF Shape, Entry
  <2>2. \A o \in Id : m.entry[o].usage = c.entry[o].usage
    BY <1>2, <1>3, <1>5
  <2> QED BY <2>1, <2>2 DEF SameUsage
<1>12. Res(d) = Res(c) \ {id}
  <2>1. d.list["t1"] = t.list["t1"] /\ d.list["t2"] = t.list["t2"]
    BY <1>1, <1>4, <1>9 DEF GhostList, List, DataList
  <2>2. Members(t.list[l]) = Members(c.list[l]) \ {id}
        /\ \A k \in List \ {l} : t.list[k] = c.list[k] /\ id \notin Members(c.list[k])
    BY <1>2, <1>3, <1>7 DEF Without
  <2> QED BY <2>1, <2>2 DEF Res, DataList, List
<1>13. id \in Res(c)
  BY <1>2 DEF Without, Res, DataList
<1>14. EvictsOne(c, d)
  BY <1>2, <1>11, <1>12, <1>13 DEF EvictsOne
<1>15. d.hash = c.hash /\ d.t1_target = c.t1_target /\ out \subseteq c.hash
  BY <1>3, <1>4, <1>9 DEF Sound
<1>16. d = Move(c, l, GhostsOf[l])
  BY DEF Move, d, m, t, id, g
<1>17. Shifts(c, d, l, g)
  <2>1. Members(t.list[l]) = Members(c.list[l]) \ {id} /\ id \in Members(c.list[l])
        /\ \A k \in List \ {l} : t.list[k] = c.list[k] /\ id \notin Members(c.list[k])
    BY <1>2, <1>3, <1>7 DEF Without
  <2> QED BY <1>1, <1>4, <1>9, <2>1 DEF Shifts
<1> QED BY <1>10, <1>14, <1>15, <1>16, <1>17 DEF MakesRoom, g

\* Nothing happens.
LEMMA Unchanged ==
    ASSUME NEW c, NEW out, Sound(c, out)
    PROVE  MakesRoom(c, out, c)
<1>1. EvictsOne(c, c)
  BY DEF EvictsOne, SameUsage
<1> QED BY <1>1 DEF MakesRoom, Sound

\* cache_replace makes a ghost of one entry, or finds none that it may.
LEMMA Replaced ==
    ASSUME NEW c, NEW out, Sound(c, out)
    PROVE  /\ MakesRoom(c, out, Replace(c))
           /\ \/ \E l \in DataList : Shifts(c, Replace(c), l, GhostsOf[l])
              \/ /\ Replace(c) = c
                 /\ \A l \in DataList : Unused(c, l) = {}
<1> DEFINE first == IF c.size["t1"] >= Larger(1, c.t1_target) THEN "t1" ELSE "t2"
           second == Other[first]
<1>1. first \in DataList /\ second \in DataList
  BY DEF DataList, Other
<1> HIDE DEF first
<1>2. CASE Unused(c, first) # {}
  <2>1. Replace(c) = Move(c, first, GhostsOf[first])
    BY <1>2 DEF Replace, first
  <2> QED BY <1>1, <1>2, <2>1, Moved
<1>3. CASE Unused(c, first) = {} /\ Unused(c, second) # {}
  <2>1. Replace(c) = Move(c, second, GhostsOf[second])
    BY <1>3 DEF Replace, first
  <2> HIDE DEF second
  <2> QED BY <1>1, <1>3, <2>1, Moved
<1>4. CASE Unused(c, first) = {} /\ Unused(c, second) = {}
  <2>1. Replace(c) = c
    BY <1>4 DEF Replace, first
  <2>2. \A l \in DataList : l = first \/ l = second
    BY <1>1 DEF DataList, Other
  <2> QED BY <1>4, <2>1, <2>2, Unchanged
<1> QED BY <1>2, <1>3, <1>4

\* cache_remove_lru frees one entry, a ghost or one without readers.
LEMMA LruRemoved ==
    ASSUME NEW c, NEW out, Sound(c, out), NEW l \in List
    PROVE  /\ MakesRoom(c, out, RemoveLru(c, l))
           /\ l \in GhostList => Res(RemoveLru(c, l)) = Res(c)
           /\ IF Unused(c, l) = {} THEN RemoveLru(c, l) = c ELSE Drops(c, RemoveLru(c, l), l)
<1>1. CASE Unused(c, l) = {}
  BY <1>1, Unchanged DEF RemoveLru
<1>2. CASE Unused(c, l) # {}
  <2> DEFINE id == Lru(c, l)
             t == TakeLru(c, l)
             d == Remove(t, id)
  <2>1. c.entry[id].usage = 0 /\ Without(c, out, l, id, t)
    BY <1>2, LruTaken
  <2> HIDE DEF id, t
  <2>2. /\ Sound(t, out \union {id})
        /\ t.entry = c.entry /\ t.hash = c.hash /\ t.t1_target = c.t1_target
        /\ id \in c.hash /\ id \notin out /\ id \in Id
    BY <2>1, SoundFields DEF Without
  <2>3. /\ Sound(d, (out \union {id}) \ {id})
        /\ d.list = t.list /\ d.t1_target = t.t1_target
        /\ d.hash = t.hash \ {id}
        /\ d.entry = [t.entry EXCEPT ![id] = NoEntry]
    <3>1. id \in out \union {id}
      OBVIOUS
    <3>2. Less(t, out \union {id}, id, d)
      BY <2>2, <3>1, Freed
    <3> QED BY <3>2 DEF Less
  <2> HIDE DEF d
  <2>4. Sound(d, out)
    <3>1. (out \union {id}) \ {id} = out
      BY <2>2
    <3> QED BY <2>3, <3>1
  <2>5. SameUsage(c, d)
    <3>1. t.entry \in [Id -> Entry]
      BY <2>2 DEF Sound, Shape
    <3> QED BY <2>1, <2>2, <2>3, <3>1 DEF SameUsage, NoEntry
  <2>6. /\ Members(t.list[l]) = Members(c.list[l]) \ {id}
        /\ \A k \in List \ {l} : t.list[k] = c.list[k] /\ id \notin Members(c.list[k])
    <3>1. \A k \in List : id \notin Members(t.list[k])
      BY <2>2 DEF Sound, ListSound
    <3> QED BY <2>1, <3>1 DEF Without
  <2>9. Drops(c, d, l)
    BY <2>1, <2>3, <2>6 DEF Drops, Without
  <2>7. CASE l \in DataList
    <3>1. Res(d) = Res(c) \ {id} /\ id \in Res(c)
      BY <2>1, <2>3, <2>6, <2>7 DEF Res, DataList, List, Without
    <3>2. EvictsOne(c, d)
      BY <2>1, <2>5, <3>1 DEF EvictsOne
    <3>3. l \notin GhostList
      BY <2>7 DEF DataList, GhostList
    <3> QED BY <1>2, <2>2, <2>3, <2>4, <2>9, <3>2, <3>3 DEF MakesRoom, RemoveLru, Sound, d, t, id
  <2>8. CASE l \in GhostList
    <3>1. Res(d) = Res(c)
      BY <2>3, <2>6, <2>8 DEF Res, DataList, GhostList, List
    <3>2. EvictsOne(c, d)
      BY <2>5, <3>1 DEF EvictsOne
    <3> QED BY <1>2, <2>2, <2>3, <2>4, <2>9, <3>1, <3>2 DEF MakesRoom, RemoveLru, Sound, d, t, id
  <2> QED BY <2>7, <2>8 DEF List
<1> QED BY <1>1, <1>2

\* What cache_insert does to make room before it inserts into t1.
LEMMA RoomMade ==
    ASSUME NEW c, NEW out, Sound(c, out)
    PROVE  MakesRoom(c, out, MakeRoom(c))
<1>1. ASSUME NEW l \in GhostList
      PROVE  MakesRoom(c, out, Replace(RemoveLru(c, l)))
  <2> DEFINE e == RemoveLru(c, l)
             d == Replace(e)
  <2>1. MakesRoom(c, out, e) /\ Res(e) = Res(c)
    BY LruRemoved DEF List
  <2> HIDE DEF e
  <2>2. MakesRoom(e, out, d)
    BY <2>1, Replaced DEF MakesRoom
  <2> HIDE DEF d
  <2>3. SameUsage(c, e) /\ SameUsage(e, d) /\ Res(c) \subseteq Id
    BY <2>1, <2>2, SoundFields DEF MakesRoom, EvictsOne, Res, List, DataList
  <2>4. SameUsage(c, d)
    BY <2>3 DEF SameUsage
  <2>5. PICK o \in {{}} \union {{id} : id \in {r \in Res(e) : e.entry[r].usage = 0}} :
            Res(d) = Res(e) \ o
    BY <2>2 DEF MakesRoom, EvictsOne
  <2>6. o \in {{}} \union {{id} : id \in {r \in Res(c) : c.entry[r].usage = 0}}
    BY <2>1, <2>3, <2>5 DEF SameUsage
  <2>7. EvictsOne(c, d)
    BY <2>1, <2>4, <2>5, <2>6 DEF EvictsOne
  <2> QED BY <2>1, <2>2, <2>7 DEF MakesRoom, d, e
<1>2. MakesRoom(c, out, Replace(c))
  BY Replaced
<1>3. MakesRoom(c, out, RemoveLru(c, "t1"))
  BY LruRemoved DEF List, DataList
<1>4. MakesRoom(c, out, c)
  BY Unchanged
<1>5. \/ MakeRoom(c) = Replace(RemoveLru(c, "b1"))
      \/ MakeRoom(c) = RemoveLru(c, "t1")
      \/ MakeRoom(c) = Replace(RemoveLru(c, "b2"))
      \/ MakeRoom(c) = Replace(c)
      \/ MakeRoom(c) = c
  BY DEF MakeRoom
<1> QED BY <1>1, <1>2, <1>3, <1>4, <1>5 DEF GhostList

\* Unlink takes an entry that the hash knows out of its list.
LEMMA Unlinked ==
    ASSUME NEW c, NEW out, Sound(c, out), NEW id \in c.hash \ out
    PROVE  Without(c, out, c.entry[id].where, id, Unlink(c, id))
<1> DEFINE l == c.entry[id].where
           i == Position(c.list[l], id)
<1>1. l \in List /\ id \in Members(c.list[l])
  BY DEF Sound
<1> HIDE DEF l
<1>2. i \in DOMAIN c.list[l] /\ c.list[l][i] = id
  BY <1>1 DEF Position, Members
<1>3. Cut(c, l, i, Unlink(c, id))
  <2>1. c \in Shape
    BY DEF Sound
  <2> QED BY <1>1, <1>2, <2>1 DEF Unlink, Cut, Shape, l
<1> HIDE DEF i
<1>4. Without(c, out, l, c.list[l][i], Unlink(c, id))
  BY <1>1, <1>2, <1>3, TakenOut
<1> QED BY <1>2, <1>4 DEF l

\* A change of t1_target, which no list depends on.
LEMMA Retargeted ==
    ASSUME NEW c, NEW out, Sound(c, out), NEW x \in Int
    PROVE  LET d == [c EXCEPT !.t1_target = x] IN
           /\ Sound(d, out) /\ d.t1_target = x
           /\ d.entry = c.entry /\ d.hash = c.hash /\ d.list = c.list
<1> DEFINE d == [c EXCEPT !.t1_target = x]
<1>1. c \in Shape
  BY DEF Sound
<1>2. /\ d \in Shape /\ d.t1_target = x
      /\ d.entry = c.entry /\ d.hash = c.hash /\ d.list = c.list /\ d.size = c.size
  BY <1>1 DEF Shape
<1> HIDE DEF d
<1>3. Sound(d, out)
  BY <1>2 DEF Sound, ListSound, SizeSound, GhostsSound
<1> QED BY <1>2, <1>3 DEF d

\* A change of the number of readers of data in memory.
Recount(c, id, n, d) ==
    /\ Sound(d, {}) /\ d.t1_target = c.t1_target
    /\ d.list = c.list /\ d.hash = c.hash
    /\ \A o \in Id : d.entry[o].usage = IF o = id THEN n ELSE c.entry[o].usage

LEMMA Counted ==
    ASSUME NEW c, Sound(c, {}), NEW id \in c.hash, c.entry[id].where \in DataList,
           NEW n \in Nat, NEW d, d = [c EXCEPT !.entry[id].usage = n]
    PROVE  Recount(c, id, n, d)
<1>1. c \in Shape /\ id \in Id /\ c.entry[id] \in Entry /\ c.entry \in [Id -> Entry]
  BY SoundFields DEF Sound, Shape
<1>2. /\ d.list = c.list /\ d.size = c.size /\ d.hash = c.hash /\ d.t1_target = c.t1_target
      /\ d.entry = [c.entry EXCEPT ![id].usage = n]
  BY <1>1 DEF Shape
<1>3. /\ d.entry[id].usage = n /\ d.entry[id] \in Entry
      /\ d.entry[id].where = c.entry[id].where /\ d.entry[id].size = c.entry[id].size
      /\ \A o \in Id \ {id} : d.entry[o] = c.entry[o]
  <2>1. d.entry[id] = [c.entry[id] EXCEPT !.usage = n]
    BY <1>1, <1>2
  <2> QED BY <1>1, <1>2, <2>1 DEF Entry
<1>4. d \in Shape
  <2>1. d.entry \in [Id -> Entry]
    BY <1>1, <1>2, <1>3
  <2> QED BY <1>1, <2>1 DEF Shape
<1>5. \A l \in List : Members(c.list[l]) \subseteq Id
  BY SoundFields
<1>6. ASSUME NEW l \in List PROVE ListSound(d, {}, l) /\ SizeSound(d, l)
  <2>1. ListSound(c, {}, l) /\ SizeSound(c, l)
    BY DEF Sound
  <2>2. ListSound(d, {}, l)
    BY <1>2, <1>3, <1>5, <2>1 DEF ListSound
  <2>3. SizeSound(d, l)
    BY <1>2, <1>3, <1>5, <2>1 DEF SizeSound
  <2> QED BY <2>2, <2>3
<1>7. \A o \in d.hash : d.entry[o].where \in List /\ o \in Members(d.list[d.entry[o].where])
  BY <1>2, <1>3, SoundFields DEF Sound
<1>8. ASSUME NEW l \in GhostList PROVE GhostsSound(d, l)
  <2>1. GhostsSound(c, l) /\ l \in List /\ ListSound(c, {}, l)
    BY DEF Sound, List
  <2>2. id \notin Members(c.list[l])
    BY <2>1 DEF ListSound, DataList, GhostList
  <2> QED BY <1>2, <1>3, <1>5, <2>1, <2>2 DEF GhostsSound
<1>9. \A o \in Id \ d.hash : d.entry[o] = NoEntry
  BY <1>2, <1>3 DEF Sound
<1>10. Sound(d, {})
  BY <1>4, <1>6, <1>7, <1>8, <1>9 DEF Sound
<1> QED BY <1>2, <1>3, <1>10 DEF Recount

\* A new entry with one reader.
Added(c, l, id, d) ==
    /\ Sound(d, {}) /\ d.t1_target = c.t1_target
    /\ id \in d.hash /\ d.entry[id].where = l
    /\ Res(d) = Res(c) \union {id}
    /\ id \notin Members(c.list[l]) /\ Members(d.list[l]) = Members(c.list[l]) \union {id}
    /\ \A k \in List \ {l} : d.list[k] = c.list[k]
    /\ \A o \in Id : d.entry[o].usage = IF o = id THEN 1 ELSE c.entry[o].usage

LEMMA EntryAdded ==
    ASSUME NEW c, Sound(c, {}), NEW id \in Id \ c.hash, NEW l \in DataList
    PROVE  Added(c, l, id, NewEntry(c, l, id))
<1> DEFINE new == [usage |-> 1, size |-> EntrySize + DataSize[id], where |-> "none"]
           e == [c EXCEPT !.entry[id] = new, !.hash = @ \union {id}]
           d == InsertMru(e, l, id)
<1>1. c \in Shape /\ c.entry \in [Id -> Entry] /\ new \in Entry
  BY SizesAssumption DEF Sound, Shape, Entry
<1> HIDE DEF new
<1>2. /\ e.list = c.list /\ e.size = c.size /\ e.t1_target = c.t1_target
      /\ e.hash = c.hash \union {id}
      /\ e.entry = [c.entry EXCEPT ![id] = new]
  BY <1>1 DEF Shape
<1>3. /\ e.entry[id] = new /\ \A o \in Id \ {id} : e.entry[o] = c.entry[o]
      /\ e.entry \in [Id -> Entry]
  BY <1>1, <1>2
<1>4. e \in Shape
  BY <1>1, <1>3 DEF Shape
<1> HIDE DEF e
<1>5. \A k \in List : Members(c.list[k]) \subseteq Id \ {id}
  BY SoundFields DEF Sound, ListSound
<1>6. ASSUME NEW k \in List PROVE ListSound(e, {id}, k) /\ SizeSound(e, k)
  <2>1. ListSound(c, {}, k) /\ SizeSound(c, k)
    BY DEF Sound
  <2>2. ListSound(e, {id}, k)
    BY <1>2, <1>3, <1>5, <2>1 DEF ListSound
  <2>3. SizeSound(e, k)
    BY <1>2, <1>3, <1>5, <2>1 DEF SizeSound
  <2> QED BY <2>2, <2>3
<1>7. \A o \in e.hash \ {id} :
          e.entry[o].where \in List /\ o \in Members(e.list[e.entry[o].where])
  BY <1>2, <1>3, SoundFields DEF Sound
<1>8. ASSUME NEW k \in GhostList PROVE GhostsSound(e, k)
  <2>1. GhostsSound(c, k) /\ k \in List
    BY DEF Sound, List
  <2> QED BY <1>2, <1>3, <1>5, <2>1 DEF GhostsSound
<1>9. \A o \in Id \ e.hash : e.entry[o] = NoEntry
  BY <1>2, <1>3 DEF Sound
<1>10. Sound(e, {id})
  BY <1>2, <1>4, <1>6, <1>7, <1>8, <1>9 DEF Sound
<1>11. l \in List /\ l \notin GhostList /\ e.entry[id].size = Bytes(l)[id]
  <2>1. e.entry[id].size = EntrySize + DataSize[id]
    BY <1>3 DEF new
  <2> QED BY <2>1 DEF List, DataList, GhostList, Bytes
<1>12. With(e, {id}, l, id, d)
  BY <1>10, <1>11, PutIn
<1> HIDE DEF d
<1>13. /\ Sound(d, {}) /\ d.t1_target = c.t1_target /\ id \in d.hash
       /\ d.entry = [e.entry EXCEPT ![id].where = l]
       /\ Members(d.list[l]) = {id} \union Members(c.list[l])
       /\ \A k \in List \ {l} : d.list[k] = c.list[k]
  <2>1. {id} \ {id} = {}
    OBVIOUS
  <2> QED BY <1>2, <1>12, <2>1 DEF With
<1>14. /\ d.entry[id].where = l /\ d.entry[id].usage = 1
       /\ \A o \in Id \ {id} : d.entry[o] = c.entry[o]
  <2>1. d.entry[id] = [new EXCEPT !.where = l] /\ \A o \in Id \ {id} : d.entry[o] = c.entry[o]
    BY <1>3, <1>13
  <2> QED BY <1>1, <2>1 DEF Entry, new
<1>15. Res(d) = Res(c) \union {id}
  BY <1>13 DEF Res, DataList, List
<1>16. d = NewEntry(c, l, id)
  BY DEF d, e, new, NewEntry
<1> QED BY <1>5, <1>11, <1>13, <1>14, <1>15, <1>16 DEF Added

\* t1_target stays within bounds when a ghost is asked for: its list is not
\* empty, so no division by zero.
LEMMA AdaptedInRange ==
    ASSUME NEW c, Sound(c, {}), c.t1_target \in 0 .. CacheSize,
           NEW id \in c.hash, c.entry[id].where \in GhostList
    PROVE  Adapted(c, id) \in 0 .. CacheSize
<1>1. ASSUME NEW l \in GhostList
      PROVE  /\ c.size[l] \in Nat
             /\ id \in Members(c.list[l]) => c.size[l] > 0
  <2>1. /\ l \in List /\ Members(c.list[l]) \in SUBSET Id
        /\ c.size[l] = SumFunctionOnSet(Bytes(l), Members(c.list[l]))
    BY SoundFields DEF Sound, SizeSound, List
  <2>2. IsFiniteSet(Members(c.list[l])) /\ c.size[l] \in Int
    BY <2>1, BytesType
  <2>3. \A o \in Members(c.list[l]) : Bytes(l)[o] \in Nat /\ Bytes(l)[o] >= 1
    BY <2>1, BytesType
  <2>4. Cardinality(Members(c.list[l])) <= c.size[l]
    BY <2>1, <2>2, <2>3, SumCounts
  <2>5. Cardinality(Members(c.list[l])) \in Nat
        /\ (Cardinality(Members(c.list[l])) = 0 => Members(c.list[l]) = {})
    BY <2>2, FS_CardinalityType, FS_EmptySet
  <2> QED BY <2>2, <2>4, <2>5
<1>2. id \in Members(c.list[c.entry[id].where]) /\ CacheSize \in Nat
  BY SizesAssumption DEF Sound
<1>3. CASE c.entry[id].where = "b1"
  <2>1. c.size["b1"] \in Nat \ {0} /\ c.size["b2"] \in Nat
    BY <1>1, <1>2, <1>3 DEF GhostList
  <2>2. c.size["b2"] \div c.size["b1"] \in Int
    BY <2>1
  <2> QED BY <1>2, <1>3, <2>2 DEF Adapted, Larger, Smaller
<1>4. CASE c.entry[id].where = "b2"
  <2>1. c.size["b2"] \in Nat \ {0} /\ c.size["b1"] \in Nat
    BY <1>1, <1>2, <1>4 DEF GhostList
  <2>2. c.size["b1"] \div c.size["b2"] \in Int
    BY <2>1
  <2> QED BY <1>2, <1>4, <2>2 DEF Adapted, Larger, Smaller
<1> QED BY <1>3, <1>4 DEF GhostList

-----------------------------------------------------------------------------
(* The inductive invariant *)

\* Between calls nothing is between the lists, and an entry counts the readers
\* that its data has.
ArcIInv ==
    /\ Sound(cache, {})
    /\ held \in [Id -> Nat]
    /\ \A id \in Id : cache.entry[id].usage = held[id]
    /\ cache.t1_target \in 0 .. CacheSize

LEMMA ArcInit == Init => ArcIInv
<1> SUFFICES ASSUME Init PROVE ArcIInv
  OBVIOUS
<1>1. /\ cache.list = [l \in List |-> <<>>] /\ cache.size = [l \in List |-> 0]
      /\ cache.entry = [id \in Id |-> NoEntry] /\ cache.hash = {} /\ cache.t1_target = 0
  BY DEF Init
<1>2. NoEntry \in Entry
  BY DEF NoEntry, Entry
<1>3. cache.list \in [List -> Seq(Id)] /\ cache.size \in [List -> Int]
      /\ cache.entry \in [Id -> Entry]
  BY <1>1, <1>2
<1>4. cache \in Shape
  BY <1>1, <1>3 DEF Init, Shape
<1>5. \A l \in List : Members(cache.list[l]) = {} /\ Injective(cache.list[l])
                      /\ cache.list[l] = <<>> /\ cache.size[l] = 0
  BY <1>1 DEF Members, Injective
<1>6. ASSUME NEW l \in List PROVE ListSound(cache, {}, l) /\ SizeSound(cache, l)
  <2>1. SumFunctionOnSet(Bytes(l), {}) = 0
    BY SumEmpty
  <2> QED BY <1>5, <2>1 DEF ListSound, SizeSound
<1>7. \A l \in GhostList : GhostsSound(cache, l)
  BY <1>5 DEF GhostsSound, List
<1>8. Sound(cache, {})
  BY <1>1, <1>4, <1>6, <1>7 DEF Sound
<1>9. \A id \in Id : cache.entry[id].usage = held[id]
  BY <1>1 DEF Init, NoEntry
<1> QED BY <1>1, <1>8, <1>9, SizesAssumption DEF Init, ArcIInv

\* Where an entry is tells whether its data is in memory; data with readers is.
LEMMA WhereTells ==
    ASSUME ArcIInv, NEW id \in Id
    PROVE  /\ id \in Resident <=> Where(id) \in DataList
           /\ Where(id) \notin List <=> id \notin cache.hash
           /\ held[id] > 0 => Where(id) \in DataList
<1>1. CASE id \in cache.hash
  <2>1. /\ cache.entry[id].where \in List
        /\ id \in Members(cache.list[cache.entry[id].where])
        /\ \A l \in List : id \in Members(cache.list[l]) => cache.entry[id].where = l
    BY <1>1 DEF ArcIInv, Sound, ListSound
  <2>2. Where(id) = cache.entry[id].where
    BY <1>1 DEF Where
  <2>3. id \in Resident <=> Where(id) \in DataList
    BY <2>1, <2>2 DEF Resident, DataList, List
  <2>4. Where(id) \in GhostList => cache.entry[id].usage = 0
    BY <2>1, <2>2 DEF ArcIInv, Sound, GhostsSound
  <2>5. held[id] > 0 => Where(id) \in DataList
    BY <2>1, <2>2, <2>4 DEF ArcIInv, List
  <2> QED BY <1>1, <2>1, <2>2, <2>3, <2>5
<1>2. CASE id \notin cache.hash
  <2>1. Where(id) = "none" /\ "none" \notin List
    BY <1>2 DEF Where, List, DataList, GhostList
  <2>2. \A l \in List : id \notin Members(cache.list[l])
    BY <1>2 DEF ArcIInv, Sound, ListSound
  <2>3. held[id] = 0
    BY <1>2 DEF ArcIInv, Sound, NoEntry
  <2> QED BY <1>2, <2>1, <2>2, <2>3 DEF Resident, List, DataList
<1> QED BY <1>1, <1>2

\* An entry that was made after room was made, and what became of the read.
LEMMA FilledStep ==
    ASSUME ArcIInv, NEW id \in Id, NEW c, NEW l \in DataList,
           Sound(c, {}), EvictsOne(cache, c), id \notin c.hash, id \notin Resident,
           c.t1_target \in 0 .. CacheSize,
           Filled(id, NewEntry(c, l, id))
    PROVE  ArcIInv' /\ (Store!Acquire(id) \/ Store!Fail(id))
<1> DEFINE d == NewEntry(c, l, id)
<1>1. Added(c, l, id, d)
  BY EntryAdded
<1> HIDE DEF d
<1>2. held[id] = 0 /\ held \in [Id -> Nat]
  BY WhereTells DEF ArcIInv
<1>3. \A o \in Id : d.entry[o].usage = IF o = id THEN 1 ELSE held[o]
  BY <1>1 DEF Added, EvictsOne, SameUsage, ArcIInv
<1>4. PICK o \in {{}} \union {{r} : r \in {x \in Res(cache) : cache.entry[x].usage = 0}} :
          Res(c) = Res(cache) \ o
  BY DEF EvictsOne
<1>5. Res(cache) = Resident /\ Resident \subseteq Id
  BY SoundFields DEF Res, Resident, ArcIInv, List, DataList
<1>6. o \in {{}} \union {{x} : x \in Store!Unheld \ {id}}
  BY <1>4, <1>5 DEF ArcIInv, Store!Unheld
<1>7. Res(d) = (Resident \ o) \union {id}
  BY <1>1, <1>4, <1>5 DEF Added
<1>8. CASE cache' = d /\ held' = [held EXCEPT ![id] = @ + 1]
  <2>1. ArcIInv'
    BY <1>1, <1>2, <1>3, <1>8 DEF ArcIInv, Added
  <2>2. Resident' = Res(d)
    BY <1>8 DEF Resident, Res
  <2> QED BY <1>6, <1>7, <1>8, <2>1, <2>2 DEF Store!Acquire, Store!Keep
<1>9. CASE cache' = Unuse(d, id) /\ held' = held
  <2>1. d.entry[id].usage - 1 = 0 /\ 0 \in Nat
    BY <1>3
  <2>2. cache' = [d EXCEPT !.entry[id].usage = 0]
    <3>1. d \in Shape
      BY <1>1 DEF Added, Sound
    <3>2. cache' = [d EXCEPT !.entry[id].usage = d.entry[id].usage - 1]
      BY <1>9, <3>1 DEF Unuse, Shape
    <3> QED BY <2>1, <3>2
  <2>3. /\ Sound(cache', {}) /\ cache'.t1_target = d.t1_target /\ cache'.list = d.list
        /\ \A x \in Id : cache'.entry[x].usage = IF x = id THEN 0 ELSE d.entry[x].usage
    <3>1. Recount(d, id, 0, cache')
      BY <1>1, <2>2, Counted DEF Added
    <3> QED BY <3>1 DEF Recount
  <2>4. ArcIInv'
    BY <1>1, <1>2, <1>3, <1>9, <2>3 DEF ArcIInv, Added
  <2>5. Resident' = Res(d)
    BY <2>3 DEF Resident, Res
  <2> QED BY <1>6, <1>7, <1>9, <2>4, <2>5 DEF Store!Fail, Store!Keep
<1> QED BY <1>8, <1>9 DEF Filled, d

LEMMA HitStep ==
    ASSUME ArcIInv, NEW id \in Id, Hit(id)
    PROVE  ArcIInv' /\ Store!Acquire(id)
<1> DEFINE u == Unlink(cache, id)
           m == InsertMru(u, "t2", id)
           l == cache.entry[id].where
<1>1. /\ Sound(cache, {}) /\ id \in cache.hash /\ l \in DataList /\ l \in List
      /\ id \in Resident /\ held \in [Id -> Nat]
  BY WhereTells DEF Hit, Where, ArcIInv, DataList, List
<1>2. Without(cache, {}, l, id, u)
  BY <1>1, Unlinked
<1> HIDE DEF u, l
<1>3. /\ Sound(u, {id}) /\ u.entry = cache.entry /\ u.hash = cache.hash
      /\ u.t1_target = cache.t1_target
      /\ Members(u.list[l]) = Members(cache.list[l]) \ {id}
      /\ \A k \in List \ {l} : u.list[k] = cache.list[k]
  BY <1>2 DEF Without
<1>4. With(u, {id}, "t2", id, m)
  <2>1. "t2" \in List /\ "t2" \notin GhostList
    BY DEF List, DataList, GhostList
  <2>2. u.entry[id].size = Bytes(l)[id]
    BY <1>1, <1>2, <1>3 DEF Sound, SizeSound, Without
  <2>3. Bytes(l) = Bytes("t2")
    BY <1>1 DEF Bytes, DataList
  <2> QED BY <1>3, <2>1, <2>2, <2>3, PutIn
<1> HIDE DEF m
<1>5. /\ Sound(m, {}) /\ m.entry = [cache.entry EXCEPT ![id].where = "t2"]
      /\ m.hash = cache.hash /\ m.t1_target = cache.t1_target
      /\ Members(m.list["t2"]) = {id} \union Members(u.list["t2"])
      /\ m.list["t1"] = u.list["t1"]
  <2>1. {id} \ {id} = {} /\ "t1" \in List \ {"t2"}
    BY DEF List, DataList
  <2> QED BY <1>3, <1>4, <2>1 DEF With
<1>6. /\ m.entry[id].where = "t2"
      /\ \A o \in Id : m.entry[o].usage = held[o]
  <2>1. cache.entry \in [Id -> Entry]
    BY <1>1 DEF Sound, Shape
  <2> QED BY <1>5, <2>1 DEF ArcIInv, Entry
<1>7. cache' = [m EXCEPT !.entry[id].usage = held[id] + 1]
  <2>1. m \in Shape
    BY <1>5 DEF Sound
  <2>2. cache' = [m EXCEPT !.entry[id].usage = m.entry[id].usage + 1]
    BY <2>1 DEF Hit, m, u, Shape
  <2> QED BY <1>6, <2>2
<1>8. Recount(m, id, held[id] + 1, cache')
  <2>1. held[id] + 1 \in Nat /\ id \in m.hash /\ m.entry[id].where \in DataList
    BY <1>1, <1>5, <1>6 DEF DataList
  <2> QED BY <1>5, <1>7, <2>1, Counted
<1>9. held' = [held EXCEPT ![id] = @ + 1]
  BY DEF Hit
<1>10. ArcIInv'
  BY <1>1, <1>5, <1>6, <1>8, <1>9 DEF ArcIInv, Recount
<1>11. Resident' = Resident \union {id}
  <2>1. Resident' = Members(m.list["t1"]) \union Members(m.list["t2"])
    BY <1>8 DEF Recount, Resident
  <2>2. Resident = Members(u.list["t1"]) \union Members(u.list["t2"]) \union {id}
    BY <1>1, <1>2, <1>3 DEF Resident, Without, List, DataList
  <2> QED BY <1>5, <2>1, <2>2
<1>12. Store!Keep(id)
  <2>1. Resident' = (Resident \ {}) \union {id}
    BY <1>11
  <2> QED BY <2>1, Zenon DEF Store!Keep
<1> QED BY <1>9, <1>10, <1>12 DEF Store!Acquire

LEMMA FetchStep ==
    ASSUME ArcIInv, NEW id \in Id, Fetch(id)
    PROVE  ArcIInv' /\ (Store!Acquire(id) \/ Store!Fail(id))
<1> DEFINE c == MakeRoom(cache)
<1>1. /\ Sound(cache, {}) /\ id \notin cache.hash /\ id \notin Resident
      /\ cache.t1_target \in 0 .. CacheSize
  BY WhereTells DEF ArcIInv, Fetch, List, DataList, GhostList
<1>2. MakesRoom(cache, {}, c)
  BY <1>1, RoomMade
<1>3. Filled(id, NewEntry(c, "t1", id)) /\ "t1" \in DataList
  BY DEF Fetch, DataList
<1> HIDE DEF c
<1>4. /\ Sound(c, {}) /\ EvictsOne(cache, c) /\ id \notin c.hash
      /\ c.t1_target \in 0 .. CacheSize
  BY <1>1, <1>2 DEF MakesRoom
<1> QED BY <1>1, <1>3, <1>4, FilledStep

LEMMA RefetchStep ==
    ASSUME ArcIInv, NEW id \in Id, Refetch(id)
    PROVE  ArcIInv' /\ (Store!Acquire(id) \/ Store!Fail(id))
<1> DEFINE x == Adapted(cache, id)
           a == [cache EXCEPT !.t1_target = x]
           u == Unlink(a, id)
           r == Replace(u)
           c == Remove(r, id)
           l == cache.entry[id].where
<1>1. /\ Sound(cache, {}) /\ id \in cache.hash /\ l \in GhostList /\ l \in List
      /\ id \notin Resident /\ cache.t1_target \in 0 .. CacheSize
      /\ cache.entry[id].usage = 0
  <2>1. id \in cache.hash /\ l \in GhostList /\ l \in List
    BY DEF Refetch, Where, List, DataList, GhostList
  <2>2. id \notin Resident
    BY <2>1, WhereTells DEF Where, GhostList, DataList
  <2>3. held[id] = 0
    BY <2>1, WhereTells DEF Where, GhostList, DataList, ArcIInv
  <2> QED BY <2>1, <2>2, <2>3 DEF ArcIInv
<1>2. x \in 0 .. CacheSize /\ x \in Int
  <2>1. x \in 0 .. CacheSize
    BY <1>1, AdaptedInRange
  <2> QED BY <2>1
<1> HIDE DEF x
<1>3. /\ Sound(a, {}) /\ a.t1_target = x
      /\ a.entry = cache.entry /\ a.hash = cache.hash /\ a.list = cache.list
  BY <1>1, <1>2, Retargeted
<1> HIDE DEF a
<1>4. Without(a, {}, l, id, u)
  BY <1>1, <1>3, Unlinked
<1> HIDE DEF u, l
<1>5. /\ Sound(u, {id}) /\ u.entry = cache.entry /\ u.hash = cache.hash /\ u.t1_target = x
      /\ Res(u) = Res(cache)
  <2>1. \A k \in List \ {l} : u.list[k] = cache.list[k]
    BY <1>3, <1>4 DEF Without
  <2> QED BY <1>1, <1>3, <1>4, <2>1 DEF Without, Res, List, DataList, GhostList
<1>6. MakesRoom(u, {id}, r)
  BY <1>5, Replaced
<1> HIDE DEF r
<1>7. /\ Sound(r, {id}) /\ EvictsOne(u, r) /\ r.t1_target = x
  BY <1>5, <1>6 DEF MakesRoom
<1>8. Less(r, {id}, id, c)
  BY <1>7, Freed
<1> HIDE DEF c
<1>9. /\ Sound(c, {}) /\ c.list = r.list /\ c.t1_target = x /\ id \notin c.hash
      /\ c.entry = [r.entry EXCEPT ![id] = NoEntry]
  <2>1. {id} \ {id} = {}
    OBVIOUS
  <2> QED BY <1>7, <1>8, <2>1 DEF Less
<1>10. EvictsOne(cache, c)
  <2>1. SameUsage(cache, r)
    BY <1>5, <1>7 DEF EvictsOne, SameUsage
  <2>2. SameUsage(cache, c)
    <3>1. r.entry \in [Id -> Entry]
      BY <1>7 DEF Sound, Shape
    <3> QED BY <1>1, <1>9, <2>1, <3>1 DEF SameUsage, NoEntry
  <2>3. Res(c) = Res(r)
    BY <1>9 DEF Res
  <2> QED BY <1>5, <1>7, <2>2, <2>3 DEF EvictsOne
<1>11. Filled(id, NewEntry(c, "t2", id)) /\ "t2" \in DataList
  BY DEF Refetch, DataList, c, r, u, a, x
<1> QED BY <1>1, <1>2, <1>9, <1>10, <1>11, FilledStep

LEMMA FreeStep ==
    ASSUME ArcIInv, NEW id \in Id, Free(id)
    PROVE  ArcIInv' /\ Store!Release(id)
<1>1. /\ Sound(cache, {}) /\ held[id] > 0 /\ held \in [Id -> Nat]
      /\ cache.entry[id].usage = held[id]
  BY DEF ArcIInv, Free
<1>2. id \in cache.hash /\ cache.entry[id].where \in DataList
  BY <1>1, WhereTells DEF Where, DataList
<1>3. cache' = [cache EXCEPT !.entry[id].usage = held[id] - 1]
  <2>1. cache \in Shape
    BY <1>1 DEF Sound
  <2>2. cache' = [cache EXCEPT !.entry[id].usage = cache.entry[id].usage - 1]
    BY <2>1 DEF Free, Unuse, Shape
  <2> QED BY <1>1, <2>2
<1>4. Recount(cache, id, held[id] - 1, cache')
  <2>1. held[id] - 1 \in Nat
    BY <1>1
  <2> QED BY <1>1, <1>2, <1>3, <2>1, Counted
<1>5. held' = [held EXCEPT ![id] = @ - 1]
  BY DEF Free
<1>6. ArcIInv'
  BY <1>1, <1>4, <1>5 DEF ArcIInv, Recount
<1>7. Resident' = Resident
  BY <1>4 DEF Recount, Resident
<1> QED BY <1>1, <1>5, <1>6, <1>7 DEF Store!Release

LEMMA DiscardStep ==
    ASSUME ArcIInv, NEW id \in Id, Discard(id)
    PROVE  ArcIInv' /\ Store!Discard(id)
<1> DEFINE u == Unlink(cache, id)
           l == cache.entry[id].where
<1>1. /\ Sound(cache, {}) /\ held[id] = 1 /\ held \in [Id -> Nat]
      /\ held' = [held EXCEPT ![id] = 0]
  BY DEF ArcIInv, Discard
<1>2. id \in cache.hash /\ l \in DataList /\ l \in List
  BY <1>1, WhereTells DEF Where, DataList, List
<1>3. Without(cache, {}, l, id, u)
  BY <1>1, <1>2, Unlinked
<1> HIDE DEF u, l
<1>4. /\ Sound(u, {id}) /\ u.entry = cache.entry /\ u.t1_target = cache.t1_target
      /\ Res(u) = Res(cache) \ {id}
  <2>1. \A k \in List : id \notin Members(u.list[k])
    BY <1>3 DEF Without, Sound, ListSound
  <2> QED BY <1>2, <1>3, <2>1 DEF Without, Res, List, DataList
<1>5. Less(u, {id}, id, cache')
  BY <1>4, Freed DEF Discard, u
<1>6. /\ Sound(cache', {}) /\ cache'.list = u.list /\ cache'.t1_target = cache.t1_target
      /\ cache'.entry = [cache.entry EXCEPT ![id] = NoEntry]
  <2>1. {id} \ {id} = {}
    OBVIOUS
  <2> QED BY <1>4, <1>5, <2>1 DEF Less
<1>7. \A o \in Id : cache'.entry[o].usage = held'[o]
  <2>1. cache.entry \in [Id -> Entry]
    BY <1>1 DEF Sound, Shape
  <2> QED BY <1>1, <1>6, <2>1 DEF ArcIInv, NoEntry
<1>8. ArcIInv'
  BY <1>1, <1>6, <1>7 DEF ArcIInv
<1>9. Resident' = Resident \ {id}
  BY <1>4, <1>6 DEF Resident, Res
<1> QED BY <1>1, <1>8, <1>9 DEF Store!Discard

LEMMA ArcStep ==
    ASSUME ArcIInv, [Next]_vars
    PROVE  ArcIInv' /\ [Store!Next]_(Store!vars)
<1>1. CASE Next
  <2>1. PICK id \in Id : Hit(id) \/ Refetch(id) \/ Fetch(id) \/ Free(id) \/ Discard(id)
    BY <1>1 DEF Next
  <2>2. ArcIInv' /\ (Store!Acquire(id) \/ Store!Fail(id) \/ Store!Release(id) \/ Store!Discard(id))
    BY <2>1, HitStep, RefetchStep, FetchStep, FreeStep, DiscardStep
  <2> QED BY <2>2 DEF Store!Next
<1>2. CASE UNCHANGED vars
  <2>1. ArcIInv'
    BY <1>2 DEF vars, ArcIInv
  <2>2. UNCHANGED Store!vars
    BY <1>2 DEF vars, Store!vars, Resident
  <2> QED BY <2>1, <2>2
<1> QED BY <1>1, <1>2

\* The inductive invariant holds in every state.
THEOREM ArcIsSound == Spec => []ArcIInv
<1>1. ArcIInv /\ [Next]_vars => ArcIInv'
  BY ArcStep
<1> QED BY ArcInit, <1>1, PTL DEF Spec

-----------------------------------------------------------------------------
(* What follows from it *)

\* The byte counts that cache.c keeps for the lists are the bytes of their entries.
THEOREM ArcBytesAddUp == Spec => []BytesAddUp
<1>1. ArcIInv => BytesAddUp
  BY DEF ArcIInv, Sound, SizeSound, BytesAddUp
<1> QED BY ArcIsSound, <1>1, PTL

\* The cache and the counts of its readers have the types their declarations
\* give them; in particular no list's size is divided by zero.
THEOREM ArcTypeOK == Spec => []TypeOK
<1>1. ArcIInv => TypeOK
  BY DEF ArcIInv, Sound, Shape, TypeOK
<1> QED BY ArcIsSound, <1>1, PTL

\* The hash table and the lists of cache.c agree.
THEOREM ArcHashMatchesLists == Spec => []HashMatchesLists
<1>1. ArcIInv => HashMatchesLists
  <2> SUFFICES ASSUME ArcIInv PROVE HashMatchesLists
    OBVIOUS
  <2>1. \A id \in cache.hash : \E l \in List : id \in Members(cache.list[l])
    BY DEF ArcIInv, Sound
  <2>2. \A l \in List : ListSound(cache, {}, l)
    BY DEF ArcIInv, Sound
  <2>3. cache.hash = UNION {Members(cache.list[l]) : l \in List}
    BY <2>1, <2>2 DEF ListSound
  <2> QED BY <2>2, <2>3 DEF HashMatchesLists, ListSound, Injective
<1> QED BY ArcIsSound, <1>1, PTL

\* Data that a reader of map files has in hand stays in memory, whatever else is
\* read meanwhile.
THEOREM ArcHeldIsResident == Spec => []HeldIsResident
<1>1. ArcIInv => HeldIsResident
  BY WhereTells DEF ArcIInv, HeldIsResident
<1> QED BY ArcIsSound, <1>1, PTL

\* The room meant for t1 is never negative and never more than the cache has.
THEOREM ArcTargetInRange == Spec => []TargetInRange
<1>1. ArcIInv => TargetInRange
  BY DEF ArcIInv, TargetInRange
<1> QED BY ArcIsSound, <1>1, PTL

\* cache.c and file.c implement the store of pinned pieces: each read costs at
\* most one piece in memory, one that no reader has.
THEOREM ArcImplementsStore == Spec => StoreSpec
<1>1. Init => Store!Init
  BY DEF Init, Store!Init, Resident, Members, List, DataList
<1>2. ArcIInv /\ [Next]_vars => [Store!Next]_(Store!vars)
  BY ArcStep
<1> QED BY ArcIsSound, <1>1, <1>2, PTL DEF Spec, StoreSpec, Store!Spec
-----------------------------------------------------------------------------
(* What fits: pieces of one size *)

N(c, l) == Cardinality(Members(c.list[l]))
Data(c) == N(c, "t1") + N(c, "t2")
Ghosts(c) == N(c, "b1") + N(c, "b2")

\* The entries with data, all entries, and their bytes.
Fits(data, ghosts) ==
    /\ LargestPiece * data < CacheSize + LargestPiece
    /\ EntrySize * (data + ghosts) < 2 * (CacheSize + EntrySize)
    /\ EntrySize * (data + ghosts) + LargestData * data
         < 2 * (CacheSize + EntrySize) + MaxHeld * LargestData

\* All pieces have the size of the largest.
LEMMA OneSize ==
    ASSUME EqualPieces
    PROVE  /\ LargestData \in Nat \ {0} /\ LargestPiece = EntrySize + LargestData
           /\ EntrySize \in Nat \ {0} /\ CacheSize \in Nat /\ MaxHeld \in Nat
           /\ LargestPiece \in Nat \ {0}
           /\ \A id \in Id : DataSize[id] = LargestData
<1>1. PICK n \in Nat : {DataSize[id] : id \in Id} = {n}
  BY DEF EqualPieces
<1>2. LargestData = n
  BY <1>1 DEF LargestData, Max
<1>3. \A id \in Id : DataSize[id] = n
  BY <1>1
<1>4. \E id \in Id : TRUE
  BY <1>1
<1>5. n # 0
  BY <1>3, <1>4, SizesAssumption
<1> QED BY <1>2, <1>3, <1>5, SizesAssumption DEF LargestPiece

\* So the sizes of the lists count their entries.
LEMMA SizesCount ==
    ASSUME EqualPieces, NEW c, NEW out, Sound(c, out)
    PROVE  /\ \A l \in List : /\ N(c, l) \in Nat /\ IsFiniteSet(Members(c.list[l]))
                              /\ Members(c.list[l]) \subseteq Id
           /\ \A l \in DataList : c.size[l] = LargestPiece * N(c, l)
           /\ \A l \in GhostList : c.size[l] = EntrySize * N(c, l)
<1>1. ASSUME NEW l \in List
      PROVE  /\ N(c, l) \in Nat /\ IsFiniteSet(Members(c.list[l]))
             /\ Members(c.list[l]) \subseteq Id
  BY SoundFields, BytesType, FS_CardinalityType DEF N
<1>2. ASSUME NEW l \in DataList PROVE c.size[l] = LargestPiece * N(c, l)
  <2>1. l \in List /\ c.size[l] = SumFunctionOnSet(Bytes(l), Members(c.list[l]))
    BY DEF Sound, SizeSound, List
  <2>2. \A id \in Members(c.list[l]) : Bytes(l)[id] = LargestPiece
    BY <1>1, <2>1, OneSize DEF Bytes
  <2>3. LargestPiece \in Int
    BY OneSize
  <2> QED BY <1>1, <2>1, <2>2, <2>3, SumConstant DEF N
<1>3. ASSUME NEW l \in GhostList PROVE c.size[l] = EntrySize * N(c, l)
  <2>1. l \in List /\ c.size[l] = SumFunctionOnSet(Bytes(l), Members(c.list[l]))
    BY DEF Sound, SizeSound, List
  <2>2. \A id \in Members(c.list[l]) : Bytes(l)[id] = EntrySize
    BY <1>1, <2>1 DEF Bytes, GhostList, DataList
  <2>3. EntrySize \in Int
    BY OneSize
  <2> QED BY <1>1, <2>1, <2>2, <2>3, SumConstant DEF N
<1> QED BY <1>1, <1>2, <1>3

\* A reader that may hold one more piece finds fewer with readers.
LEMMA FewUsed ==
    ASSUME ArcIInv, MayHold, NEW T \in SUBSET Id,
           \A id \in T : cache.entry[id].usage # 0
    PROVE  Cardinality(T) \in Nat /\ Cardinality(T) <= MaxHeld - 1
<1>1. IsFiniteSet(Id) /\ MaxHeld \in Nat /\ IsFiniteSet(T) /\ Cardinality(T) \in Nat
  BY SizesAssumption, FS_Subset, FS_CardinalityType
<1>2. \A id \in Id : held[id] \in Nat /\ held[id] = cache.entry[id].usage
  BY DEF ArcIInv
<1>3. \A id \in T : held[id] >= 1
  BY <1>2
<1>4. Cardinality(T) <= SumFunctionOnSet(held, Id)
  BY <1>1, <1>2, <1>3, SumCounts
<1>5. SumFunctionOnSet(held, Id) \in Int
  BY <1>1, <1>2, SumTake
<1> QED BY <1>1, <1>4, <1>5 DEF MayHold

\* When no entry with data may be thrown out, readers have all of them.
LEMMA AllUsed ==
    ASSUME EqualPieces, ArcIInv, MayHold, NEW c, NEW out, Sound(c, out), SameUsage(cache, c),
           \A l \in DataList : Unused(c, l) = {}
    PROVE  Data(c) \in Nat /\ Data(c) <= MaxHeld - 1
<1> DEFINE A == Members(c.list["t1"])
           B == Members(c.list["t2"])
<1>1. /\ IsFiniteSet(A) /\ IsFiniteSet(B) /\ A \subseteq Id /\ B \subseteq Id
      /\ N(c, "t1") \in Nat /\ N(c, "t2") \in Nat
  BY SizesCount DEF List, DataList
<1>2. A \cap B = {}
  <2>1. ListSound(c, out, "t1") /\ ListSound(c, out, "t2")
    BY DEF Sound, List, DataList
  <2> QED BY <2>1 DEF ListSound
<1>3. \A id \in A \union B : c.entry[id].usage # 0
  BY DEF Unused, Members, DataList
<1>4. \A id \in A \union B : cache.entry[id].usage # 0
  BY <1>1, <1>3 DEF SameUsage
<1>5. Cardinality(A \union B) <= MaxHeld - 1
  BY <1>1, <1>4, FewUsed
<1>6. Cardinality(A \union B) = Cardinality(A) + Cardinality(B) - Cardinality(A \cap B)
  BY <1>1, FS_Union
<1>7. Cardinality(A \cap B) = 0
  BY <1>2, FS_EmptySet
<1> QED BY <1>1, <1>5, <1>6, <1>7 DEF Data, N

\* What a shift and a drop do to the numbers of entries.
LEMMA ShiftCounts ==
    ASSUME EqualPieces, NEW c, NEW d, NEW out, Sound(c, out), NEW l \in DataList,
           Shifts(c, d, l, GhostsOf[l])
    PROVE  /\ Data(d) = Data(c) - 1 /\ Ghosts(d) = Ghosts(c) + 1
<1> DEFINE g == GhostsOf[l]
<1>1. l \in List /\ g \in List /\ g \in GhostList
  BY DEF DataList, GhostList, List, GhostsOf
<1>2. \A k \in List : N(c, k) \in Nat /\ IsFiniteSet(Members(c.list[k]))
  BY SizesCount
<1>3. PICK id \in Members(c.list[l]) \ Members(c.list[g]) :
          /\ Members(d.list[l]) = Members(c.list[l]) \ {id}
          /\ Members(d.list[g]) = Members(c.list[g]) \union {id}
  BY DEF Shifts
<1>4. \A k \in List \ {l, g} : N(d, k) = N(c, k)
  BY DEF Shifts, N
<1> HIDE DEF g
<1>5. N(d, l) = N(c, l) - 1
  <2>1. IsFiniteSet(Members(c.list[l])) /\ id \in Members(c.list[l])
    BY <1>1, <1>2, <1>3
  <2>2. Cardinality(Members(c.list[l]) \ {id}) = Cardinality(Members(c.list[l])) - 1
    BY <2>1, FS_RemoveElement
  <2> QED BY <1>3, <2>2 DEF N
<1>6. N(d, g) = N(c, g) + 1
  BY <1>1, <1>2, <1>3, FS_AddElement DEF N
<1>7. CASE l = "t1"
  <2>1. g = "b1"
    BY <1>7 DEF g, GhostsOf, DataList
  <2>2. N(d, "t2") = N(c, "t2") /\ N(d, "b2") = N(c, "b2")
    BY <1>4, <1>7, <2>1 DEF List, DataList, GhostList
  <2> QED BY <1>2, <1>5, <1>6, <1>7, <2>1, <2>2 DEF Data, Ghosts, List, DataList, GhostList
<1>8. CASE l = "t2"
  <2>1. g = "b2"
    BY <1>8 DEF g, GhostsOf, DataList
  <2>2. N(d, "t1") = N(c, "t1") /\ N(d, "b1") = N(c, "b1")
    BY <1>4, <1>8, <2>1 DEF List, DataList, GhostList
  <2> QED BY <1>2, <1>5, <1>6, <1>8, <2>1, <2>2 DEF Data, Ghosts, List, DataList, GhostList
<1> QED BY <1>7, <1>8 DEF DataList

\* ... and what leaves a list.
LEMMA DropCounts ==
    ASSUME EqualPieces, NEW c, NEW d, NEW out, Sound(c, out), NEW l \in List, Drops(c, d, l)
    PROVE  /\ N(d, l) = N(c, l) - 1 /\ \A k \in List \ {l} : N(d, k) = N(c, k)
           /\ l \in DataList => Data(d) = Data(c) - 1 /\ Ghosts(d) = Ghosts(c)
           /\ l \in GhostList => Data(d) = Data(c) /\ Ghosts(d) = Ghosts(c) - 1
<1>1. \A k \in List : N(c, k) \in Nat /\ IsFiniteSet(Members(c.list[k]))
  BY SizesCount
<1>2. N(d, l) = N(c, l) - 1
  <2>1. PICK id \in Members(c.list[l]) : Members(d.list[l]) = Members(c.list[l]) \ {id}
    BY DEF Drops
  <2>2. IsFiniteSet(Members(c.list[l]))
    BY <1>1
  <2>3. Cardinality(Members(c.list[l]) \ {id}) = Cardinality(Members(c.list[l])) - 1
    BY <2>1, <2>2, FS_RemoveElement
  <2> QED BY <2>1, <2>3 DEF N
<1>3. \A k \in List \ {l} : N(d, k) = N(c, k)
  BY DEF Drops, N
<1> QED BY <1>1, <1>2, <1>3 DEF Data, Ghosts, List, DataList, GhostList

\* What room was made for a piece, by the numbers of entries before and after it
\* is in a list. Every entry with data counts as LargestPiece bytes, others as
\* EntrySize.
Outcome(data, ghosts, data2, ghosts2) ==
    \/ data2 = data /\ ghosts2 = ghosts
    \/ /\ data2 = data + 1 /\ ghosts2 = ghosts - 1
       /\ data <= MaxHeld - 1
    \/ /\ data2 = data /\ ghosts2 = ghosts + 1
       /\ \/ LargestPiece * data + EntrySize * ghosts < 2 * CacheSize
          \/ LargestPiece * data + EntrySize * ghosts < 2 * CacheSize + LargestPiece - 1
             /\ EntrySize * (data + ghosts) < 2 * CacheSize + EntrySize
    \/ /\ data2 = data + 1 /\ ghosts2 = ghosts
       /\ \/ data <= MaxHeld - 1
             /\ LargestPiece * data + EntrySize * ghosts < 2 * CacheSize
          \/ LargestPiece * data + EntrySize * ghosts < CacheSize

\* Each of these keeps what fits.
LEMMA OutcomeFits ==
    ASSUME EqualPieces, FewReaders, MaxHeld > 0,
           NEW data \in Nat, NEW ghosts \in Nat, NEW data2 \in Nat, NEW ghosts2 \in Nat,
           Fits(data, ghosts), Outcome(data, ghosts, data2, ghosts2)
    PROVE  Fits(data2, ghosts2)
<1> DEFINE w == LargestPiece
           e == EntrySize
           v == LargestData
           C == CacheSize
           H == MaxHeld
<1>1. /\ e \in Nat \ {0} /\ v \in Nat \ {0} /\ w \in Nat /\ w = e + v /\ C \in Nat
      /\ H \in Nat \ {0} /\ (H - 1) * w < C
  BY OneSize DEF FewReaders
<1>2. /\ w * data < C + w /\ e * (data + ghosts) < 2 * (C + e)
      /\ e * (data + ghosts) + v * data < 2 * (C + e) + H * v
  BY DEF Fits
<1>3. w * data + e * ghosts = e * (data + ghosts) + v * data
  BY <1>1
<1>4. \/ data2 = data /\ ghosts2 = ghosts
      \/ data2 = data + 1 /\ ghosts2 = ghosts - 1 /\ data <= H - 1
      \/ /\ data2 = data /\ ghosts2 = ghosts + 1
         /\ \/ w * data + e * ghosts < 2 * C
            \/ w * data + e * ghosts < 2 * C + w - 1 /\ e * (data + ghosts) < 2 * C + e
      \/ /\ data2 = data + 1 /\ ghosts2 = ghosts
         /\ \/ data <= H - 1 /\ w * data + e * ghosts < 2 * C
            \/ w * data + e * ghosts < C
  BY DEF Outcome
<1> HIDE DEF w, e, v, C, H
<1>5. /\ e * data \in Nat /\ e * ghosts \in Nat /\ v * data \in Nat /\ w * data \in Nat
      /\ e * (data + ghosts) = e * data + e * ghosts
      /\ w * data = e * data + v * data
  BY <1>1
<1>6. v * H \in Nat /\ H * v >= v
  BY <1>1
<1>7. data <= H - 1 => w * data < C
  <2>1. data <= H - 1 => w * data <= w * (H - 1)
    BY <1>1, TimesMonotone
  <2> QED BY <1>1, <2>1
<1>8. data <= H - 1 => v * (data + 1) <= H * v
  <2>1. data + 1 <= H => v * (data + 1) <= v * H
    BY <1>1, TimesMonotone
  <2> QED BY <1>1, <2>1
<1>9. CASE data2 = data /\ ghosts2 = ghosts
  BY <1>9
<1>10. CASE data2 = data + 1 /\ ghosts2 = ghosts - 1 /\ data <= H - 1
  <2>1. w * data2 = w * data + w /\ v * data2 = v * (data + 1) /\ data2 + ghosts2 = data + ghosts
    BY <1>1, <1>10
  <2>2. w * data2 < C + w /\ e * (data2 + ghosts2) < 2 * (C + e)
    BY <1>1, <1>2, <1>7, <1>10, <2>1
  <2>3. e * (data2 + ghosts2) + v * data2 < 2 * (C + e) + H * v
    BY <1>1, <1>2, <1>5, <1>8, <1>10, <2>1
  <2> QED BY <2>2, <2>3 DEF Fits, w, e, v, C, H
<1>11. CASE /\ data2 = data /\ ghosts2 = ghosts + 1
            /\ \/ w * data + e * ghosts < 2 * C
               \/ w * data + e * ghosts < 2 * C + w - 1 /\ e * (data + ghosts) < 2 * C + e
  <2>1. e * (data2 + ghosts2) = e * (data + ghosts) + e
    BY <1>1, <1>11
  <2>2. w * data2 < C + w
    BY <1>2, <1>11
  <2>3. e * (data2 + ghosts2) < 2 * (C + e)
    BY <1>1, <1>3, <1>5, <1>11, <2>1
  <2>4. e * (data2 + ghosts2) + v * data2 < 2 * (C + e) + H * v
    BY <1>1, <1>3, <1>5, <1>6, <1>11, <2>1
  <2> QED BY <2>2, <2>3, <2>4 DEF Fits, w, e, v, C, H
<1>12. CASE /\ data2 = data + 1 /\ ghosts2 = ghosts
            /\ \/ data <= H - 1 /\ w * data + e * ghosts < 2 * C
               \/ w * data + e * ghosts < C
  <2>1. /\ e * (data2 + ghosts2) = e * (data + ghosts) + e
        /\ w * data2 = w * data + w /\ v * data2 = v * data + v
    BY <1>1, <1>12
  <2>2. w * data2 < C + w
    BY <1>1, <1>5, <1>7, <1>12, <2>1
  <2>3. e * (data2 + ghosts2) < 2 * (C + e)
    BY <1>1, <1>3, <1>5, <1>12, <2>1
  <2>4. e * (data2 + ghosts2) + v * data2 < 2 * (C + e) + H * v
    BY <1>1, <1>3, <1>5, <1>6, <1>12, <2>1
  <2> QED BY <2>2, <2>3, <2>4 DEF Fits, w, e, v, C, H
<1> QED BY <1>4, <1>9, <1>10, <1>11, <1>12

\* A call of cache_replace, after which the piece is put in: an entry with data
\* makes way for it unless readers have all.
LEMMA ReplaceCounts ==
    ASSUME EqualPieces, ArcIInv, MayHold, NEW c, NEW out, Sound(c, out), SameUsage(cache, c)
    PROVE  LET d == Replace(c) IN
           /\ Data(c) \in Nat /\ Ghosts(c) \in Nat
           /\ \/ Data(d) = Data(c) - 1 /\ Ghosts(d) = Ghosts(c) + 1
              \/ Data(d) = Data(c) /\ Ghosts(d) = Ghosts(c) /\ Data(c) <= MaxHeld - 1
<1> DEFINE d == Replace(c)
<1>1. Data(c) \in Nat /\ Ghosts(c) \in Nat
  BY SizesCount DEF Data, Ghosts, List, DataList, GhostList
<1>2. \/ \E l \in DataList : Shifts(c, d, l, GhostsOf[l])
      \/ d = c /\ \A l \in DataList : Unused(c, l) = {}
  BY Replaced
<1> HIDE DEF d
<1>3. ASSUME \E l \in DataList : Shifts(c, d, l, GhostsOf[l])
      PROVE  Data(d) = Data(c) - 1 /\ Ghosts(d) = Ghosts(c) + 1
  BY <1>3, ShiftCounts
<1>4. ASSUME d = c /\ \A l \in DataList : Unused(c, l) = {}
      PROVE  Data(d) = Data(c) /\ Ghosts(d) = Ghosts(c) /\ Data(c) <= MaxHeld - 1
  BY <1>4, AllUsed
<1> QED BY <1>1, <1>2, <1>3, <1>4 DEF d

\* A call of cache_replace after a ghost was forgotten.
LEMMA ForgetCounts ==
    ASSUME EqualPieces, ArcIInv, MayHold, NEW l \in GhostList, N(cache, l) # 0
    PROVE  LET d == Replace(RemoveLru(cache, l)) IN
           /\ Data(d) \in Nat /\ Ghosts(d) \in Nat
           /\ \/ Data(d) + 1 = Data(cache) /\ Ghosts(d) = Ghosts(cache)
              \/ Data(d) = Data(cache) /\ Ghosts(d) = Ghosts(cache) - 1 /\ Data(cache) <= MaxHeld - 1
<1> DEFINE r == RemoveLru(cache, l)
<1>1. l \in List /\ Sound(cache, {})
  BY DEF List, ArcIInv
<1>2. Unused(cache, l) # {}
  <2>1. \A o \in Members(cache.list[l]) : cache.entry[o].usage = 0
    BY <1>1 DEF Sound, GhostsSound
  <2>2. Members(cache.list[l]) # {}
    BY FS_EmptySet DEF N
  <2> QED BY <2>1, <2>2 DEF Unused, Members
<1>3. MakesRoom(cache, {}, r) /\ Drops(cache, r, l)
  BY <1>1, <1>2, LruRemoved
<1> HIDE DEF r
<1>4. Sound(r, {}) /\ SameUsage(cache, r)
  BY <1>3 DEF MakesRoom, EvictsOne
<1>5. Data(r) = Data(cache) /\ Ghosts(r) = Ghosts(cache) - 1
  BY <1>1, <1>3, DropCounts
<1>6. /\ Data(r) \in Nat /\ Ghosts(r) \in Nat
      /\ \/ Data(Replace(r)) = Data(r) - 1 /\ Ghosts(Replace(r)) = Ghosts(r) + 1
         \/ Data(Replace(r)) = Data(r) /\ Ghosts(Replace(r)) = Ghosts(r) /\ Data(r) <= MaxHeld - 1
  BY <1>4, ReplaceCounts
<1>7. Ghosts(cache) \in Nat
  BY <1>1, SizesCount DEF Ghosts, List, GhostList
<1>8. Sound(Replace(r), {})
  BY <1>4, Replaced DEF MakesRoom
<1>9. Data(Replace(r)) \in Nat /\ Ghosts(Replace(r)) \in Nat
  BY <1>8, SizesCount DEF Data, Ghosts, List, DataList, GhostList
<1> QED BY <1>5, <1>6, <1>7, <1>9 DEF r

\* What cache_insert does to make room for a new piece.
LEMMA FetchOutcome ==
    ASSUME EqualPieces, FewReaders, ArcIInv, MayHold, Fits(Data(cache), Ghosts(cache))
    PROVE  LET d == MakeRoom(cache) IN
           Outcome(Data(cache), Ghosts(cache), Data(d) + 1, Ghosts(d))
<1> DEFINE d == MakeRoom(cache)
           n1 == N(cache, "t1")
           n2 == N(cache, "t2")
           m1 == N(cache, "b1")
           m2 == N(cache, "b2")
           w == LargestPiece
           e == EntrySize
           C == CacheSize
           P == Outcome(n1 + n2, m1 + m2, Data(d) + 1, Ghosts(d))
           t1 == cache.size["t1"]
           b1 == cache.size["b1"]
<1> SUFFICES P
  BY DEF Data, Ghosts
<1>0. Data(cache) = n1 + n2 /\ Ghosts(cache) = m1 + m2
  BY DEF Data, Ghosts
<1>1. Sound(cache, {}) /\ SameUsage(cache, cache)
  BY DEF ArcIInv, SameUsage
<1>2. /\ n1 \in Nat /\ n2 \in Nat /\ m1 \in Nat /\ m2 \in Nat
      /\ t1 = w * n1 /\ cache.size["t2"] = w * n2
      /\ b1 = e * m1 /\ cache.size["b2"] = e * m2
  BY <1>1, SizesCount DEF List, DataList, GhostList
<1>3. /\ w \in Nat \ {0} /\ e \in Nat \ {0} /\ C \in Nat /\ w > e /\ MaxHeld \in Nat
      /\ (MaxHeld - 1) * w < C
  BY OneSize DEF FewReaders
<1>4. /\ w * n1 \in Nat /\ w * n2 \in Nat /\ e * m1 \in Nat /\ e * m2 \in Nat
      /\ w * (n1 + n2) = w * n1 + w * n2 /\ e * (m1 + m2) = e * m1 + e * m2
      /\ Total(cache) = w * n1 + w * n2 + e * m1 + e * m2
  BY <1>2, <1>3 DEF Total
<1>5. w * (n1 + n2) < C + w
  BY DEF Fits, Data
\* An entry that is forgotten makes way for another.
<1>6. ASSUME NEW l \in GhostList, N(cache, l) # 0, d = Replace(RemoveLru(cache, l))
      PROVE  \/ Data(d) + 1 = n1 + n2 /\ Ghosts(d) = m1 + m2
             \/ Data(d) = n1 + n2 /\ Ghosts(d) = m1 + m2 - 1 /\ n1 + n2 <= MaxHeld - 1
  <2>1. /\ \/ Data(d) + 1 = Data(cache) /\ Ghosts(d) = Ghosts(cache)
           \/ Data(d) = Data(cache) /\ Ghosts(d) = Ghosts(cache) - 1 /\ Data(cache) <= MaxHeld - 1
    <3> HIDE DEF d
    <3> QED BY <1>6, ForgetCounts
  <2> QED BY <1>0, <1>2, <2>1
<1>7. \/ Data(Replace(cache)) + 1 = n1 + n2 /\ Ghosts(Replace(cache)) = m1 + m2 + 1
         /\ n1 + n2 > 0
      \/ Data(Replace(cache)) = n1 + n2 /\ Ghosts(Replace(cache)) = m1 + m2
         /\ n1 + n2 <= MaxHeld - 1
  <2>1. \/ Data(Replace(cache)) = n1 + n2 - 1 /\ Ghosts(Replace(cache)) = m1 + m2 + 1
        \/ Data(Replace(cache)) = n1 + n2 /\ Ghosts(Replace(cache)) = m1 + m2
           /\ n1 + n2 <= MaxHeld - 1
    <3>1. /\ \/ Data(Replace(cache)) = Data(cache) - 1 /\ Ghosts(Replace(cache)) = Ghosts(cache) + 1
             \/ Data(Replace(cache)) = Data(cache) /\ Ghosts(Replace(cache)) = Ghosts(cache)
                /\ Data(cache) <= MaxHeld - 1
      BY <1>1, ReplaceCounts
    <3> QED BY <1>0, <1>2, <3>1
  <2>2. Data(Replace(cache)) \in Nat
    <3>1. Sound(Replace(cache), {})
      BY <1>1, Replaced DEF MakesRoom
    <3> QED BY <3>1, SizesCount DEF Data, List, DataList
  <2> QED BY <1>2, <2>1, <2>2
<1>8. n1 + n2 <= MaxHeld - 1 => w * n1 + w * n2 < C
  <2>1. n1 + n2 <= MaxHeld - 1 => w * (n1 + n2) <= w * (MaxHeld - 1)
    BY <1>2, <1>3, TimesMonotone
  <2> QED BY <1>2, <1>3, <1>4, <2>1
<1> HIDE DEF d, n1, n2, m1, m2, w, e, C, t1, b1
<1>9. CASE t1 + b1 >= C /\ t1 < C
  <2>1. d = Replace(RemoveLru(cache, "b1"))
    BY <1>9 DEF d, MakeRoom, t1, b1, C
  <2>2. m1 # 0
    BY <1>2, <1>3, <1>9
  <2>3. \/ Data(d) + 1 = n1 + n2 /\ Ghosts(d) = m1 + m2
        \/ Data(d) = n1 + n2 /\ Ghosts(d) = m1 + m2 - 1 /\ n1 + n2 <= MaxHeld - 1
    BY <1>6, <2>1, <2>2 DEF GhostList, m1
  <2> QED BY <1>2, <2>3 DEF Outcome
<1>10. CASE t1 >= C
  <2>1. d = RemoveLru(cache, "t1")
    <3>1. t1 + b1 >= C /\ ~ (t1 < C)
      BY <1>2, <1>3, <1>4, <1>10
    <3> QED BY <3>1 DEF d, MakeRoom, t1, b1, C
  <2>2. Unused(cache, "t1") # {}
    <3> SUFFICES ASSUME Unused(cache, "t1") = {} PROVE FALSE
      OBVIOUS
    <3>1. \A id \in Members(cache.list["t1"]) : cache.entry[id].usage # 0
      BY DEF Unused, Members
    <3>2. Members(cache.list["t1"]) \in SUBSET Id
      BY <1>1, SoundFields DEF List, DataList
    <3>3. n1 <= MaxHeld - 1
      BY <3>1, <3>2, FewUsed DEF N, n1
    <3>4. w * n1 <= w * (MaxHeld - 1)
      BY <1>2, <1>3, <3>3, TimesMonotone
    <3> QED BY <1>2, <1>3, <1>10, <3>4
  <2>3. Drops(cache, d, "t1")
    BY <1>1, <2>1, <2>2, LruRemoved DEF List, DataList
  <2>4. Data(d) = n1 + n2 - 1 /\ Ghosts(d) = m1 + m2
    <3>1. "t1" \in List /\ "t1" \in DataList
      BY DEF List, DataList
    <3>2. Data(d) = Data(cache) - 1 /\ Ghosts(d) = Ghosts(cache)
      BY <1>1, <2>3, <3>1, DropCounts
    <3> QED BY <1>0, <1>2, <3>2
  <2> QED BY <1>2, <2>4 DEF Outcome
<1>11. CASE t1 + b1 < C /\ Total(cache) >= 2 * C
  <2>1. d = Replace(RemoveLru(cache, "b2"))
    <3>1. Total(cache) >= C /\ ~ (t1 + b1 >= C)
      BY <1>2, <1>3, <1>4, <1>11
    <3> QED BY <1>11, <3>1 DEF d, MakeRoom, t1, b1, C
  <2>2. CASE m2 # 0
    <3>1. \/ Data(d) + 1 = n1 + n2 /\ Ghosts(d) = m1 + m2
          \/ Data(d) = n1 + n2 /\ Ghosts(d) = m1 + m2 - 1 /\ n1 + n2 <= MaxHeld - 1
      BY <1>6, <2>1, <2>2 DEF GhostList, m2
    <3> QED BY <1>2, <3>1 DEF Outcome
  <2>3. CASE m2 = 0
    <3>1. RemoveLru(cache, "b2") = cache
      <4>1. Members(cache.list["b2"]) = {}
        BY <1>1, <2>3, SizesCount, FS_EmptySet DEF N, m2, List, GhostList
      <4>2. Unused(cache, "b2") = {}
        BY <4>1 DEF Unused, Members
      <4> QED BY <4>2 DEF RemoveLru
    <3>2. e * m2 = 0
      BY <1>3, <2>3
    <3>3. ~ (n1 + n2 <= MaxHeld - 1)
      BY <1>2, <1>3, <1>4, <1>8, <1>11, <3>2
    <3>4. Data(d) + 1 = n1 + n2 /\ Ghosts(d) = m1 + m2 + 1 /\ n1 + n2 > 0
      BY <1>7, <2>1, <3>1, <3>3
    <3>5. w * (n1 + n2) + e * (m1 + m2) < 2 * C + w - 1
      BY <1>2, <1>3, <1>4, <1>5, <1>11, <3>2
    <3>6. e * n1 <= w * n1 /\ e * n1 \in Nat
      BY <1>2, <1>3, TimesMonotone
    <3>7. e * n2 < C + e
      <4>1. CASE n2 = 0
        BY <1>3, <4>1
      <4>2. CASE n2 > 0
        <5>1. e * (n2 - 1) <= w * (n2 - 1) /\ w * (n2 - 1) = w * n2 - w
              /\ e * (n2 - 1) = e * n2 - e
          BY <1>2, <1>3, <4>2, TimesMonotone
        <5>2. w * n2 < C + w
          BY <1>2, <1>3, <1>4, <1>5
        <5>3. e * n2 \in Nat
          BY <1>2, <1>3
        <5> QED BY <1>3, <1>4, <5>1, <5>2, <5>3
      <4> QED BY <1>2, <4>1, <4>2
    <3>8. e * (n1 + n2 + (m1 + m2)) = e * n1 + e * n2 + e * m1 + e * m2
      BY <1>2, <1>3
    <3>9. e * (n1 + n2 + (m1 + m2)) < 2 * C + e
      <4>1. e * n1 + e * m1 < C
        BY <1>2, <1>3, <1>4, <1>11, <3>6
      <4>2. e * n2 \in Nat
        BY <1>2, <1>3
      <4> QED BY <1>3, <1>4, <3>2, <3>6, <3>7, <3>8, <4>1, <4>2
    <3> QED BY <1>2, <3>4, <3>5, <3>9 DEF Outcome, w, e, C
  <2> QED BY <2>2, <2>3
<1>12. CASE t1 + b1 < C /\ Total(cache) < 2 * C /\ Total(cache) >= C
  <2>1. d = Replace(cache)
    <3>1. ~ (t1 + b1 >= C) /\ ~ (Total(cache) >= 2 * C)
      BY <1>2, <1>3, <1>4, <1>12
    <3> QED BY <1>12, <3>1 DEF d, MakeRoom, t1, b1, C
  <2>2. w * (n1 + n2) + e * (m1 + m2) < 2 * C
    BY <1>3, <1>4, <1>12
  <2> QED BY <1>2, <1>7, <2>1, <2>2 DEF Outcome, w, e, C
<1>13. CASE t1 + b1 < C /\ Total(cache) < C
  <2>1. d = cache
    <3>1. ~ (t1 + b1 >= C) /\ ~ (Total(cache) >= C)
      BY <1>2, <1>3, <1>4, <1>13
    <3> QED BY <3>1 DEF d, MakeRoom, t1, b1, C
  <2>2. Data(d) = n1 + n2 /\ Ghosts(d) = m1 + m2
    BY <2>1 DEF Data, Ghosts, n1, n2, m1, m2
  <2>3. w * (n1 + n2) + e * (m1 + m2) < C
    BY <1>3, <1>4, <1>13
  <2> QED BY <1>2, <2>2, <2>3 DEF Outcome, w, e, C
<1>14. t1 \in Nat /\ b1 \in Nat /\ Total(cache) \in Nat /\ C \in Nat
  BY <1>2, <1>3, <1>4
<1> QED BY <1>9, <1>10, <1>11, <1>12, <1>13, <1>14

\* The new entry is one more with data, read or not.
LEMMA FilledCounts ==
    ASSUME EqualPieces, NEW c, Sound(c, {}), NEW id \in Id \ c.hash, NEW l \in DataList,
           Filled(id, NewEntry(c, l, id))
    PROVE  Data(cache') = Data(c) + 1 /\ Ghosts(cache') = Ghosts(c)
<1> DEFINE d == NewEntry(c, l, id)
<1>1. Added(c, l, id, d)
  BY EntryAdded
<1>2. cache' = d \/ cache' = Unuse(d, id)
  BY DEF Filled
<1> HIDE DEF d
<1>2a. cache'.list = d.list
  <2>1. d \in Shape
    BY <1>1 DEF Added, Sound
  <2>2. Unuse(d, id).list = d.list
    BY <2>1 DEF Unuse, Shape
  <2> QED BY <1>2, <2>2
<1>3. l \in List /\ \A k \in List : N(c, k) \in Nat /\ IsFiniteSet(Members(c.list[k]))
  BY SizesCount DEF List
<1>4. /\ id \notin Members(c.list[l]) /\ Members(cache'.list[l]) = Members(c.list[l]) \union {id}
      /\ \A k \in List \ {l} : cache'.list[k] = c.list[k]
  BY <1>1, <1>2a DEF Added
<1>5. N(cache', l) = N(c, l) + 1
  BY <1>3, <1>4, FS_AddElement DEF N
<1>6. \A k \in List \ {l} : N(cache', k) = N(c, k)
  BY <1>4 DEF N
<1>7. Data(cache') = Data(c) + 1
  <2>1. CASE l = "t1"
    BY <1>3, <1>5, <1>6, <2>1 DEF Data, List, DataList, GhostList
  <2>2. CASE l = "t2"
    BY <1>3, <1>5, <1>6, <2>2 DEF Data, List, DataList, GhostList
  <2> QED BY <2>1, <2>2 DEF DataList
<1>8. Ghosts(cache') = Ghosts(c)
  BY <1>6 DEF Ghosts, List, DataList, GhostList
<1> QED BY <1>7, <1>8

\* What fits, in a state.
FitsNow == Fits(Data(cache), Ghosts(cache))

\* A reader that may take a piece may hold one.
LEMMA RoomToHold ==
    ASSUME ArcIInv, MayHold
    PROVE  MaxHeld > 0
<1>1. {} \in SUBSET Id /\ Cardinality({}) = 0
  BY FS_EmptySet
<1>2. Cardinality({}) <= MaxHeld - 1
  BY <1>1, FewUsed
<1> QED BY <1>1, <1>2, SizesAssumption

\* A piece that is read for the first time.
LEMMA FetchFits ==
    ASSUME EqualPieces, FewReaders, ArcIInv, FitsNow, NEW id \in Id, Fetch(id)
    PROVE  FitsNow'
<1> DEFINE c == MakeRoom(cache)
<1>1. Sound(cache, {}) /\ id \notin cache.hash /\ MayHold
  BY WhereTells DEF ArcIInv, Fetch, List, DataList, GhostList
<1>2. MakesRoom(cache, {}, c)
  BY <1>1, RoomMade
<1>3. Filled(id, NewEntry(c, "t1", id)) /\ "t1" \in DataList
  BY DEF Fetch, DataList
<1>4. Outcome(Data(cache), Ghosts(cache), Data(c) + 1, Ghosts(c))
  BY <1>1, FetchOutcome DEF FitsNow
<1> HIDE DEF c
<1>5. Sound(c, {}) /\ id \in Id \ c.hash
  BY <1>1, <1>2 DEF MakesRoom
<1>6. Data(cache') = Data(c) + 1 /\ Ghosts(cache') = Ghosts(c)
  BY <1>3, <1>5, FilledCounts
<1>7. /\ Data(cache) \in Nat /\ Ghosts(cache) \in Nat
      /\ Data(c) + 1 \in Nat /\ Ghosts(c) \in Nat
  BY <1>1, <1>5, SizesCount DEF Data, Ghosts, List, DataList, GhostList
<1>8. Fits(Data(c) + 1, Ghosts(c))
  BY <1>1, <1>4, <1>7, RoomToHold, OutcomeFits DEF FitsNow
<1> QED BY <1>6, <1>8 DEF FitsNow

\* A piece that is read again after it was thrown out.
LEMMA RefetchFits ==
    ASSUME EqualPieces, FewReaders, ArcIInv, FitsNow, NEW id \in Id, Refetch(id)
    PROVE  FitsNow'
<1> DEFINE x == Adapted(cache, id)
           a == [cache EXCEPT !.t1_target = x]
           u == Unlink(a, id)
           r == Replace(u)
           c == Remove(r, id)
           l == cache.entry[id].where
<1>1. /\ Sound(cache, {}) /\ id \in cache.hash /\ l \in GhostList /\ l \in List
      /\ cache.t1_target \in 0 .. CacheSize /\ MayHold
  BY DEF Refetch, Where, List, DataList, GhostList, ArcIInv
<1>2. x \in Int
  <2>1. x \in 0 .. CacheSize
    BY <1>1, AdaptedInRange
  <2> QED BY <2>1
<1> HIDE DEF x
<1>3. /\ Sound(a, {}) /\ a.entry = cache.entry /\ a.hash = cache.hash /\ a.list = cache.list
  BY <1>1, <1>2, Retargeted
<1> HIDE DEF a
<1>4. Without(a, {}, l, id, u)
  BY <1>1, <1>3, Unlinked
<1> HIDE DEF u, l
<1>5. /\ Sound(u, {id}) /\ SameUsage(cache, u) /\ Drops(cache, u, l)
  BY <1>3, <1>4 DEF Without, SameUsage, Drops
<1>6. Data(u) = Data(cache) /\ Ghosts(u) = Ghosts(cache) - 1
  BY <1>1, <1>5, DropCounts
<1>7. Sound(r, {id})
  BY <1>5, Replaced DEF MakesRoom
<1>8. \/ Data(r) = Data(u) - 1 /\ Ghosts(r) = Ghosts(u) + 1
      \/ Data(r) = Data(u) /\ Ghosts(r) = Ghosts(u) /\ Data(u) <= MaxHeld - 1
  BY <1>1, <1>5, ReplaceCounts
<1> HIDE DEF r
<1>9. Less(r, {id}, id, c)
  BY <1>7, Freed
<1> HIDE DEF c
<1>10. Sound(c, {}) /\ c.list = r.list /\ id \in Id \ c.hash
  <2>1. {id} \ {id} = {}
    OBVIOUS
  <2> QED BY <1>9, <2>1 DEF Less
<1>11. Filled(id, NewEntry(c, "t2", id)) /\ "t2" \in DataList
  BY DEF Refetch, DataList, c, r, u, a, x
<1>12. Data(cache') = Data(c) + 1 /\ Ghosts(cache') = Ghosts(c)
  BY <1>10, <1>11, FilledCounts
<1>13. Data(c) = Data(r) /\ Ghosts(c) = Ghosts(r)
  BY <1>10 DEF Data, Ghosts, N
<1>14. /\ Data(cache) \in Nat /\ Ghosts(cache) \in Nat
       /\ Data(c) \in Nat /\ Ghosts(c) \in Nat
  BY <1>1, <1>10, SizesCount DEF Data, Ghosts, List, DataList, GhostList
<1>15. Outcome(Data(cache), Ghosts(cache), Data(c) + 1, Ghosts(c))
  BY <1>6, <1>8, <1>13, <1>14 DEF Outcome
<1>16. Data(c) + 1 \in Nat
  BY <1>14
<1>17. Fits(Data(c) + 1, Ghosts(c))
  BY <1>1, <1>14, <1>15, <1>16, RoomToHold, OutcomeFits DEF FitsNow
<1> QED BY <1>12, <1>17 DEF FitsNow

\* A piece in memory that is read again changes its list at most.
LEMMA HitFits ==
    ASSUME EqualPieces, ArcIInv, FitsNow, NEW id \in Id, Hit(id)
    PROVE  FitsNow'
<1> DEFINE u == Unlink(cache, id)
           m == InsertMru(u, "t2", id)
           l == cache.entry[id].where
<1>1. Sound(cache, {}) /\ id \in cache.hash /\ l \in DataList /\ l \in List
  BY DEF Hit, Where, ArcIInv, DataList, List, GhostList
<1>2. Without(cache, {}, l, id, u)
  BY <1>1, Unlinked
<1> HIDE DEF u, l
<1>3. Sound(u, {id}) /\ u.entry = cache.entry /\ Drops(cache, u, l)
  BY <1>2 DEF Without, Drops
<1>4. Data(u) = Data(cache) - 1 /\ Ghosts(u) = Ghosts(cache)
  BY <1>1, <1>3, DropCounts
<1>5. With(u, {id}, "t2", id, m)
  <2>1. "t2" \in List /\ "t2" \notin GhostList
    BY DEF List, DataList, GhostList
  <2>2. u.entry[id].size = Bytes(l)[id]
    BY <1>1, <1>2, <1>3 DEF Sound, SizeSound, Without
  <2>3. Bytes(l) = Bytes("t2")
    BY <1>1 DEF Bytes, DataList
  <2> QED BY <1>3, <2>1, <2>2, <2>3, PutIn
<1>6. cache'.list = m.list
  BY DEF Hit, m, u
<1> HIDE DEF m
<1>7. /\ Members(cache'.list["t2"]) = Members(u.list["t2"]) \union {id}
      /\ \A k \in List \ {"t2"} : cache'.list[k] = u.list[k]
  BY <1>5, <1>6 DEF With
<1>8. id \notin Members(u.list["t2"])
  BY <1>3 DEF Sound, ListSound, List, DataList
<1>9. /\ IsFiniteSet(Members(u.list["t2"])) /\ N(u, "t1") \in Nat /\ N(u, "t2") \in Nat
      /\ N(cache, "t1") \in Nat /\ N(cache, "t2") \in Nat
  BY <1>1, <1>3, SizesCount DEF List, DataList
<1>10. N(cache', "t2") = N(u, "t2") + 1
  BY <1>7, <1>8, <1>9, FS_AddElement DEF N
<1>11. /\ N(cache', "t1") = N(u, "t1")
       /\ N(cache', "b1") = N(u, "b1") /\ N(cache', "b2") = N(u, "b2")
  BY <1>7 DEF N, List, DataList, GhostList
<1>12. Data(cache') = Data(u) + 1 /\ Ghosts(cache') = Ghosts(u)
  BY <1>9, <1>10, <1>11 DEF Data, Ghosts
<1>13. Data(cache) \in Nat
  BY <1>9 DEF Data
<1>14. Data(cache') = Data(cache) /\ Ghosts(cache') = Ghosts(cache)
  BY <1>4, <1>12, <1>13
<1> QED BY <1>14 DEF FitsNow

\* A piece that is given back for good makes room.
LEMMA DiscardFits ==
    ASSUME EqualPieces, ArcIInv, FitsNow, NEW id \in Id, Discard(id)
    PROVE  FitsNow'
<1> DEFINE u == Unlink(cache, id)
           l == cache.entry[id].where
<1>1. Sound(cache, {}) /\ held[id] = 1
  BY DEF ArcIInv, Discard
<1>2. id \in cache.hash /\ l \in DataList /\ l \in List
  BY <1>1, WhereTells DEF Where, DataList, List
<1>3. Without(cache, {}, l, id, u)
  BY <1>1, <1>2, Unlinked
<1>4. cache'.list = u.list
  BY DEF Discard, Remove
<1> HIDE DEF u, l
<1>5. Sound(u, {id}) /\ Drops(cache, u, l)
  BY <1>3 DEF Without, Drops
<1>6. Data(u) = Data(cache) - 1 /\ Ghosts(u) = Ghosts(cache)
  BY <1>1, <1>2, <1>5, DropCounts
<1>7. Data(cache') = Data(u) /\ Ghosts(cache') = Ghosts(u)
  BY <1>4 DEF Data, Ghosts, N
<1>8. Data(cache) \in Nat /\ Ghosts(cache) \in Nat /\ Data(u) \in Nat /\ Ghosts(u) \in Nat
  BY <1>1, <1>5, SizesCount DEF Data, Ghosts, List, DataList, GhostList
<1>9. Fits(Data(cache) - 1, Ghosts(cache))
  <2> DEFINE n == Data(cache)
             g == Ghosts(cache)
             w == LargestPiece
             e == EntrySize
             v == LargestData
  <2>1. n \in Nat /\ g \in Nat /\ w \in Nat /\ e \in Nat /\ v \in Nat /\ CacheSize \in Nat
        /\ MaxHeld \in Nat
    BY <1>8, OneSize
  <2>2. /\ w * n < CacheSize + w
        /\ e * (n + g) < 2 * (CacheSize + e)
        /\ e * (n + g) + v * n < 2 * (CacheSize + e) + MaxHeld * v
    BY DEF FitsNow, Fits
  <2> HIDE DEF n, g, w, e, v
  <2>3. w * (n - 1) = w * n - w /\ e * (n - 1 + g) = e * (n + g) - e /\ v * (n - 1) = v * n - v
    BY <2>1
  <2>4. w * n \in Int /\ e * (n + g) \in Int /\ v * n \in Int /\ MaxHeld * v \in Int
    BY <2>1
  <2>5. w * (n - 1) < CacheSize + w /\ e * (n - 1 + g) < 2 * (CacheSize + e)
    BY <2>1, <2>2, <2>3, <2>4
  <2>6. e * (n - 1 + g) + v * (n - 1) < 2 * (CacheSize + e) + MaxHeld * v
    BY <2>1, <2>2, <2>3, <2>4
  <2> QED BY <2>5, <2>6 DEF Fits, n, g, w, e, v
<1> QED BY <1>6, <1>7, <1>9 DEF FitsNow

\* At first there is nothing.
LEMMA FitsInit ==
    ASSUME EqualPieces, Init
    PROVE  FitsNow
<1>1. \A l \in List : Members(cache.list[l]) = {}
  BY DEF Init, Members
<1>2. Cardinality({}) = 0
  BY FS_EmptySet
<1>3. \A l \in List : N(cache, l) = 0
  BY <1>1, <1>2 DEF N
<1>4. Data(cache) = 0 /\ Ghosts(cache) = 0
  BY <1>3 DEF Data, Ghosts, List, DataList, GhostList
<1> DEFINE w == LargestPiece
           e == EntrySize
           v == LargestData
<1>5. w \in Nat \ {0} /\ e \in Nat \ {0} /\ v \in Nat /\ CacheSize \in Nat /\ MaxHeld \in Nat
  BY OneSize
<1> HIDE DEF w, e, v
<1>6. w * 0 = 0 /\ e * (0 + 0) = 0 /\ v * 0 = 0 /\ MaxHeld * v \in Nat
  BY <1>5
<1>7. /\ w * 0 < CacheSize + w
      /\ e * (0 + 0) < 2 * (CacheSize + e)
      /\ e * (0 + 0) + v * 0 < 2 * (CacheSize + e) + MaxHeld * v
  BY <1>5, <1>6
<1> QED BY <1>4, <1>7 DEF FitsNow, Fits, w, e, v

\* Every step keeps what fits.
LEMMA FitsStep ==
    ASSUME EqualPieces, FewReaders, ArcIInv, FitsNow, [Next]_vars
    PROVE  FitsNow'
<1>1. ASSUME NEW id \in Id, Free(id) PROVE FitsNow'
  <2>1. cache'.list = cache.list
    BY <1>1 DEF Free, Unuse
  <2> QED BY <2>1 DEF FitsNow, Data, Ghosts, N
<1>2. CASE Next
  BY <1>1, <1>2, HitFits, RefetchFits, FetchFits, DiscardFits DEF Next
<1>3. CASE UNCHANGED vars
  BY <1>3 DEF vars, FitsNow
<1> QED BY <1>2, <1>3

\* In numbers of bytes: the cache holds less data than it was given room for and
\* one piece, ...
LEMMA FitsBytes ==
    ASSUME EqualPieces, ArcIInv, FitsNow
    PROVE  ResidentFits /\ TotalFits
<1> DEFINE n1 == N(cache, "t1")
           n2 == N(cache, "t2")
           m1 == N(cache, "b1")
           m2 == N(cache, "b2")
           w == LargestPiece
           e == EntrySize
           v == LargestData
<1>1. Sound(cache, {})
  BY DEF ArcIInv
<1>2. /\ n1 \in Nat /\ n2 \in Nat /\ m1 \in Nat /\ m2 \in Nat
      /\ cache.size["t1"] = w * n1 /\ cache.size["t2"] = w * n2
      /\ cache.size["b1"] = e * m1 /\ cache.size["b2"] = e * m2
  BY <1>1, SizesCount DEF List, DataList, GhostList
<1>3. /\ w * (n1 + n2) < CacheSize + w
      /\ e * (n1 + n2 + (m1 + m2)) + v * (n1 + n2) < 2 * (CacheSize + e) + MaxHeld * v
  BY DEF FitsNow, Fits, Data, Ghosts
<1>4. w \in Nat /\ e \in Nat /\ v \in Nat /\ w = e + v
  BY OneSize
<1> HIDE DEF n1, n2, m1, m2, w, e, v
<1>5. /\ w * (n1 + n2) = w * n1 + w * n2
      /\ e * (n1 + n2 + (m1 + m2)) + v * (n1 + n2) = w * n1 + w * n2 + e * m1 + e * m2
  <2>1. w * (n1 + n2) = w * n1 + w * n2 /\ w * (n1 + n2) = e * (n1 + n2) + v * (n1 + n2)
    BY <1>2, <1>4
  <2>2. e * (n1 + n2 + (m1 + m2)) = e * (n1 + n2) + (e * m1 + e * m2)
    BY <1>2, <1>4
  <2>3. /\ e * (n1 + n2) \in Int /\ v * (n1 + n2) \in Int /\ e * m1 \in Int /\ e * m2 \in Int
        /\ w * n1 \in Int /\ w * n2 \in Int
    BY <1>2, <1>4
  <2> QED BY <2>1, <2>2, <2>3
<1>6. ResidentFits
  BY <1>2, <1>3, <1>5 DEF ResidentFits, w
<1>7. TotalFits
  BY <1>2, <1>3, <1>5 DEF TotalFits, Total, e, v
<1> QED BY <1>6, <1>7

\* With pieces of one size and readers that hold less than the cache's room, the
\* data in memory stays below that room and one piece, whatever is read.
THEOREM ArcResidentFits == EqualPieces /\ FewReaders => (Spec => []ResidentFits)
<1> SUFFICES ASSUME EqualPieces, FewReaders PROVE Spec => []ResidentFits
  OBVIOUS
<1>1. Init => ArcIInv /\ FitsNow
  BY ArcInit, FitsInit
<1>2. ArcIInv /\ FitsNow /\ [Next]_vars => (ArcIInv /\ FitsNow)'
  BY ArcStep, FitsStep
<1>3. ArcIInv /\ FitsNow => ResidentFits
  BY FitsBytes
<1> QED BY <1>1, <1>2, <1>3, PTL DEF Spec

\* ... and everything the cache remembers, ghosts too, below twice the room, two
\* entries and the data of one piece per reader.
THEOREM ArcTotalFits == EqualPieces /\ FewReaders => (Spec => []TotalFits)
<1> SUFFICES ASSUME EqualPieces, FewReaders PROVE Spec => []TotalFits
  OBVIOUS
<1>1. Init => ArcIInv /\ FitsNow
  BY ArcInit, FitsInit
<1>2. ArcIInv /\ FitsNow /\ [Next]_vars => (ArcIInv /\ FitsNow)'
  BY ArcStep, FitsStep
<1>3. ArcIInv /\ FitsNow => TotalFits
  BY FitsBytes
<1> QED BY <1>1, <1>2, <1>3, PTL DEF Spec
=============================================================================
