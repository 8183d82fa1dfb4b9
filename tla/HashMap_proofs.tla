---------------------------- MODULE HashMap_proofs ----------------------------
(***************************************************************************)
(* The hash table answers as a map, whatever the hash function, the keys   *)
(* and the number of calls: every entry stays in the chain of its key's    *)
(* hash, the table grows in time, and every call is a call of KeyValueMap. *)
(***************************************************************************)
EXTENDS HashMap, FiniteSetTheorems, TLAPS

-------------------------------------------------------------------------------
(* Chains.                                                                 *)

\* The chain has the entry.
Has(chain, e) == \E j \in 1 .. Len(chain) : chain[j] = e

\* No key has two entries in the chain.
Distinct(chain) ==
    \A j, k \in 1 .. Len(chain) : chain[j].key = chain[k].key => j = k

\* The entry keeps the hash of its key and belongs in chain i of l.
Belongs(e, i, l) == e.hash = HashCode[e.key] /\ i = e.hash % l

\* What chain i of a table of l chains always is.
GoodChain(chain, i, l) ==
    /\ chain \in Seq(Entry)
    /\ \A j \in 1 .. Len(chain) : Belongs(chain[j], i, l)
    /\ Distinct(chain)

\* Two sequences one after the other.
LEMMA Concatenated ==
  ASSUME NEW S, NEW a \in Seq(S), NEW b \in Seq(S)
  PROVE  /\ a \o b \in Seq(S) /\ Len(a \o b) = Len(a) + Len(b)
         /\ \A j \in 1 .. Len(a) + Len(b) :
              (a \o b)[j] = IF j <= Len(a) THEN a[j] ELSE b[j - Len(a)]
OBVIOUS

\* The entry of the key in the chain is the only one.
LEMMA OneEntryOfAKey ==
  ASSUME NEW chain, NEW i, NEW l, GoodChain(chain, i, l),
         NEW e, NEW f, Has(chain, e), Has(chain, f), e.key = f.key
  PROVE  e = f
BY DEF GoodChain, Distinct, Has

\* A new entry of a key the chain lacks may become its first
\* (hashmap.c:171-179).
LEMMA FirstOfChain ==
  ASSUME NEW chain, NEW i, NEW l, GoodChain(chain, i, l),
         NEW e \in Entry, Belongs(e, i, l),
         \A x : Has(chain, x) => x.key # e.key
  PROVE  /\ GoodChain(<<e>> \o chain, i, l)
         /\ \A x : Has(<<e>> \o chain, x) <=> x = e \/ Has(chain, x)
<1> DEFINE s == <<e>> \o chain
<1>1. chain \in Seq(Entry) /\ Len(chain) \in Nat
  BY DEF GoodChain
<1>2. /\ s \in Seq(Entry) /\ Len(s) = Len(chain) + 1 /\ s[1] = e
      /\ \A j \in 1 .. Len(chain) : s[j + 1] = chain[j]
  BY <1>1
<1> HIDE DEF s
<1>3. \A j \in 1 .. Len(s) : \/ j = 1 /\ s[j] = e
                             \/ j - 1 \in 1 .. Len(chain) /\ s[j] = chain[j - 1]
  BY <1>1, <1>2
<1>4. \A j \in 1 .. Len(s) : Belongs(s[j], i, l)
  BY <1>3 DEF GoodChain
<1>5. Distinct(s)
  <2> SUFFICES ASSUME NEW j \in 1 .. Len(s), NEW k \in 1 .. Len(s),
                      s[j].key = s[k].key
               PROVE  j = k
    BY DEF Distinct
  <2>1. \A n \in 1 .. Len(chain) : chain[n].key # e.key
    BY DEF Has
  <2>2. ASSUME NEW a \in 1 .. Len(s), NEW b \in 1 .. Len(s),
               s[a].key = s[b].key, a = 1
        PROVE  b = 1
    <3>1. s[a].key = e.key
      BY <1>2, <2>2
    <3> QED BY <1>3, <2>1, <2>2, <3>1
  <2>3. CASE j = 1
    BY <2>2, <2>3
  <2>4. CASE k = 1
    BY <2>2, <2>4
  <2>5. CASE j # 1 /\ k # 1
    <3>1. /\ j - 1 \in 1 .. Len(chain) /\ s[j] = chain[j - 1]
          /\ k - 1 \in 1 .. Len(chain) /\ s[k] = chain[k - 1]
      BY <1>3, <2>5
    <3>2. chain[j - 1].key = chain[k - 1].key
      BY <3>1
    <3>3. j - 1 = k - 1
      BY <3>1, <3>2 DEF GoodChain, Distinct
    <3> QED BY <3>3
  <2> QED BY <2>3, <2>4, <2>5
<1>6. \A x : Has(s, x) <=> x = e \/ Has(chain, x)
  <2>1. \A x : Has(s, x) => x = e \/ Has(chain, x)
    BY <1>3 DEF Has
  <2>2. \A j \in 1 .. Len(chain) : j + 1 \in 1 .. Len(s) /\ 1 \in 1 .. Len(s)
    BY <1>1, <1>2
  <2>3. Has(s, e)
    BY <1>1, <1>2 DEF Has
  <2> QED BY <1>2, <2>1, <2>2, <2>3 DEF Has
<1> QED BY <1>2, <1>4, <1>5, <1>6 DEF GoodChain, s

\* An entry may be taken out of its chain, and only it (hashmap.c:201-205).
LEMMA OutOfChain ==
  ASSUME NEW chain, NEW i, NEW l, GoodChain(chain, i, l),
         NEW p \in 1 .. Len(chain)
  PROVE  /\ GoodChain(RemoveAt(chain, p), i, l)
         /\ \A x : Has(RemoveAt(chain, p), x)
                     <=> Has(chain, x) /\ x.key # chain[p].key
<1> DEFINE s == RemoveAt(chain, p)
<1>1. chain \in Seq(Entry) /\ Len(chain) \in Nat /\ p \in Nat /\ 1 <= p
      /\ p <= Len(chain)
  BY DEF GoodChain
<1>2. /\ s \in Seq(Entry) /\ Len(s) = Len(chain) - 1
      /\ \A j \in 1 .. Len(s) : s[j] = IF j < p THEN chain[j] ELSE chain[j + 1]
  <2> DEFINE a == SubSeq(chain, 1, p - 1)
             b == SubSeq(chain, p + 1, Len(chain))
  <2>1. /\ a \in Seq(Entry) /\ Len(a) = p - 1
        /\ \A j \in 1 .. p - 1 : a[j] = chain[j]
    BY <1>1
  <2>2. /\ b \in Seq(Entry) /\ Len(b) = Len(chain) - p
        /\ \A j \in 1 .. Len(chain) - p : b[j] = chain[p + j]
    BY <1>1
  <2>3. s = a \o b
    BY DEF RemoveAt
  <2> HIDE DEF a, b, s
  <2>4. /\ a \o b \in Seq(Entry) /\ Len(a \o b) = Len(a) + Len(b)
        /\ \A j \in 1 .. Len(a) + Len(b) :
             (a \o b)[j] = IF j <= Len(a) THEN a[j] ELSE b[j - Len(a)]
    <3>1. a \in Seq(Entry) /\ b \in Seq(Entry)
      BY <2>1, <2>2
    <3> QED BY <3>1, Concatenated
  <2>5. ASSUME NEW j \in 1 .. Len(chain) - 1
        PROVE  s[j] = IF j < p THEN chain[j] ELSE chain[j + 1]
    <3>1. CASE j < p
      <4>1. j \in 1 .. p - 1 /\ j <= Len(a) /\ j \in 1 .. Len(a) + Len(b)
        BY <1>1, <2>1, <2>2, <3>1
      <4> QED BY <2>1, <2>3, <2>4, <3>1, <4>1
    <3>2. CASE ~ (j < p)
      <4>1. /\ j - (p - 1) \in 1 .. Len(chain) - p /\ ~ (j <= Len(a))
            /\ j \in 1 .. Len(a) + Len(b) /\ p + (j - (p - 1)) = j + 1
        BY <1>1, <2>1, <2>2, <3>2
      <4>2. s[j] = b[j - (p - 1)]
        BY <2>1, <2>3, <2>4, <4>1
      <4> QED BY <2>2, <3>2, <4>1, <4>2
    <3> QED BY <3>1, <3>2
  <2>6. Len(s) = Len(chain) - 1 /\ s \in Seq(Entry)
    BY <1>1, <2>1, <2>2, <2>3, <2>4
  <2> QED BY <2>5, <2>6
<1> HIDE DEF s
<1>3. \A j \in 1 .. Len(s) : \E n \in 1 .. Len(chain) :
        n # p /\ s[j] = chain[n] /\ n = IF j < p THEN j ELSE j + 1
  BY <1>1, <1>2
<1>4. \A j \in 1 .. Len(s) : Belongs(s[j], i, l)
  BY <1>3 DEF GoodChain
<1>5. Distinct(s)
  <2> SUFFICES ASSUME NEW j \in 1 .. Len(s), NEW k \in 1 .. Len(s),
                      s[j].key = s[k].key
               PROVE  j = k
    BY DEF Distinct
  <2>1. PICK n \in 1 .. Len(chain) : s[j] = chain[n]
                                     /\ n = IF j < p THEN j ELSE j + 1
    BY <1>3
  <2>2. PICK o \in 1 .. Len(chain) : s[k] = chain[o]
                                     /\ o = IF k < p THEN k ELSE k + 1
    BY <1>3
  <2>3. n = o
    BY <2>1, <2>2 DEF GoodChain, Distinct
  <2> QED BY <1>1, <2>1, <2>2, <2>3
<1>6. ASSUME NEW x PROVE Has(s, x) <=> Has(chain, x) /\ x.key # chain[p].key
  <2>1. ASSUME Has(s, x) PROVE Has(chain, x) /\ x.key # chain[p].key
    <3>1. PICK n \in 1 .. Len(chain) : n # p /\ x = chain[n]
      BY <1>3, <2>1 DEF Has
    <3> QED BY <3>1 DEF Has, GoodChain, Distinct
  <2>2. ASSUME NEW n \in 1 .. Len(chain), n # p PROVE Has(s, chain[n])
    <3>1. CASE n < p
      <4>1. n \in 1 .. Len(s)
        BY <1>1, <1>2, <3>1
      <4>2. s[n] = chain[n]
        BY <1>2, <3>1, <4>1
      <4> QED BY <4>1, <4>2 DEF Has
    <3>2. CASE ~ (n < p)
      <4>1. n - 1 \in 1 .. Len(s) /\ ~ (n - 1 < p) /\ (n - 1) + 1 = n
        BY <1>1, <1>2, <2>2, <3>2
      <4>2. s[n - 1] = chain[n]
        BY <1>2, <4>1
      <4> QED BY <4>1, <4>2 DEF Has
    <3> QED BY <3>1, <3>2
  <2>3. \A n \in 1 .. Len(chain) : chain[n].key # chain[p].key => n # p
    OBVIOUS
  <2> QED BY <2>1, <2>2, <2>3 DEF Has
<1> QED BY <1>2, <1>4, <1>5, <1>6 DEF GoodChain, s

\* An entry may get another value (hashmap.c:159-165).
LEMMA OtherValue ==
  ASSUME NEW chain, NEW i, NEW l, GoodChain(chain, i, l),
         NEW p \in 1 .. Len(chain), NEW value \in Value
  PROVE  /\ GoodChain([chain EXCEPT ![p].value = value], i, l)
         /\ \A x : Has([chain EXCEPT ![p].value = value], x)
                     <=> \/ x = NewEntry(chain[p].key, value)
                         \/ Has(chain, x) /\ x.key # chain[p].key
<1> DEFINE s == [chain EXCEPT ![p].value = value]
           e == [chain[p] EXCEPT !.value = value]
<1>1. chain \in Seq(Entry) /\ Len(chain) \in Nat /\ chain[p] \in Entry
  BY DEF GoodChain
<1>2. e = NewEntry(chain[p].key, value) /\ e \in Entry /\ e.key = chain[p].key
      /\ Belongs(e, i, l)
  <2>1. e = [key |-> chain[p].key, value |-> value, hash |-> chain[p].hash]
    BY <1>1 DEF Entry
  <2>2. chain[p].hash = HashCode[chain[p].key] /\ i = chain[p].hash % l
    BY DEF GoodChain, Belongs
  <2>3. chain[p].key \in Key /\ chain[p].hash \in Nat
    BY <1>1 DEF Entry
  <2>4. e \in Entry
    BY <2>1, <2>3 DEF Entry
  <2> QED BY <2>1, <2>2, <2>4 DEF NewEntry, Belongs
<1>3. s = [chain EXCEPT ![p] = e]
  OBVIOUS
<1> HIDE DEF e, s
<1>4. /\ s \in Seq(Entry) /\ Len(s) = Len(chain)
      /\ \A j \in 1 .. Len(chain) : s[j] = IF j = p THEN e ELSE chain[j]
  BY <1>1, <1>2, <1>3
<1>5. \A j \in 1 .. Len(s) : Belongs(s[j], i, l) /\ s[j].key = chain[j].key
  BY <1>2, <1>4 DEF GoodChain
<1>6. Distinct(s)
  BY <1>4, <1>5 DEF Distinct, GoodChain
<1>7. ASSUME NEW x
      PROVE Has(s, x) <=> x = e \/ (Has(chain, x) /\ x.key # chain[p].key)
  <2>1. Has(s, x) => x = e \/ \E j \in 1 .. Len(chain) : j # p /\ x = chain[j]
    BY <1>4 DEF Has
  <2>2. \A j \in 1 .. Len(chain) : j # p <=> chain[j].key # chain[p].key
    BY DEF GoodChain, Distinct
  <2>3. Has(s, e)
    BY <1>4 DEF Has
  <2>4. \A j \in 1 .. Len(chain) : j # p => Has(s, chain[j])
    BY <1>4 DEF Has
  <2> QED BY <2>1, <2>2, <2>3, <2>4 DEF Has
<1> QED BY <1>2, <1>4, <1>5, <1>6, <1>7 DEF GoodChain, s
-------------------------------------------------------------------------------
(* All entries of a table.                                                 *)

\* What a sequence of chains joined to another one has.
LEMMA JoinedHas ==
  ASSUME NEW a \in Seq(Entry), NEW b \in Seq(Entry)
  PROVE  /\ Joined(a, b) \in Seq(Entry)
         /\ \A e : Has(Joined(a, b), e) <=> Has(a, e) \/ Has(b, e)
         /\ (/\ Distinct(a) /\ Distinct(b)
             /\ \A e, f : Has(a, e) /\ Has(b, f) => e.key # f.key)
              => Distinct(Joined(a, b))
<1> DEFINE s == a \o b
<1>1. /\ s \in Seq(Entry) /\ Len(s) = Len(a) + Len(b)
      /\ \A j \in 1 .. Len(a) + Len(b) :
           s[j] = IF j <= Len(a) THEN a[j] ELSE b[j - Len(a)]
  BY Concatenated
<1>0. Len(a) \in Nat /\ Len(b) \in Nat
  OBVIOUS
<1> HIDE DEF s
<1>2. \A j \in 1 .. Len(s) :
        \/ j \in 1 .. Len(a) /\ s[j] = a[j]
        \/ j > Len(a) /\ j - Len(a) \in 1 .. Len(b) /\ s[j] = b[j - Len(a)]
  BY <1>0, <1>1
<1>3. \A j \in 1 .. Len(a) : j \in 1 .. Len(s) /\ s[j] = a[j]
  BY <1>0, <1>1
<1>4. \A j \in 1 .. Len(b) : j + Len(a) \in 1 .. Len(s) /\ s[j + Len(a)] = b[j]
  <2> SUFFICES ASSUME NEW j \in 1 .. Len(b)
               PROVE  j + Len(a) \in 1 .. Len(s) /\ s[j + Len(a)] = b[j]
    OBVIOUS
  <2>1. /\ j + Len(a) \in 1 .. Len(a) + Len(b) /\ ~ (j + Len(a) <= Len(a))
        /\ (j + Len(a)) - Len(a) = j
    BY <1>0
  <2> QED BY <1>1, <2>1
<1>5. ASSUME NEW e PROVE Has(s, e) <=> Has(a, e) \/ Has(b, e)
  BY <1>2, <1>3, <1>4 DEF Has
<1>6. ASSUME Distinct(a), Distinct(b),
             \A e, f : Has(a, e) /\ Has(b, f) => e.key # f.key
      PROVE  Distinct(s)
  <2> SUFFICES ASSUME NEW j \in 1 .. Len(s), NEW k \in 1 .. Len(s),
                      s[j].key = s[k].key
               PROVE  j = k
    BY DEF Distinct
  <2>1. ASSUME NEW n \in 1 .. Len(a), NEW o \in 1 .. Len(b)
        PROVE  a[n].key # b[o].key
    BY <1>6 DEF Has
  <2>2. CASE j \in 1 .. Len(a) /\ k \in 1 .. Len(a)
    BY <1>3, <1>6, <2>2 DEF Distinct
  <2>3. CASE j \notin 1 .. Len(a) /\ k \notin 1 .. Len(a)
    <3>1. /\ j - Len(a) \in 1 .. Len(b) /\ s[j] = b[j - Len(a)]
          /\ k - Len(a) \in 1 .. Len(b) /\ s[k] = b[k - Len(a)]
      BY <1>2, <2>3
    <3>2. j - Len(a) = k - Len(a)
      BY <1>6, <3>1 DEF Distinct
    <3> QED BY <1>0, <3>2
  <2>4. ASSUME NEW n \in 1 .. Len(s), NEW o \in 1 .. Len(s),
               n \in 1 .. Len(a), o \notin 1 .. Len(a)
        PROVE  s[n].key # s[o].key
    <3>1. s[n] = a[n]
      BY <1>3, <2>4
    <3>2. o - Len(a) \in 1 .. Len(b) /\ s[o] = b[o - Len(a)]
      BY <1>2, <2>4
    <3> QED BY <2>1, <2>4, <3>1, <3>2
  <2> QED BY <2>2, <2>3, <2>4
<1> QED BY <1>1, <1>5, <1>6 DEF Joined, s

\* No key has entries in two of the chains, nor two in one.
KeysApart(s) ==
    /\ \A i \in 1 .. Len(s) : Distinct(s[i])
    /\ \A i, k \in 1 .. Len(s) : \A e, f :
         Has(s[i], e) /\ Has(s[k], f) /\ e.key = f.key => i = k

\* What has been gathered from the chains so far: all they have, and a key twice
\* only if they have it twice.
Gathered(base, entries, s) ==
    /\ entries \in Seq(Entry)
    /\ \A e : Has(entries, e) <=> \E i \in 1 .. Len(s) : Has(s[i], e)
    /\ KeysApart(s) => Distinct(entries)

Chains == INSTANCE Folding WITH op <- Joined, Inv <- Gathered

\* Nothing is gathered from no chain.
LEMMA NothingGathered == Gathered(<< >>, << >>, << >>)
<1>1. << >> \in Seq(Entry) /\ 1 .. Len(<< >>) = {}
  OBVIOUS
<1> QED BY <1>1 DEF Gathered, Has, Distinct

\* One chain more.
LEMMA OneMoreGathered ==
  ASSUME NEW base, NEW entries, NEW s \in Seq(Seq(Entry)),
         NEW chain \in Seq(Entry), Gathered(base, entries, s)
  PROVE  Gathered(base, Joined(entries, chain), Append(s, chain))
<1> DEFINE t == Append(s, chain)
           n == Len(s)
<1>1. /\ n \in Nat /\ Len(t) = n + 1 /\ t[n + 1] = chain
      /\ \A i \in 1 .. n : t[i] = s[i]
  OBVIOUS
<1> HIDE DEF t, n
<1>2. \A i \in 1 .. n + 1 : i \in 1 .. n \/ i = n + 1
  BY <1>1
<1>3. \A i \in 1 .. n : i \in 1 .. n + 1 /\ i # n + 1
  BY <1>1
<1>4. n + 1 \in 1 .. n + 1
  BY <1>1
<1>5. /\ entries \in Seq(Entry)
      /\ \A e : Has(entries, e) <=> \E i \in 1 .. n : Has(s[i], e)
      /\ KeysApart(s) => Distinct(entries)
  BY DEF Gathered, n
<1>6. /\ Joined(entries, chain) \in Seq(Entry)
      /\ \A e : Has(Joined(entries, chain), e) <=> Has(entries, e) \/ Has(chain, e)
      /\ (/\ Distinct(entries) /\ Distinct(chain)
          /\ \A e, f : Has(entries, e) /\ Has(chain, f) => e.key # f.key)
           => Distinct(Joined(entries, chain))
  BY <1>5, JoinedHas
<1>7. \A e : Has(Joined(entries, chain), e) <=> \E i \in 1 .. n + 1 : Has(t[i], e)
  BY <1>1, <1>2, <1>3, <1>4, <1>5, <1>6, Zenon
<1>8. ASSUME KeysApart(t) PROVE Distinct(Joined(entries, chain))
  <2>1. /\ \A i \in 1 .. n + 1 : Distinct(t[i])
        /\ \A i, k \in 1 .. n + 1 : \A e, f :
             Has(t[i], e) /\ Has(t[k], f) /\ e.key = f.key => i = k
    BY <1>1, <1>8, Zenon DEF KeysApart
  <2>2. KeysApart(s)
    <3>1. \A i \in 1 .. n : Distinct(s[i])
      BY <1>1, <1>3, <2>1, Zenon
    <3>2. \A i, k \in 1 .. n : \A e, f :
            Has(s[i], e) /\ Has(s[k], f) /\ e.key = f.key => i = k
      BY <1>1, <1>3, <2>1, Zenon
    <3> QED BY <3>1, <3>2 DEF KeysApart, n
  <2>3. Distinct(chain)
    BY <1>1, <1>4, <2>1, Zenon
  <2>4. ASSUME NEW e, NEW f, Has(entries, e), Has(chain, f) PROVE e.key # f.key
    <3>1. PICK i \in 1 .. n : Has(s[i], e)
      BY <1>5, <2>4
    <3> QED BY <1>1, <1>3, <1>4, <2>1, <2>4, <3>1, Zenon
  <2> QED BY <1>5, <1>6, <2>2, <2>3, <2>4, Zenon
<1> QED BY <1>1, <1>6, <1>7, <1>8, Zenon DEF Gathered, t

\* The entries of all chains of a table.
LEMMA AllGathered ==
  ASSUME NEW s \in Seq(Seq(Entry))
  PROVE  Gathered(<< >>, FoldLeft(Joined, << >>, s), s)
<1>1. \A a, t, e : (t \in Seq(Seq(Entry)) /\ e \in Seq(Entry)
                    /\ Gathered(<< >>, a, t))
                     => Gathered(<< >>, Joined(a, e), Append(t, e))
  BY OneMoreGathered
<1>2. Gathered(<< >>, Chains!Folded(<< >>, s), s)
  BY <1>1, NothingGathered, Chains!FoldLeftInduction
<1>3. Chains!Folded(<< >>, s) = FoldLeft(Joined, << >>, s)
  BY DEF Chains!Folded, Chains!FoldLeft, FoldLeft, Chains!MapThenFoldSet,
         MapThenFoldSet, Chains!Max, Max
<1> QED BY <1>2, <1>3

-------------------------------------------------------------------------------
(* Looking a key up.                                                       *)

\* Every set of numbers that is not empty has a least one: Min names it.
LEMMA LeastOf ==
  ASSUME NEW S \in SUBSET Nat, S # {}
  PROVE  Min(S) \in S /\ \A n \in S : Min(S) <= n
<1>1. \E n \in S : \A k \in S : n <= k
  BY Chains!LeastExists
<1> QED BY <1>1 DEF Min

\* The walk down a chain ends at the entry of the key, or finds none
\* (hashmap.c:134-138).
LEMMA PlaceIs ==
  ASSUME NEW m, NEW key, Chain(m, key) \in Seq(Entry)
  PROVE  \/ /\ Place(m, key) \in 1 .. Len(Chain(m, key))
            /\ Chain(m, key)[Place(m, key)].key = key
         \/ /\ Place(m, key) = 0
            /\ \A x : Has(Chain(m, key), x) => x.key # key
<1> DEFINE chain == Chain(m, key)
           S == {j \in 1 .. Len(chain) : chain[j].key = key}
<1>1. Place(m, key) = IF S # {} THEN Min(S) ELSE 0
  BY DEF Place, SelectInSeq
<1>2. S \in SUBSET Nat
  OBVIOUS
<1> HIDE DEF chain
<1>3. CASE S # {}
  <2>1. Min(S) \in S
    BY <1>2, <1>3, LeastOf
  <2> QED BY <1>1, <1>3, <2>1 DEF chain
<1>4. CASE S = {}
  BY <1>1, <1>4 DEF chain, Has
<1> QED BY <1>3, <1>4

-------------------------------------------------------------------------------
(* Tables.                                                                 *)

\* A record of the fields of a HashMap.
Shape(m) ==
    /\ m = [table |-> m.table, capacity |-> m.capacity,
            size |-> m.size, length |-> m.length]
    /\ m.capacity \in Nat /\ m.size \in Nat /\ m.length \in Nat \ {0}
    /\ m.table = [i \in 0 .. m.length - 1 |-> m.table[i]]

\* Every chain of the table is what it should be.
Good(m) ==
    /\ Shape(m)
    /\ \A i \in 0 .. m.length - 1 : GoodChain(m.table[i], i, m.length)

\* The table holds the entry: in the chain of its hash.
Holds(m, e) == e \in Entry /\ Has(m.table[e.hash % m.length], e)

\* An index of a chain.
LEMMA IndexIsAChain ==
  ASSUME NEW h \in Nat, NEW l \in Nat \ {0}
  PROVE  h % l \in 0 .. l - 1
OBVIOUS

\* Where a key is looked for.
LEMMA IndexOfKey ==
  ASSUME NEW m, Shape(m), NEW key \in Key
  PROVE  /\ HashCode[key] \in Nat
         /\ IndexOf(m, key) \in 0 .. m.length - 1
         /\ IndexOf(m, key) = HashCode[key] % m.length
BY HashMapAssumption, IndexIsAChain DEF Shape, IndexOf

\* Whatever a chain has, the table holds, and the other way round.
LEMMA HeldInChains ==
  ASSUME NEW m, Good(m), NEW i \in 0 .. m.length - 1, NEW e
  PROVE  Has(m.table[i], e) <=> Holds(m, e) /\ e.hash % m.length = i
<1>1. Has(m.table[i], e) => e \in Entry /\ e.hash % m.length = i
  BY DEF Good, GoodChain, Has, Belongs
<1> QED BY <1>1 DEF Holds

\* What is held of a key is in the chain where it is looked for.
LEMMA HeldOfKey ==
  ASSUME NEW m, Good(m), NEW key \in Key, NEW e, e.key = key
  PROVE  Holds(m, e) <=> Has(Chain(m, key), e)
<1>1. /\ IndexOf(m, key) \in 0 .. m.length - 1
      /\ IndexOf(m, key) = HashCode[key] % m.length
  BY IndexOfKey DEF Good
<1>2. Holds(m, e) => e.hash = HashCode[key]
  <2> SUFFICES ASSUME Holds(m, e) PROVE e.hash = HashCode[key]
    OBVIOUS
  <2>1. e.hash \in Nat /\ m.length \in Nat \ {0}
    BY DEF Holds, Entry, Good, Shape
  <2>2. e.hash % m.length \in 0 .. m.length - 1
    BY <2>1, IndexIsAChain
  <2> QED BY <2>2 DEF Holds, Good, GoodChain, Has, Belongs
<1> QED BY <1>1, <1>2, HeldInChains DEF Chain

\* A key has one entry at most.
LEMMA OneHeldOfAKey ==
  ASSUME NEW m, Good(m), NEW e, NEW f, Holds(m, e), Holds(m, f), e.key = f.key
  PROVE  e = f
<1>1. e.key \in Key
  BY DEF Holds, Entry
<1>2. Has(Chain(m, e.key), e) /\ Has(Chain(m, e.key), f)
  BY <1>1, HeldOfKey
<1>3. GoodChain(Chain(m, e.key), IndexOf(m, e.key), m.length)
  BY <1>1, IndexOfKey DEF Good, Chain
<1> QED BY <1>2, <1>3, OneEntryOfAKey

\* A key is found when the table holds an entry of it, which has its value.
LEMMA LookedUp ==
  ASSUME NEW m, Good(m), NEW key \in Key
  PROVE  /\ Place(m, key) \in 0 .. Len(Chain(m, key))
         /\ Place(m, key) # 0 =>
              /\ Place(m, key) \in 1 .. Len(Chain(m, key))
              /\ Holds(m, Chain(m, key)[Place(m, key)])
              /\ Chain(m, key)[Place(m, key)].key = key
         /\ Place(m, key) = 0 => \A e : Holds(m, e) => e.key # key
         /\ \A e : Holds(m, e) /\ e.key = key =>
              Place(m, key) # 0 /\ ValueOf(m, key) = e.value
<1> DEFINE p == Place(m, key)
           chain == Chain(m, key)
<1>1. chain \in Seq(Entry)
  BY IndexOfKey DEF Good, GoodChain, Chain
<1>2. \/ p \in 1 .. Len(chain) /\ chain[p].key = key
      \/ p = 0 /\ \A x : Has(chain, x) => x.key # key
  BY <1>1, PlaceIs
<1>3. ASSUME NEW e, e.key = key PROVE Holds(m, e) <=> Has(chain, e)
  BY <1>3, HeldOfKey
<1>4. p \in 1 .. Len(chain) => Has(chain, chain[p])
  BY DEF Has
<1>5. ValueOf(m, key) = IF p = 0 THEN NULL ELSE chain[p].value
  BY DEF ValueOf
<1>6. p \in 0 .. Len(chain)
  BY <1>1, <1>2
<1> HIDE DEF p, chain
<1>7. p # 0 => p \in 1 .. Len(chain) /\ Holds(m, chain[p]) /\ chain[p].key = key
  BY <1>2, <1>3, <1>4
<1>8. p = 0 => \A e : Holds(m, e) => e.key # key
  BY <1>2, <1>3
<1>9. ASSUME NEW e, Holds(m, e), e.key = key
      PROVE  p # 0 /\ ValueOf(m, key) = e.value
  <2>1. p # 0
    BY <1>8, <1>9
  <2>2. chain[p] = e
    BY <1>7, <1>9, <2>1, OneHeldOfAKey
  <2> QED BY <1>5, <2>1, <2>2
<1> QED BY <1>6, <1>7, <1>8, <1>9 DEF p, chain

\* One chain of a table is replaced by another that belongs there.
LEMMA ChainReplaced ==
  ASSUME NEW m, Good(m), NEW i \in 0 .. m.length - 1, NEW chain,
         GoodChain(chain, i, m.length),
         NEW n, n = [m EXCEPT !.table[i] = chain]
  PROVE  /\ Good(n)
         /\ n.capacity = m.capacity /\ n.size = m.size /\ n.length = m.length
         /\ \A e : Holds(n, e) <=>
              IF e \in Entry /\ e.hash % m.length = i THEN Has(chain, e)
                                                      ELSE Holds(m, e)
<1> DEFINE table == [m.table EXCEPT ![i] = chain]
<1>1. n = [table |-> table, capacity |-> m.capacity,
           size |-> m.size, length |-> m.length]
  <2> DEFINE r == [table |-> m.table, capacity |-> m.capacity,
                   size |-> m.size, length |-> m.length]
  <2>1. m = r
    BY DEF Good, Shape
  <2>2. [r EXCEPT !.table = table] = [table |-> table, capacity |-> m.capacity,
                                      size |-> m.size, length |-> m.length]
    OBVIOUS
  <2>3. n = [m EXCEPT !.table = table]
    OBVIOUS
  <2> HIDE DEF r, table
  <2> QED BY <2>1, <2>2, <2>3
<1>2. /\ DOMAIN m.table = 0 .. m.length - 1
      /\ m.capacity \in Nat /\ m.size \in Nat /\ m.length \in Nat \ {0}
  BY DEF Good, Shape
<1>3. /\ table = [j \in 0 .. m.length - 1 |-> table[j]]
      /\ \A j \in 0 .. m.length - 1 :
           table[j] = IF j = i THEN chain ELSE m.table[j]
  BY <1>2
<1> HIDE DEF table
<1>4. /\ n.table = table /\ n.capacity = m.capacity
      /\ n.size = m.size /\ n.length = m.length
  BY <1>1
<1>5. Shape(n)
  BY <1>1, <1>2, <1>3, <1>4 DEF Shape
<1>6. Good(n)
  BY <1>3, <1>4, <1>5 DEF Good
<1>7. ASSUME NEW e
      PROVE  Holds(n, e) <=> IF e \in Entry /\ e.hash % m.length = i
                             THEN Has(chain, e) ELSE Holds(m, e)
  <2>1. CASE e \in Entry
    <3>1. e.hash % m.length \in 0 .. m.length - 1
      BY <1>2, <2>1, IndexIsAChain DEF Entry
    <3> QED BY <1>3, <1>4, <2>1, <3>1 DEF Holds
  <2>2. CASE e \notin Entry
    BY <2>2 DEF Holds
  <2> QED BY <2>1, <2>2
<1> QED BY <1>4, <1>6, <1>7

\* The number of entries counts for nothing in the chains.
LEMMA Counted ==
  ASSUME NEW m, Good(m), NEW size \in Nat,
         NEW n, n = [m EXCEPT !.size = size]
  PROVE  /\ Good(n)
         /\ n.table = m.table
         /\ n.capacity = m.capacity /\ n.size = size /\ n.length = m.length
         /\ \A e : Holds(n, e) <=> Holds(m, e)
<1> DEFINE r == [table |-> m.table, capacity |-> m.capacity,
                 size |-> m.size, length |-> m.length]
<1>1. m = r
  BY DEF Good, Shape
<1>2. [r EXCEPT !.size = size] = [table |-> m.table, capacity |-> m.capacity,
                                  size |-> size, length |-> m.length]
  OBVIOUS
<1> HIDE DEF r
<1>3. n = [table |-> m.table, capacity |-> m.capacity,
           size |-> size, length |-> m.length]
  BY <1>1, <1>2
<1>4. /\ n.table = m.table /\ n.capacity = m.capacity
      /\ n.size = size /\ n.length = m.length
  BY <1>3
<1>5. Shape(n)
  BY <1>3, <1>4 DEF Good, Shape
<1> QED BY <1>4, <1>5 DEF Good, Holds

\* Walking all chains meets what the table holds, and no key twice.
LEMMA AllEntriesAre ==
  ASSUME NEW m, Good(m)
  PROVE  /\ AllEntries(m) \in Seq(Entry)
         /\ Distinct(AllEntries(m))
         /\ \A e : Has(AllEntries(m), e) <=> Holds(m, e)
<1> DEFINE s == [i \in 1 .. m.length |-> m.table[i - 1]]
<1>1. m.length \in Nat \ {0}
  BY DEF Good, Shape
<1>2. \A i \in 1 .. m.length : i - 1 \in 0 .. m.length - 1 /\ s[i] = m.table[i - 1]
  BY <1>1
<1>3. \A i \in 1 .. m.length : GoodChain(s[i], i - 1, m.length)
  BY <1>2 DEF Good
<1>4. s \in Seq(Seq(Entry)) /\ Len(s) = m.length
  <2> DEFINE l == m.length
             chain(i) == m.table[i - 1]
  <2>1. l \in Nat /\ \A i \in 1 .. l : chain(i) \in Seq(Entry)
    BY <1>1, <1>2, <1>3, Zenon DEF GoodChain
  <2>2. s = [i \in 1 .. l |-> chain(i)]
    OBVIOUS
  <2> HIDE DEF l, chain, s
  <2>3. s \in Seq(Seq(Entry)) /\ Len(s) = l
    BY <2>1, <2>2
  <2> QED BY <2>3 DEF l
<1>5. \A i \in 1 .. m.length : \A e :
        Has(s[i], e) <=> Holds(m, e) /\ e.hash % m.length = i - 1
  BY <1>2, HeldInChains
<1>6. AllEntries(m) = FoldLeft(Joined, << >>, s)
  BY DEF AllEntries
<1> HIDE DEF s
<1>7. KeysApart(s)
  <2>1. ASSUME NEW i \in 1 .. m.length, NEW k \in 1 .. m.length, NEW e, NEW f,
               Has(s[i], e), Has(s[k], f), e.key = f.key
        PROVE  i = k
    <3>1. Holds(m, e) /\ Holds(m, f) /\ e.hash % m.length = i - 1
          /\ f.hash % m.length = k - 1
      BY <1>5, <2>1
    <3>2. e = f
      BY <2>1, <3>1, OneHeldOfAKey
    <3> QED BY <3>1, <3>2
  <2> QED BY <1>3, <1>4, <2>1 DEF KeysApart, GoodChain
<1>8. Gathered(<< >>, AllEntries(m), s)
  BY <1>4, <1>6, AllGathered
<1>9. ASSUME NEW e
      PROVE  (\E i \in 1 .. m.length : Has(s[i], e)) <=> Holds(m, e)
  <2>1. ASSUME Holds(m, e) PROVE \E i \in 1 .. m.length : Has(s[i], e)
    <3>1. e.hash % m.length \in 0 .. m.length - 1
      BY <1>1, <2>1, IndexIsAChain DEF Holds, Entry
    <3> DEFINE i == (e.hash % m.length) + 1
    <3>2. i \in 1 .. m.length /\ e.hash % m.length = i - 1
      BY <1>1, <3>1
    <3> HIDE DEF i
    <3> QED BY <1>5, <2>1, <3>2
  <2> QED BY <1>5, <2>1
<1> QED BY <1>4, <1>7, <1>8, <1>9 DEF Gathered

-------------------------------------------------------------------------------
(* Entries move to a longer table.                                         *)

\* What one table holds and another one has besides.
Adds(m, n, e) == \A x : Holds(n, x) <=> x = e \/ Holds(m, x)

SameFields(m, n) ==
    n.capacity = m.capacity /\ n.size = m.size /\ n.length = m.length

\* An entry of a new key is put first in its chain (hashmap.c:171-179, 242-244).
LEMMA PutFirstIs ==
  ASSUME NEW m, Good(m), NEW e \in Entry, e.hash = HashCode[e.key],
         \A x : Holds(m, x) => x.key # e.key
  PROVE  /\ Good(PutFirst(m, e))
         /\ SameFields(m, PutFirst(m, e))
         /\ Adds(m, PutFirst(m, e), e)
<1> DEFINE i == e.hash % m.length
           chain == <<e>> \o m.table[i]
           n == PutFirst(m, e)
<1>1. i \in 0 .. m.length - 1
  BY IndexIsAChain DEF Good, Shape, Entry
<1>2. GoodChain(m.table[i], i, m.length)
  BY <1>1 DEF Good
<1>3. \A x : Has(m.table[i], x) => x.key # e.key
  BY <1>1, HeldInChains
<1>4. Belongs(e, i, m.length)
  BY DEF Belongs
<1>5. /\ GoodChain(chain, i, m.length)
      /\ \A x : Has(chain, x) <=> x = e \/ Has(m.table[i], x)
  BY <1>2, <1>3, <1>4, FirstOfChain
<1>6. n = [m EXCEPT !.table[i] = chain]
  BY DEF PutFirst
<1>7. \A x : Has(m.table[i], x) <=> Holds(m, x) /\ x.hash % m.length = i
  BY <1>1, HeldInChains
<1> HIDE DEF n, chain
<1>8. /\ Good(n) /\ SameFields(m, n)
      /\ \A x : Holds(n, x) <=>
           IF x \in Entry /\ x.hash % m.length = i THEN Has(chain, x)
                                                   ELSE Holds(m, x)
  BY <1>1, <1>5, <1>6, ChainReplaced DEF SameFields
<1>9. Adds(m, n, e)
  BY <1>5, <1>7, <1>8 DEF Adds
<1> QED BY <1>8, <1>9 DEF n

\* A table of empty chains.
LEMMA EmptyIsGood ==
  ASSUME NEW length \in Nat \ {0}, NEW capacity \in Nat, NEW size \in Nat,
         NEW m, m = [table |-> EmptyTable(length), capacity |-> capacity,
                     size |-> size, length |-> length]
  PROVE  Good(m) /\ \A e : ~ Holds(m, e)
<1>1. /\ m.table = [i \in 0 .. length - 1 |-> << >>] /\ m.capacity = capacity
      /\ m.size = size /\ m.length = length
  BY DEF EmptyTable
<1>2. Shape(m)
  BY <1>1 DEF Shape, EmptyTable
<1>3. \A i \in 0 .. length - 1 : m.table[i] = << >>
  BY <1>1
<1>4. << >> \in Seq(Entry) /\ 1 .. Len(<< >>) = {}
  OBVIOUS
<1>5. \A i : GoodChain(<< >>, i, length) /\ \A e : ~ Has(<< >>, e)
  BY <1>4 DEF GoodChain, Distinct, Has
<1>6. \A e \in Entry : e.hash % length \in 0 .. length - 1
  BY IndexIsAChain DEF Entry
<1> QED BY <1>1, <1>2, <1>3, <1>5, <1>6 DEF Good, Holds

\* Where the entries met so far have gone: from a table that held nothing to one
\* that holds these, of as many chains.
Moved(base, m, s) ==
    (/\ Good(base) /\ \A x : ~ Holds(base, x)
     /\ Distinct(s) /\ \A x : Has(s, x) => x.hash = HashCode[x.key])
    => /\ Good(m) /\ SameFields(base, m)
       /\ \A x : Holds(m, x) <=> Has(s, x)

Moves == INSTANCE Folding WITH op <- PutFirst, Inv <- Moved

\* A sequence with one more entry.
LEMMA OneMoreEntry ==
  ASSUME NEW s \in Seq(Entry), NEW e \in Entry
  PROVE  /\ \A x : Has(Append(s, e), x) <=> x = e \/ Has(s, x)
         /\ Distinct(Append(s, e)) =>
              Distinct(s) /\ \A x : Has(s, x) => x.key # e.key
<1> DEFINE t == Append(s, e)
           n == Len(s)
<1>1. /\ n \in Nat /\ Len(t) = n + 1 /\ t[n + 1] = e
      /\ \A j \in 1 .. n : t[j] = s[j]
  OBVIOUS
<1> HIDE DEF t
<1>2. \A j \in 1 .. n + 1 : j \in 1 .. n \/ j = n + 1
  BY <1>1
<1>3. \A j \in 1 .. n : j \in 1 .. n + 1 /\ j # n + 1
  BY <1>1
<1>4. n + 1 \in 1 .. n + 1
  BY <1>1
<1> HIDE DEF n
<1>5. \A x : (\E j \in 1 .. n + 1 : t[j] = x) <=> x = e \/ \E j \in 1 .. n : s[j] = x
  BY <1>1, <1>2, <1>3, <1>4, Zenon
<1>6. ASSUME \A j, k \in 1 .. n + 1 : t[j].key = t[k].key => j = k
      PROVE  /\ \A j, k \in 1 .. n : s[j].key = s[k].key => j = k
             /\ \A j \in 1 .. n : s[j].key # e.key
  BY <1>1, <1>3, <1>4, <1>6, Zenon
<1> QED BY <1>1, <1>5, <1>6, Zenon DEF Has, Distinct, t, n

\* One entry more moves.
LEMMA OneMoreMoved ==
  ASSUME NEW base, NEW m, NEW s \in Seq(Entry), NEW e \in Entry,
         Moved(base, m, s)
  PROVE  Moved(base, PutFirst(m, e), Append(s, e))
<1> DEFINE t == Append(s, e)
           n == PutFirst(m, e)
<1>1. /\ \A x : Has(t, x) <=> x = e \/ Has(s, x)
      /\ Distinct(t) => Distinct(s) /\ \A x : Has(s, x) => x.key # e.key
  BY OneMoreEntry
<1> HIDE DEF t, n
<1> SUFFICES ASSUME Good(base), \A x : ~ Holds(base, x), Distinct(t),
                    \A x : Has(t, x) => x.hash = HashCode[x.key]
             PROVE  /\ Good(n) /\ SameFields(base, n)
                    /\ \A x : Holds(n, x) <=> Has(t, x)
  BY DEF Moved, t, n
<1>2. /\ Good(m) /\ SameFields(base, m)
      /\ \A x : Holds(m, x) <=> Has(s, x)
  BY <1>1 DEF Moved
<1>3. e.hash = HashCode[e.key] /\ \A x : Holds(m, x) => x.key # e.key
  BY <1>1, <1>2
<1>4. Good(n) /\ SameFields(m, n) /\ Adds(m, n, e)
  BY <1>2, <1>3, PutFirstIs DEF n
<1> QED BY <1>1, <1>2, <1>4 DEF Adds, SameFields

\* All of them have.
LEMMA AllMoved ==
  ASSUME NEW base, NEW s \in Seq(Entry)
  PROVE  Moved(base, FoldLeft(PutFirst, base, s), s)
<1>1. Moved(base, base, << >>)
  <2>1. 1 .. Len(<< >>) = {}
    OBVIOUS
  <2> QED BY <2>1 DEF Moved, SameFields, Has
<1>2. \A a, t, e : (t \in Seq(Entry) /\ e \in Entry /\ Moved(base, a, t))
                     => Moved(base, PutFirst(a, e), Append(t, e))
  BY OneMoreMoved
<1>3. Moved(base, Moves!Folded(base, s), s)
  BY <1>1, <1>2, Moves!FoldLeftInduction
<1>4. Moves!Folded(base, s) = FoldLeft(PutFirst, base, s)
  BY DEF Moves!Folded, Moves!FoldLeft, FoldLeft, Moves!MapThenFoldSet,
         MapThenFoldSet, Moves!Max, Max
<1> QED BY <1>3, <1>4

\* A table is never shorter than the capacity it was made for, nor without a
\* chain (hashmap.c:89-95, 226-232).
LEMMA TableLengthIs ==
  ASSUME NEW capacity \in Nat
  PROVE  TableLength(capacity) \in Nat \ {0} /\ capacity <= TableLength(capacity)
<1> DEFINE length == (11 * capacity) \div 8
<1>1. length \in Nat /\ capacity <= length
  OBVIOUS
<1>2. TableLength(capacity) = IF length % 2 = 0 THEN length + 1 ELSE length
  BY DEF TableLength
<1> HIDE DEF length
<1>3. length % 2 # 0 => length # 0
  BY <1>1
<1> QED BY <1>1, <1>2, <1>3

\* A longer table holds what the table held (hashmap.c:222-252).
LEMMA ResizeIs ==
  ASSUME NEW m, Good(m)
  PROVE  /\ Good(resize(m))
         /\ resize(m).capacity = 2 * m.capacity
         /\ resize(m).size = m.size
         /\ resize(m).length = TableLength(2 * m.capacity)
         /\ \A e : Holds(resize(m), e) <=> Holds(m, e)
<1> DEFINE base == Longer(m)
           s == AllEntries(m)
<1>1. /\ m.capacity \in Nat /\ m.size \in Nat /\ 2 * m.capacity \in Nat
      /\ TableLength(2 * m.capacity) \in Nat \ {0}
  BY TableLengthIs DEF Good, Shape
<1>2. Good(base) /\ \A e : ~ Holds(base, e)
  BY <1>1, EmptyIsGood DEF Longer
<1>3. /\ base.capacity = 2 * m.capacity /\ base.size = m.size
      /\ base.length = TableLength(2 * m.capacity)
  BY DEF Longer
<1>4. /\ s \in Seq(Entry) /\ Distinct(s)
      /\ \A e : Has(s, e) <=> Holds(m, e)
  BY AllEntriesAre
<1>5. \A e : Holds(m, e) => e.hash = HashCode[e.key]
  <2>1. \A e \in Entry : e.hash % m.length \in 0 .. m.length - 1
    BY IndexIsAChain DEF Entry, Good, Shape
  <2> QED BY <2>1 DEF Good, GoodChain, Holds, Has, Belongs
<1>6. resize(m) = FoldLeft(PutFirst, base, s)
  BY DEF resize
<1> HIDE DEF base, s
<1>7. Moved(base, resize(m), s)
  BY <1>4, <1>6, AllMoved
<1>8. /\ Good(resize(m)) /\ SameFields(base, resize(m))
      /\ \A x : Holds(resize(m), x) <=> Has(s, x)
  BY <1>2, <1>4, <1>5, <1>7 DEF Moved
<1> QED BY <1>3, <1>4, <1>8 DEF SameFields

-------------------------------------------------------------------------------
(* What the calls do to the map.                                           *)

\* The keys the table holds.
Keys(m) == {key \in Key : \E e : Holds(m, e) /\ e.key = key}

\* The size counts them.
Sized(m) == IsFiniteSet(Keys(m)) /\ m.size = Cardinality(Keys(m))

\* The table grew whenever it had to.
Grew(m) == /\ m.length = TableLength(m.capacity)
           /\ m.capacity > 0 => m.size <= m.capacity

\* What a map always is: the inductive invariant.
IsHashMap(m) == Good(m) /\ Sized(m) /\ Grew(m)

IInv == IsHashMap(hashMap)

\* What the table holds after the key got the value, and after it has gone.
HoldsAfterPut(m, n, key, value) ==
    \A e : Holds(n, e) <=> \/ e = NewEntry(key, value)
                           \/ Holds(m, e) /\ e.key # key

HoldsAfterRemove(m, n, key) ==
    \A e : Holds(n, e) <=> Holds(m, e) /\ e.key # key

\* An entry of a key and a value.
LEMMA NewEntryIs ==
  ASSUME NEW key \in Key, NEW value \in Value
  PROVE  /\ NewEntry(key, value) \in Entry
         /\ NewEntry(key, value).key = key
         /\ NewEntry(key, value).value = value
         /\ NewEntry(key, value).hash = HashCode[key]
BY HashMapAssumption DEF NewEntry, Entry

\* A map has room for one entry more after its table grew, and holds the same
\* (hashmap.c:167-169).
LEMMA RoomyIs ==
  ASSUME NEW m, Good(m), Grew(m)
  PROVE  /\ Good(Roomy(m)) /\ Grew(Roomy(m))
         /\ Roomy(m).size = m.size
         /\ Roomy(m).capacity > 0 => Roomy(m).size + 1 <= Roomy(m).capacity
         /\ \A e : Holds(Roomy(m), e) <=> Holds(m, e)
<1>1. m.capacity \in Nat /\ m.size \in Nat
  BY DEF Good, Shape
<1>2. CASE m.size = m.capacity
  <2> DEFINE n == resize(m)
  <2>1. /\ Good(n) /\ n.capacity = 2 * m.capacity /\ n.size = m.size
        /\ n.length = TableLength(2 * m.capacity)
        /\ \A e : Holds(n, e) <=> Holds(m, e)
    BY ResizeIs
  <2>2. Roomy(m) = n
    BY <1>2 DEF Roomy
  <2> HIDE DEF n
  <2>3. n.capacity > 0 => n.size + 1 <= n.capacity /\ n.size <= n.capacity
    BY <1>1, <1>2, <2>1
  <2> QED BY <2>1, <2>2, <2>3 DEF Grew
<1>3. CASE m.size # m.capacity
  <2>1. Roomy(m) = m
    BY <1>3 DEF Roomy
  <2>2. m.capacity > 0 => m.size + 1 <= m.capacity
    BY <1>1, <1>3 DEF Grew
  <2> QED BY <2>1, <2>2
<1> QED BY <1>2, <1>3

\* The key of an entry held is a key of the map, and so is the key put.
LEMMA KeysAfterPut ==
  ASSUME NEW m, NEW n, NEW key \in Key, NEW value \in Value,
         HoldsAfterPut(m, n, key, value)
  PROVE  Keys(n) = Keys(m) \union {key}
<1>1. NewEntry(key, value).key = key
  BY NewEntryIs
<1>2. Holds(n, NewEntry(key, value))
  BY DEF HoldsAfterPut
<1>3. ASSUME NEW k \in Key, k # key
      PROVE  (\E e : Holds(n, e) /\ e.key = k) <=> (\E e : Holds(m, e) /\ e.key = k)
  BY <1>1, <1>3 DEF HoldsAfterPut
<1> QED BY <1>1, <1>2, <1>3 DEF Keys

LEMMA KeysAfterRemove ==
  ASSUME NEW m, NEW n, NEW key \in Key, HoldsAfterRemove(m, n, key)
  PROVE  Keys(n) = Keys(m) \ {key}
BY DEF HoldsAfterRemove, Keys

\* A put keeps the map a map: the key has the value, every other key the value it
\* had (hashmap.c:155-182).
LEMMA PutIntoIs ==
  ASSUME NEW m, IsHashMap(m), NEW key \in Key, NEW value \in Value
  PROVE  /\ IsHashMap(PutInto(m, key, value))
         /\ HoldsAfterPut(m, PutInto(m, key, value), key, value)
<1> DEFINE n == PutInto(m, key, value)
           p == Place(m, key)
           e == NewEntry(key, value)
<1>0. Good(m) /\ Sized(m) /\ Grew(m)
  BY DEF IsHashMap
<1>1. e \in Entry /\ e.key = key /\ e.hash = HashCode[key]
  BY NewEntryIs
<1>2. m.size \in Nat /\ m.capacity \in Nat
  BY <1>0 DEF Good, Shape
<1>3. CASE p # 0
  <2> DEFINE i == IndexOf(m, key)
             chain == [m.table[i] EXCEPT ![p].value = value]
  <2>1. /\ i \in 0 .. m.length - 1 /\ HashCode[key] % m.length = i
        /\ GoodChain(m.table[i], i, m.length) /\ m.table[i] = Chain(m, key)
    BY <1>0, IndexOfKey DEF Good, Chain
  <2>2. /\ p \in 1 .. Len(m.table[i]) /\ m.table[i][p].key = key
        /\ Holds(m, m.table[i][p])
    BY <1>0, <1>3, <2>1, LookedUp
  <2>3. /\ GoodChain(chain, i, m.length)
        /\ \A x : Has(chain, x) <=> x = e \/ (Has(m.table[i], x) /\ x.key # key)
    <3> DEFINE old == m.table[i]
    <3>1. GoodChain(old, i, m.length) /\ p \in 1 .. Len(old) /\ old[p].key = key
      BY <2>1, <2>2
    <3>2. chain = [old EXCEPT ![p].value = value]
      OBVIOUS
    <3> HIDE DEF old, chain, i, p
    <3>3. /\ GoodChain([old EXCEPT ![p].value = value], i, m.length)
          /\ \A x : Has([old EXCEPT ![p].value = value], x)
               <=> \/ x = NewEntry(old[p].key, value)
                   \/ Has(old, x) /\ x.key # old[p].key
      BY <3>1, OtherValue
    <3> QED BY <3>1, <3>2, <3>3 DEF old
  <2>4. n = [m EXCEPT !.table[i] = chain]
    BY <1>3 DEF PutInto
  <2>5. \A x : Has(m.table[i], x) <=> Holds(m, x) /\ x.hash % m.length = i
    BY <1>0, <2>1, HeldInChains
  <2>6. \A x : Holds(m, x) /\ x.key = key => Has(m.table[i], x)
    BY <1>0, <2>1, HeldOfKey
  <2> HIDE DEF n, chain
  <2>7. /\ Good(n) /\ n.capacity = m.capacity /\ n.size = m.size
        /\ n.length = m.length
        /\ \A x : Holds(n, x) <=>
             IF x \in Entry /\ x.hash % m.length = i THEN Has(chain, x)
                                                     ELSE Holds(m, x)
    BY <1>0, <2>1, <2>3, <2>4, ChainReplaced
  <2>8. HoldsAfterPut(m, n, key, value)
    <3>1. \A x : Holds(m, x) => x \in Entry
      BY DEF Holds
    <3>2. e.hash % m.length = i
      BY <1>1, <2>1
    <3> HIDE DEF e, i, p
    <3>3. \A x : Holds(n, x) <=> x = e \/ (Holds(m, x) /\ x.key # key)
      BY <1>1, <2>3, <2>5, <2>6, <2>7, <3>1, <3>2
    <3> QED BY <3>3 DEF HoldsAfterPut, e
  <2>9. key \in Keys(m)
    BY <2>2 DEF Keys
  <2>10. Keys(n) = Keys(m)
    BY <2>8, <2>9, KeysAfterPut
  <2>11. Sized(n) /\ Grew(n)
    BY <1>0, <2>7, <2>10 DEF Sized, Grew
  <2> QED BY <2>7, <2>8, <2>11 DEF IsHashMap, n
<1>4. CASE p = 0
  <2> DEFINE r == Roomy(m)
             c == [r EXCEPT !.size = m.size + 1]
  <2>1. /\ Good(r) /\ Grew(r) /\ r.size = m.size
        /\ r.capacity > 0 => r.size + 1 <= r.capacity
        /\ \A x : Holds(r, x) <=> Holds(m, x)
    BY <1>0, RoomyIs
  <2>2. n = PutFirst(c, e)
    BY <1>4, <2>1 DEF PutInto
  <2> HIDE DEF r
  <2>3. /\ Good(c) /\ c.capacity = r.capacity /\ c.size = m.size + 1
        /\ c.length = r.length
        /\ \A x : Holds(c, x) <=> Holds(r, x)
    BY <1>2, <2>1, Counted
  <2>4. \A x : Holds(m, x) => x.key # key
    BY <1>0, <1>4, LookedUp
  <2> HIDE DEF c, n, e
  <2>5. Good(n) /\ SameFields(c, n) /\ Adds(c, n, e)
    BY <1>1, <2>1, <2>2, <2>3, <2>4, PutFirstIs
  <2>6. HoldsAfterPut(m, n, key, value)
    BY <2>1, <2>3, <2>4, <2>5 DEF HoldsAfterPut, Adds, e
  <2>7. Keys(n) = Keys(m) \union {key} /\ key \notin Keys(m)
    BY <2>4, <2>6, KeysAfterPut DEF Keys
  <2>8. Sized(n)
    <3>1. /\ IsFiniteSet(Keys(m) \union {key})
          /\ Cardinality(Keys(m) \union {key}) = Cardinality(Keys(m)) + 1
      BY <1>0, <2>7, FS_AddElement DEF Sized
    <3>2. n.size = m.size + 1
      BY <2>3, <2>5 DEF SameFields
    <3> QED BY <1>0, <2>7, <3>1, <3>2 DEF Sized
  <2>9. Grew(n)
    BY <2>1, <2>3, <2>5 DEF Grew, SameFields
  <2> QED BY <2>5, <2>6, <2>8, <2>9 DEF IsHashMap, n
<1> QED BY <1>3, <1>4

\* A removal keeps the map a map: the key has gone and no other
\* (hashmap.c:196-218).
LEMMA WithoutIs ==
  ASSUME NEW m, IsHashMap(m), NEW key \in Key
  PROVE  /\ IsHashMap(Without(m, key))
         /\ HoldsAfterRemove(m, Without(m, key), key)
<1> DEFINE n == Without(m, key)
           p == Place(m, key)
<1>0. Good(m) /\ Sized(m) /\ Grew(m)
  BY DEF IsHashMap
<1>2. m.size \in Nat /\ m.capacity \in Nat
  BY <1>0 DEF Good, Shape
<1>3. CASE p # 0
  <2> DEFINE i == IndexOf(m, key)
             chain == RemoveAt(m.table[i], p)
             r == [m EXCEPT !.table[i] = chain]
  <2>1. /\ i \in 0 .. m.length - 1 /\ HashCode[key] % m.length = i
        /\ GoodChain(m.table[i], i, m.length) /\ m.table[i] = Chain(m, key)
    BY <1>0, IndexOfKey DEF Good, Chain
  <2>2. /\ p \in 1 .. Len(m.table[i]) /\ m.table[i][p].key = key
        /\ Holds(m, m.table[i][p])
    BY <1>0, <1>3, <2>1, LookedUp
  <2>3. /\ GoodChain(chain, i, m.length)
        /\ \A x : Has(chain, x) <=> Has(m.table[i], x) /\ x.key # key
    BY <2>1, <2>2, OutOfChain
  <2>4. n = [r EXCEPT !.size = m.size - 1]
    <3>1. n = [m EXCEPT !.table[i] = chain, !.size = m.size - 1]
      BY <1>3 DEF Without
    <3> HIDE DEF n, chain, i
    <3> QED BY <3>1
  <2>5. \A x : Has(m.table[i], x) <=> Holds(m, x) /\ x.hash % m.length = i
    BY <1>0, <2>1, HeldInChains
  <2>6. \A x : Holds(m, x) /\ x.key = key => Has(m.table[i], x)
    BY <1>0, <2>1, HeldOfKey
  <2>7. /\ Good(r) /\ r.capacity = m.capacity /\ r.size = m.size
        /\ r.length = m.length
        /\ \A x : Holds(r, x) <=>
             IF x \in Entry /\ x.hash % m.length = i THEN Has(chain, x)
                                                     ELSE Holds(m, x)
    <3> HIDE DEF chain, i, r
    <3> QED BY <1>0, <2>1, <2>3, ChainReplaced DEF r
  <2>8. HoldsAfterRemove(m, r, key)
    <3>1. \A x : Holds(m, x) => x \in Entry
      BY DEF Holds
    <3> HIDE DEF i, p, r, chain
    <3>2. \A x : Holds(r, x) <=> Holds(m, x) /\ x.key # key
      BY <2>3, <2>5, <2>6, <2>7, <3>1
    <3> QED BY <3>2 DEF HoldsAfterRemove
  <2>9. key \in Keys(m) /\ Keys(r) = Keys(m) \ {key}
    BY <2>2, <2>8, KeysAfterRemove DEF Keys
  <2> HIDE DEF r, n
  <2>10. /\ IsFiniteSet(Keys(r)) /\ Cardinality(Keys(r)) = m.size - 1
         /\ m.size - 1 \in Nat
    <3>1. /\ IsFiniteSet(Keys(r))
          /\ Cardinality(Keys(r)) = Cardinality(Keys(m)) - 1
      BY <1>0, <2>9, FS_RemoveElement DEF Sized
    <3>2. Cardinality(Keys(r)) \in Nat
      BY <3>1, FS_CardinalityType
    <3> QED BY <1>0, <3>1, <3>2 DEF Sized
  <2>11. /\ Good(n) /\ n.capacity = r.capacity /\ n.size = m.size - 1
         /\ n.length = r.length
         /\ \A x : Holds(n, x) <=> Holds(r, x)
    BY <2>4, <2>7, <2>10, Counted
  <2>12. HoldsAfterRemove(m, n, key) /\ Keys(n) = Keys(r)
    BY <2>8, <2>11 DEF HoldsAfterRemove, Keys
  <2>13. Sized(n)
    BY <2>10, <2>11, <2>12 DEF Sized
  <2>14. Grew(n)
    BY <1>0, <1>2, <2>7, <2>11 DEF Grew
  <2> QED BY <2>11, <2>12, <2>13, <2>14 DEF IsHashMap, n
<1>4. CASE p = 0
  <2>1. n = m
    BY <1>4 DEF Without
  <2>2. \A x : Holds(m, x) => x.key # key
    BY <1>0, <1>4, LookedUp
  <2> QED BY <2>1, <2>2 DEF HoldsAfterRemove
<1> QED BY <1>3, <1>4

-------------------------------------------------------------------------------
(* Batches.                                                                *)

\* The i-th pair is the last one of its key.
LastOf(s, i) == \A j \in 1 .. Len(s) : j > i => s[j][1] # s[i][1]

\* A map after the pairs met so far: each key of theirs has the value of its last
\* pair, every other key what it had.
HoldsAfterPairs(base, m, s) ==
    \A e : Holds(m, e) <=>
      \/ \E i \in 1 .. Len(s) : LastOf(s, i) /\ e = NewEntry(s[i][1], s[i][2])
      \/ Holds(base, e) /\ \A i \in 1 .. Len(s) : s[i][1] # e.key

\* Every key of the pairs has a last pair.
HaveLast(s) ==
    \A i \in 1 .. Len(s) : \E j \in 1 .. Len(s) : LastOf(s, j) /\ s[j][1] = s[i][1]

PairsPut(base, m, s) ==
    /\ HaveLast(s)
    /\ IsHashMap(base) => IsHashMap(m) /\ HoldsAfterPairs(base, m, s)

Puts == INSTANCE Folding WITH op <- PutPair, Inv <- PairsPut

\* No pair has been met yet.
LEMMA NoPairPut ==
  ASSUME NEW base
  PROVE  PairsPut(base, base, << >>)
<1>1. 1 .. Len(<< >>) = {}
  OBVIOUS
<1> QED BY <1>1 DEF PairsPut, HaveLast, HoldsAfterPairs

\* The last pairs of a sequence with one more.
OneMorePairLast(s, t, pair) ==
    /\ Len(s) \in Nat /\ Len(t) = Len(s) + 1 /\ t[Len(s) + 1] = pair
    /\ LastOf(t, Len(s) + 1)
    /\ \A i \in 1 .. Len(s) :
         t[i] = s[i] /\ (LastOf(t, i) <=> LastOf(s, i) /\ s[i][1] # pair[1])

\* Only the new pair and the last ones of other keys are the last of theirs.
LEMMA LastOfAppend ==
  ASSUME NEW s \in Seq(Key \X Value), NEW pair \in Key \X Value,
         NEW t, t = Append(s, pair)
  PROVE  OneMorePairLast(s, t, pair)
<1> DEFINE n == Len(s)
<1>1. /\ n \in Nat /\ Len(t) = n + 1 /\ t[n + 1] = pair
      /\ \A i \in 1 .. n : t[i] = s[i]
  OBVIOUS
<1> HIDE DEF n
<1>2. \A i \in 1 .. n + 1 : i \in 1 .. n \/ i = n + 1
  BY <1>1
<1>3. \A i \in 1 .. n : i \in 1 .. n + 1 /\ n + 1 > i
  BY <1>1
<1>4. n + 1 \in 1 .. n + 1 /\ \A j \in 1 .. n + 1 : ~ (j > n + 1)
  BY <1>1
<1>5. LastOf(t, n + 1)
  BY <1>1, <1>4 DEF LastOf
<1>6. ASSUME NEW i \in 1 .. n
      PROVE  LastOf(t, i) <=> LastOf(s, i) /\ s[i][1] # pair[1]
  <2>1. LastOf(t, i) <=> \A j \in 1 .. n + 1 : j > i => t[j][1] # t[i][1]
    BY <1>1 DEF LastOf
  <2>2. LastOf(s, i) <=> \A j \in 1 .. n : j > i => s[j][1] # s[i][1]
    BY DEF LastOf, n
  <2> QED BY <1>1, <1>2, <1>3, <1>4, <2>1, <2>2, Zenon
<1> QED BY <1>1, <1>5, <1>6 DEF OneMorePairLast, n

\* One pair more.
LEMMA OneMorePair ==
  ASSUME NEW base, NEW m, NEW s \in Seq(Key \X Value),
         NEW pair \in Key \X Value, PairsPut(base, m, s)
  PROVE  PairsPut(base, PutPair(m, pair), Append(s, pair))
<1> DEFINE t == Append(s, pair)
           n == Len(s)
           r == PutPair(m, pair)
<1>1. /\ n \in Nat /\ Len(t) = n + 1 /\ t[n + 1] = pair
      /\ LastOf(t, n + 1)
      /\ \A i \in 1 .. n :
           t[i] = s[i] /\ (LastOf(t, i) <=> LastOf(s, i) /\ s[i][1] # pair[1])
  <2>1. t = Append(s, pair)
    OBVIOUS
  <2> HIDE DEF t
  <2>2. OneMorePairLast(s, t, pair)
    BY <2>1, LastOfAppend
  <2> QED BY <2>2 DEF OneMorePairLast
<1> HIDE DEF t, n
<1>2. \A i \in 1 .. n + 1 : i \in 1 .. n \/ i = n + 1
  BY <1>1
<1>3. /\ \A i \in 1 .. n : i \in 1 .. n + 1
      /\ n + 1 \in 1 .. n + 1
  BY <1>1
<1>4. HaveLast(t)
  <2>1. HaveLast(s)
    BY DEF PairsPut
  <2>2. \A i \in 1 .. n : \E j \in 1 .. n : LastOf(s, j) /\ s[j][1] = s[i][1]
    BY <2>1 DEF HaveLast, n
  <2>3. \A i \in 1 .. n + 1 :
          \E j \in 1 .. n + 1 : LastOf(t, j) /\ t[j][1] = t[i][1]
    <3> SUFFICES ASSUME NEW i \in 1 .. n + 1
                 PROVE  \E j \in 1 .. n + 1 : LastOf(t, j) /\ t[j][1] = t[i][1]
      OBVIOUS
    <3>1. CASE t[i][1] = pair[1]
      BY <1>1, <1>3, <3>1
    <3>2. CASE t[i][1] # pair[1]
      <4>1. i \in 1 .. n /\ t[i] = s[i]
        BY <1>1, <1>2, <3>2
      <4>2. PICK j \in 1 .. n : LastOf(s, j) /\ s[j][1] = s[i][1]
        BY <2>2, <4>1
      <4>3. LastOf(t, j) /\ t[j] = s[j] /\ j \in 1 .. n + 1
        BY <1>1, <1>3, <3>2, <4>1, <4>2
      <4> QED BY <4>1, <4>2, <4>3
    <3> QED BY <3>1, <3>2
  <2> QED BY <1>1, <2>3 DEF HaveLast
<1>5. ASSUME IsHashMap(base) PROVE IsHashMap(r) /\ HoldsAfterPairs(base, r, t)
  <2>1. IsHashMap(m) /\ HoldsAfterPairs(base, m, s)
    BY <1>5 DEF PairsPut
  <2>2. pair[1] \in Key /\ pair[2] \in Value
    OBVIOUS
  <2>3. IsHashMap(r) /\ HoldsAfterPut(m, r, pair[1], pair[2])
    BY <2>1, <2>2, PutIntoIs DEF PutPair
  <2> HIDE DEF r
  <2>4. ASSUME NEW e
        PROVE  Holds(r, e) <=>
                 \/ \E i \in 1 .. n + 1 :
                      LastOf(t, i) /\ e = NewEntry(t[i][1], t[i][2])
                 \/ Holds(base, e) /\ \A i \in 1 .. n + 1 : t[i][1] # e.key
    <3>1. Holds(r, e) <=> \/ e = NewEntry(pair[1], pair[2])
                          \/ Holds(m, e) /\ e.key # pair[1]
      BY <2>3 DEF HoldsAfterPut
    <3>2. Holds(m, e) <=>
            \/ \E i \in 1 .. n : LastOf(s, i) /\ e = NewEntry(s[i][1], s[i][2])
            \/ Holds(base, e) /\ \A i \in 1 .. n : s[i][1] # e.key
      BY <2>1 DEF HoldsAfterPairs, n
    <3>3. \A i : e = NewEntry(s[i][1], s[i][2]) => e.key = s[i][1]
      BY DEF NewEntry
    <3>4. (\E i \in 1 .. n + 1 : LastOf(t, i) /\ e = NewEntry(t[i][1], t[i][2]))
            <=> \/ e = NewEntry(pair[1], pair[2])
                \/ \E i \in 1 .. n : /\ LastOf(s, i) /\ s[i][1] # pair[1]
                                     /\ e = NewEntry(s[i][1], s[i][2])
      BY <1>1, <1>2, <1>3, Zenon
    <3>5. (\A i \in 1 .. n + 1 : t[i][1] # e.key)
            <=> e.key # pair[1] /\ \A i \in 1 .. n : s[i][1] # e.key
      BY <1>1, <1>2, <1>3, Zenon
    <3> QED BY <3>1, <3>2, <3>3, <3>4, <3>5
  <2> QED BY <1>1, <2>3, <2>4 DEF HoldsAfterPairs
<1> QED BY <1>4, <1>5 DEF PairsPut, t, r

\* The whole batch (hashmap.c:184-194).
LEMMA PairsPutIs ==
  ASSUME NEW base, IsHashMap(base), NEW s \in Seq(Key \X Value)
  PROVE  /\ IsHashMap(FoldLeft(PutPair, base, s))
         /\ HoldsAfterPairs(base, FoldLeft(PutPair, base, s), s)
         /\ HaveLast(s)
<1>1. \A a, t, e : (t \in Seq(Key \X Value) /\ e \in Key \X Value
                    /\ PairsPut(base, a, t))
                     => PairsPut(base, PutPair(a, e), Append(t, e))
  BY OneMorePair
<1>2. PairsPut(base, Puts!Folded(base, s), s)
  <2>1. PairsPut(base, base, << >>)
    BY NoPairPut
  <2> QED BY <1>1, <2>1, Puts!FoldLeftInduction
<1>3. Puts!Folded(base, s) = FoldLeft(PutPair, base, s)
  BY DEF Puts!Folded, Puts!FoldLeft, FoldLeft, Puts!MapThenFoldSet,
         MapThenFoldSet, Puts!Max, Max
<1>4. PairsPut(base, FoldLeft(PutPair, base, s), s)
  BY <1>2, <1>3
<1> QED BY <1>4 DEF PairsPut

\* putAll puts the pairs in their order, putFromStack from the last to the first
\* (httprequest.linux.asm:68-115 pushed them).
LEMMA BatchesArePairs ==
  ASSUME NEW pairs \in Seq(Key \X Value)
  PROVE  /\ putAll(ElementArray(pairs), 2 * Len(pairs)) <=>
              /\ hashMap' = FoldLeft(PutPair, hashMap, pairs)
              /\ result' = Returned("putAll", NULL)
         /\ putFromStack(Stack(pairs), 2 * Len(pairs)) <=>
              /\ hashMap' = FoldLeft(PutPair, hashMap, Reverse(pairs))
              /\ result' = Returned("putFromStack", NULL)
         /\ Reverse(pairs) \in Seq(Key \X Value)
<1> DEFINE n == Len(pairs)
           array == ElementArray(pairs)
           stack == Stack(pairs)
<1>1. n \in Nat /\ (2 * n) \div 2 = n
  OBVIOUS
<1>2. \A i \in 1 .. n : pairs[i] \in Key \X Value
  OBVIOUS
<1>3. \A p \in Key \X Value : p = <<p[1], p[2]>>
  OBVIOUS
<1>4. ASSUME NEW i \in 1 .. n
      PROVE  /\ 2 * i - 2 \in 0 .. 2 * n - 1 /\ 2 * i - 1 \in 0 .. 2 * n - 1
             /\ (2 * i - 2) \div 2 = i - 1 /\ (2 * i - 2) % 2 = 0
             /\ (2 * i - 1) \div 2 = i - 1 /\ (2 * i - 1) % 2 = 1
  BY <1>1
<1>5. pairs = [i \in 1 .. n |-> pairs[i]]
  OBVIOUS
<1> HIDE DEF n
<1>6. ASSUME NEW i \in 1 .. n
      PROVE  <<array[2 * i - 2], array[2 * i - 1]>> = pairs[i]
  <2>1. /\ array[2 * i - 2] = pairs[((2 * i - 2) \div 2) + 1][((2 * i - 2) % 2) + 1]
        /\ array[2 * i - 1] = pairs[((2 * i - 1) \div 2) + 1][((2 * i - 1) % 2) + 1]
    BY <1>4, Zenon DEF ElementArray, n
  <2>2. (i - 1) + 1 = i /\ 0 + 1 = 1 /\ 1 + 1 = 2
    BY <1>1
  <2>3. array[2 * i - 2] = pairs[i][1] /\ array[2 * i - 1] = pairs[i][2]
    BY <1>4, <2>1, <2>2, Zenon
  <2> QED BY <1>2, <1>3, <2>3, Zenon
<1>7. ASSUME NEW i \in 1 .. n
      PROVE  /\ (n - i) + 1 \in 1 .. n
             /\ <<stack[2 * i - 1], stack[2 * i - 2]>> = pairs[(n - i) + 1]
  <2>1. /\ stack[2 * i - 2] = pairs[n - ((2 * i - 2) \div 2)][2 - ((2 * i - 2) % 2)]
        /\ stack[2 * i - 1] = pairs[n - ((2 * i - 1) \div 2)][2 - ((2 * i - 1) % 2)]
    BY <1>4, Zenon DEF Stack, n
  <2>2. n - (i - 1) = (n - i) + 1 /\ 2 - 0 = 2 /\ 2 - 1 = 1
    BY <1>1
  <2>3. (n - i) + 1 \in 1 .. n
    BY <1>1
  <2>4. /\ stack[2 * i - 2] = pairs[(n - i) + 1][2]
        /\ stack[2 * i - 1] = pairs[(n - i) + 1][1]
    BY <1>4, <2>1, <2>2, Zenon
  <2> QED BY <1>2, <1>3, <2>3, <2>4, Zenon
<1> HIDE DEF array, stack
<1>8. [i \in 1 .. (2 * n) \div 2 |-> <<array[2 * i - 2], array[2 * i - 1]>>] = pairs
  <2>1. [i \in 1 .. n |-> <<array[2 * i - 2], array[2 * i - 1]>>]
          = [i \in 1 .. n |-> pairs[i]]
    BY <1>6, Zenon
  <2> QED BY <1>1, <1>5, <2>1, Zenon
<1>9. [i \in 1 .. (2 * n) \div 2 |-> <<stack[2 * i - 1], stack[2 * i - 2]>>]
        = Reverse(pairs)
  <2>1. [i \in 1 .. n |-> <<stack[2 * i - 1], stack[2 * i - 2]>>]
          = [i \in 1 .. n |-> pairs[(n - i) + 1]]
    BY <1>7, Zenon
  <2>2. Reverse(pairs) = [i \in 1 .. n |-> pairs[(n - i) + 1]]
    BY DEF Reverse, n
  <2> QED BY <1>1, <2>1, <2>2, Zenon
<1>10. Reverse(pairs) \in Seq(Key \X Value)
  <2>1. \A i \in 1 .. n : pairs[(n - i) + 1] \in Key \X Value
    BY <1>2, <1>7
  <2>2. Reverse(pairs) = [i \in 1 .. n |-> pairs[(n - i) + 1]]
    BY DEF Reverse, n
  <2> DEFINE S == Key \X Value
             f(i) == pairs[(n - i) + 1]
  <2>3. \A i \in 1 .. n : f(i) \in S
    BY <2>1
  <2>4. Reverse(pairs) = [i \in 1 .. n |-> f(i)]
    BY <2>2
  <2> HIDE DEF S, f
  <2>5. [i \in 1 .. n |-> f(i)] \in Seq(S)
    BY <1>1, <2>3
  <2> QED BY <2>4, <2>5 DEF S
<1> QED BY <1>8, <1>9, <1>10, Zenon DEF putAll, putFromStack, n, array, stack

-------------------------------------------------------------------------------
(* The invariant.                                                          *)

\* A map that holds nothing: a new one, or one that was cleared.
LEMMA EmptyIsHashMap ==
  ASSUME NEW capacity \in Nat, NEW m,
         m = [table |-> EmptyTable(TableLength(capacity)), capacity |-> capacity,
              size |-> 0, length |-> TableLength(capacity)]
  PROVE  IsHashMap(m) /\ Keys(m) = {}
<1>1. TableLength(capacity) \in Nat \ {0}
  BY TableLengthIs
<1>2. Good(m) /\ \A e : ~ Holds(m, e)
  BY <1>1, EmptyIsGood
<1>3. Keys(m) = {}
  BY <1>2 DEF Keys
<1>4. m.size = 0 /\ m.capacity = capacity /\ m.length = TableLength(capacity)
  OBVIOUS
<1>5. Sized(m)
  BY <1>3, <1>4, FS_EmptySet DEF Sized
<1> QED BY <1>2, <1>3, <1>4, <1>5 DEF IsHashMap, Grew

\* Rounding up to a multiple.
LEMMA RoundedIsNat ==
  ASSUME NEW requested \in Nat
  PROVE  ((requested + Multiple - 1) \div Multiple) * Multiple \in Nat
<1>1. Multiple \in Nat /\ Multiple > 0
  BY HashMapAssumption
<1>2. (requested + Multiple - 1) \div Multiple \in Nat
  BY <1>1
<1> QED BY <1>1, <1>2

\* A new map is a map of nothing (hashmap.c:85-106).
LEMMA InitHashMapIs ==
  ASSUME NEW requested \in Capacities
  PROVE  /\ IsHashMap(initHashMap(requested))
         /\ Keys(initHashMap(requested)) = {}
<1> DEFINE capacity == ((requested + Multiple - 1) \div Multiple) * Multiple
           m == initHashMap(requested)
<1>1. capacity \in Nat
  BY RoundedIsNat, HashMapAssumption
<1>2. m = [table |-> EmptyTable(TableLength(capacity)), capacity |-> capacity,
           size |-> 0, length |-> TableLength(capacity)]
  BY DEF initHashMap
<1> HIDE DEF capacity, m
<1>3. IsHashMap(m) /\ Keys(m) = {}
  BY <1>1, <1>2, EmptyIsHashMap
<1> QED BY <1>3 DEF m

\* A cleared map keeps its table and capacity (hashmap.c:116-129).
LEMMA ClearedIs ==
  ASSUME NEW m, IsHashMap(m), NEW n,
         n = [m EXCEPT !.table = EmptyTable(m.length), !.size = 0]
  PROVE  IsHashMap(n) /\ Keys(n) = {}
<1> DEFINE r == [table |-> m.table, capacity |-> m.capacity,
                 size |-> m.size, length |-> m.length]
           table == EmptyTable(m.length)
<1>1. m = r /\ m.capacity \in Nat /\ m.length = TableLength(m.capacity)
  BY DEF IsHashMap, Good, Shape, Grew
<1> HIDE DEF table
<1>2. [r EXCEPT !.table = table]
        = [table |-> table, capacity |-> m.capacity, size |-> m.size,
           length |-> m.length]
  OBVIOUS
<1> DEFINE a == [m EXCEPT !.table = table]
<1>3. n = [a EXCEPT !.size = 0]
  BY DEF table
<1>4. a = [table |-> table, capacity |-> m.capacity, size |-> m.size,
           length |-> m.length]
  BY <1>1, <1>2
<1> HIDE DEF r, a
<1>5. n = [table |-> table, capacity |-> m.capacity, size |-> 0, length |-> m.length]
  BY <1>3, <1>4
<1> QED BY <1>1, <1>5, EmptyIsHashMap DEF table

\* The initial maps.
LEMMA InitKeeps == Init => IInv
BY InitHashMapIs DEF Init, IInv

\* Every call keeps the map a map.
LEMMA NextKeeps == IInv /\ [Next]_vars => IInv'
<1> SUFFICES ASSUME IInv, [Next]_vars PROVE IsHashMap(hashMap')
  BY DEF IInv
<1>0. IsHashMap(hashMap)
  BY DEF IInv
<1>1. ASSUME NEW key \in Key, remove(key) PROVE IsHashMap(hashMap')
  BY <1>0, <1>1, WithoutIs DEF remove
<1>2. ASSUME NEW key \in Key, get(key) PROVE IsHashMap(hashMap')
  BY <1>0, <1>2 DEF get
<1>3. ASSUME NEW key \in Key, containsKey(key) PROVE IsHashMap(hashMap')
  BY <1>0, <1>3 DEF containsKey
<1>4. ASSUME NEW key \in Key, NEW value \in Value, put(key, value)
      PROVE  IsHashMap(hashMap')
  BY <1>0, <1>4, PutIntoIs DEF put
<1>5. ASSUME NEW pairs \in Batches,
             putAll(ElementArray(pairs), 2 * Len(pairs))
      PROVE  IsHashMap(hashMap')
  <2>1. pairs \in Seq(Key \X Value)
    BY HashMapAssumption
  <2>2. hashMap' = FoldLeft(PutPair, hashMap, pairs)
    BY <1>5, <2>1, BatchesArePairs
  <2> QED BY <1>0, <2>1, <2>2, PairsPutIs
<1>6. ASSUME NEW pairs \in Batches,
             putFromStack(Stack(pairs), 2 * Len(pairs))
      PROVE  IsHashMap(hashMap')
  <2>1. pairs \in Seq(Key \X Value)
    BY HashMapAssumption
  <2>2. /\ hashMap' = FoldLeft(PutPair, hashMap, Reverse(pairs))
        /\ Reverse(pairs) \in Seq(Key \X Value)
    BY <1>6, <2>1, BatchesArePairs
  <2> QED BY <1>0, <2>2, PairsPutIs
<1>7. ASSUME clear PROVE IsHashMap(hashMap')
  BY <1>0, <1>7, ClearedIs DEF clear
<1>8. ASSUME UNCHANGED vars PROVE IsHashMap(hashMap')
  BY <1>0, <1>8 DEF vars
<1> QED BY <1>1, <1>2, <1>3, <1>4, <1>5, <1>6, <1>7, <1>8 DEF Next

\* The inductive invariant: a map is always the record of a good table that
\* counts its keys and has grown in time.
THEOREM HashMapInvariant == Spec => []IInv
BY InitKeeps, NextKeeps, PTL DEF Spec

\* As many entries are met on a walk as there are keys.
LEMMA EntriesAreCounted ==
  ASSUME NEW m, IsHashMap(m)
  PROVE  /\ m.size = Len(AllEntries(m))
         /\ IsInjective([i \in DOMAIN AllEntries(m) |-> AllEntries(m)[i].key])
<1> DEFINE s == AllEntries(m)
           f == [i \in DOMAIN s |-> s[i].key]
<1>1. /\ s \in Seq(Entry) /\ Distinct(s) /\ \A e : Has(s, e) <=> Holds(m, e)
  BY AllEntriesAre DEF IsHashMap
<1>2. Len(s) \in Nat /\ DOMAIN s = 1 .. Len(s)
      /\ \A i \in 1 .. Len(s) : s[i] \in Entry
  BY <1>1
<1> HIDE DEF s
<1>3. /\ DOMAIN f = 1 .. Len(s) /\ f = [i \in 1 .. Len(s) |-> f[i]]
      /\ \A i \in 1 .. Len(s) : f[i] = s[i].key
  BY <1>2
<1> HIDE DEF f
<1>4. \A i, j \in 1 .. Len(s) : f[i] = f[j] => i = j
  BY <1>1, <1>3 DEF Distinct
<1>5. IsInjective(f)
  BY <1>3, <1>4 DEF IsInjective
<1>6. \A i \in 1 .. Len(s) : f[i] \in Keys(m)
  BY <1>1, <1>2, <1>3 DEF Keys, Has, Entry
<1>7. \A key \in Keys(m) : \E i \in 1 .. Len(s) : f[i] = key
  BY <1>1, <1>3 DEF Keys, Has
<1>8. ExistsBijection(1 .. Len(s), Keys(m))
  <2>1. f \in [1 .. Len(s) -> Keys(m)]
    BY <1>3, <1>6
  <2> QED BY <1>3, <1>4, <1>7, <2>1
        DEF ExistsBijection, Bijection, Injection, Surjection, IsInjective
<1>9. IsFiniteSet(1 .. Len(s)) /\ Cardinality(1 .. Len(s)) = Len(s)
  BY <1>2, FS_Interval
<1>10. Cardinality(Keys(m)) = Len(s)
  BY <1>8, <1>9, FS_Bijection
<1> QED BY <1>5, <1>10 DEF IsHashMap, Sized, s, f

\* What the invariant says of the variables.
LEMMA IInvImplies == IInv => EntriesPlaced /\ ChainsStayShort
<1> SUFFICES ASSUME IInv PROVE EntriesPlaced /\ ChainsStayShort
  OBVIOUS
<1>1. Good(hashMap) /\ Sized(hashMap) /\ Grew(hashMap)
  BY DEF IInv, IsHashMap
<1>2. /\ hashMap.capacity \in Nat /\ hashMap.size \in Nat
      /\ hashMap.length \in Nat \ {0}
      /\ DOMAIN hashMap.table = 0 .. hashMap.length - 1
  BY <1>1 DEF Good, Shape
<1>3. \A i \in 0 .. hashMap.length - 1 : GoodChain(hashMap.table[i], i, hashMap.length)
  BY <1>1 DEF Good
<1>4. TypeOK
  BY <1>2, <1>3 DEF TypeOK, GoodChain
<1>5. ASSUME NEW i \in DOMAIN hashMap.table, NEW j \in DOMAIN hashMap.table[i]
      PROVE  LET e == hashMap.table[i][j] IN
             e.hash = HashCode[e.key] /\ i = e.hash % hashMap.length
  <2>1. GoodChain(hashMap.table[i], i, hashMap.length)
    BY <1>2, <1>3
  <2>2. hashMap.table[i] \in Seq(Entry)
    BY <2>1 DEF GoodChain
  <2>3. j \in 1 .. Len(hashMap.table[i])
    BY <2>2
  <2> QED BY <2>1, <2>3 DEF GoodChain, Belongs
<1>6. /\ hashMap.size = Len(AllEntries(hashMap))
      /\ IsInjective([i \in DOMAIN AllEntries(hashMap) |->
                        AllEntries(hashMap)[i].key])
  BY EntriesAreCounted DEF IInv
<1>7. EntriesPlaced
  BY <1>4, <1>5, <1>6, Zenon DEF EntriesPlaced
<1>8. ChainsStayShort
  BY <1>1, <1>2, TableLengthIs DEF ChainsStayShort, Grew
<1> QED BY <1>7, <1>8

\* Every entry is in the chain of its key's hash, no key has two, and `size' counts
\* them, for every hash function and every sequence of calls
\* (hashmap.c:155-182, 196-252).
THEOREM EntriesPlacedTheorem == Spec => []EntriesPlaced
BY HashMapInvariant, IInvImplies, PTL

\* There are never more entries than the capacity, nor than chains
\* (hashmap.c:167-169).
THEOREM ChainsStayShortTheorem == Spec => []ChainsStayShort
BY HashMapInvariant, IInvImplies, PTL

-------------------------------------------------------------------------------
(* Every call is a call of a map.                                          *)

\* The map a table stands for.
ContentsOf(m) ==
    [key \in {AllEntries(m)[i].key : i \in DOMAIN AllEntries(m)} |-> ValueOf(m, key)]

LEMMA ContentsAre == Contents = ContentsOf(hashMap)
BY DEF Contents, ContentsOf

\* f maps every key to the value of its entry.
IsContents(f, m) ==
    /\ f = [key \in Keys(m) |-> f[key]]
    /\ \A e : Holds(m, e) => f[e.key] = e.value

\* A table stands for one such map, which answers as the table does.
LEMMA ContentsOfIs ==
  ASSUME NEW m, IsHashMap(m)
  PROVE  /\ IsContents(ContentsOf(m), m)
         /\ \A key \in Key :
              /\ key \in Keys(m) <=> Place(m, key) # 0
              /\ ValueOf(m, key)
                   = IF key \in DOMAIN ContentsOf(m) THEN ContentsOf(m)[key] ELSE NULL
<1> DEFINE s == AllEntries(m)
           f == ContentsOf(m)
<1>0. Good(m)
  BY DEF IsHashMap
<1>1. /\ s \in Seq(Entry) /\ \A e : Has(s, e) <=> Holds(m, e)
  BY <1>0, AllEntriesAre
<1>2. DOMAIN s = 1 .. Len(s) /\ \A i \in 1 .. Len(s) : s[i] \in Entry
  BY <1>1
<1>3. f = [key \in {s[i].key : i \in DOMAIN s} |-> ValueOf(m, key)]
  BY DEF ContentsOf
<1> HIDE DEF s, f
<1>4. {s[i].key : i \in DOMAIN s} = Keys(m)
  <2>1. \A i \in 1 .. Len(s) : s[i].key \in Keys(m)
    BY <1>1, <1>2 DEF Keys, Has, Entry
  <2>2. \A key \in Keys(m) : \E i \in 1 .. Len(s) : s[i].key = key
    BY <1>1 DEF Keys, Has
  <2> QED BY <1>2, <2>1, <2>2
<1>5. f = [key \in Keys(m) |-> ValueOf(m, key)]
  BY <1>3, <1>4
<1>6. f = [key \in Keys(m) |-> f[key]] /\ DOMAIN f = Keys(m)
      /\ \A key \in Keys(m) : f[key] = ValueOf(m, key)
  BY <1>5
<1>7. ASSUME NEW e, Holds(m, e) PROVE e.key \in Keys(m) /\ ValueOf(m, e.key) = e.value
  <2>1. e.key \in Key
    BY <1>7 DEF Holds, Entry
  <2> QED BY <1>0, <1>7, <2>1, LookedUp DEF Keys
<1>8. IsContents(f, m)
  BY <1>6, <1>7 DEF IsContents
<1>9. ASSUME NEW key \in Key
      PROVE  /\ key \in Keys(m) <=> Place(m, key) # 0
             /\ ValueOf(m, key) = IF key \in DOMAIN f THEN f[key] ELSE NULL
  <2>1. key \in Keys(m) <=> Place(m, key) # 0
    BY <1>0, LookedUp DEF Keys
  <2> QED BY <1>6, <2>1 DEF ValueOf
<1> QED BY <1>8, <1>9 DEF f

\* There is no other such map.
LEMMA OneContents ==
  ASSUME NEW m, NEW f, NEW g, IsContents(f, m), IsContents(g, m)
  PROVE  f = g
<1>1. \A key \in Keys(m) : f[key] = g[key]
  BY DEF IsContents, Keys
<1> QED BY <1>1 DEF IsContents

\* What the calls of a map make of it.
AfterPut(f, g, key, value) ==
    g = [k \in DOMAIN f \union {key} |-> IF k = key THEN value ELSE f[k]]

AfterRemove(f, g, key) == g = [k \in DOMAIN f \ {key} |-> f[k]]

KeysOf(s) == {s[i][1] : i \in 1 .. Len(s)}

\* The pair MapPutPairs takes of a key: the last one.
MaxOf(s, key) == Map!Max({i \in 1 .. Len(s) : s[i][1] = key})

AfterPairs(f, g, s) ==
    g = [k \in DOMAIN f \union KeysOf(s) |->
           IF k \in KeysOf(s) THEN s[MaxOf(s, k)][2] ELSE f[k]]

\* The map after a put is that of MapPut.
LEMMA ContentsAfterPut ==
  ASSUME NEW m, NEW n, IsHashMap(m), IsHashMap(n),
         NEW key \in Key, NEW value \in Value, HoldsAfterPut(m, n, key, value)
  PROVE  AfterPut(ContentsOf(m), ContentsOf(n), key, value)
<1> DEFINE f == ContentsOf(m)
           g == [k \in DOMAIN f \union {key} |-> IF k = key THEN value ELSE f[k]]
<1>1. IsContents(f, m) /\ IsContents(ContentsOf(n), n)
  BY ContentsOfIs
<1> HIDE DEF f
<1>2. DOMAIN f = Keys(m) /\ Keys(n) = Keys(m) \union {key}
  BY <1>1, KeysAfterPut DEF IsContents
<1>3. ASSUME NEW e, Holds(n, e) PROVE g[e.key] = e.value
  <2>1. CASE e = NewEntry(key, value)
    <3>1. e.key = key /\ e.value = value
      BY <2>1, NewEntryIs
    <3> QED BY <3>1
  <2>2. CASE Holds(m, e) /\ e.key # key
    <3>1. e.key \in DOMAIN f
      BY <1>2, <2>2 DEF Keys, Holds, Entry
    <3> QED BY <1>1, <2>2, <3>1 DEF IsContents
  <2> QED BY <1>3, <2>1, <2>2 DEF HoldsAfterPut
<1>4. IsContents(g, n)
  <2>1. g = [k \in Keys(n) |-> g[k]]
    BY <1>2
  <2> HIDE DEF g
  <2> QED BY <1>3, <2>1 DEF IsContents
<1> HIDE DEF g
<1>5. ContentsOf(n) = g
  BY <1>1, <1>4, OneContents
<1> QED BY <1>5 DEF AfterPut, f, g

\* The map after a removal is that of MapRemove.
LEMMA ContentsAfterRemove ==
  ASSUME NEW m, NEW n, IsHashMap(m), IsHashMap(n),
         NEW key \in Key, HoldsAfterRemove(m, n, key)
  PROVE  AfterRemove(ContentsOf(m), ContentsOf(n), key)
<1> DEFINE f == ContentsOf(m)
           g == [k \in DOMAIN f \ {key} |-> f[k]]
<1>1. IsContents(f, m) /\ IsContents(ContentsOf(n), n)
  BY ContentsOfIs
<1> HIDE DEF f
<1>2. DOMAIN f = Keys(m) /\ Keys(n) = Keys(m) \ {key}
  BY <1>1, KeysAfterRemove DEF IsContents
<1>3. ASSUME NEW e, Holds(n, e) PROVE g[e.key] = e.value
  <2>1. Holds(m, e) /\ e.key # key
    BY <1>3 DEF HoldsAfterRemove
  <2>2. e.key \in DOMAIN f
    BY <1>2, <2>1 DEF Keys, Holds, Entry
  <2> QED BY <1>1, <2>1, <2>2 DEF IsContents
<1>4. IsContents(g, n)
  <2>1. g = [k \in Keys(n) |-> g[k]]
    BY <1>2
  <2> HIDE DEF g
  <2> QED BY <1>3, <2>1 DEF IsContents
<1> HIDE DEF g
<1>5. ContentsOf(n) = g
  BY <1>1, <1>4, OneContents
<1> QED BY <1>5 DEF AfterRemove, f, g

\* A map of nothing.
LEMMA NoContents ==
  ASSUME NEW m, IsHashMap(m), Keys(m) = {}
  PROVE  ContentsOf(m) = << >>
<1> DEFINE f == ContentsOf(m)
<1>1. f = [key \in {} |-> f[key]]
  BY ContentsOfIs DEF IsContents
<1> HIDE DEF f
<1>2. << >> = [key \in {} |-> f[key]]
  OBVIOUS
<1> QED BY <1>1, <1>2 DEF f

\* The last pair of a key is the one of the greatest index.
LEMMA LastIsMax ==
  ASSUME NEW s, Len(s) \in Nat, NEW i \in 1 .. Len(s), LastOf(s, i)
  PROVE  MaxOf(s, s[i][1]) = i
<1> DEFINE S == {j \in 1 .. Len(s) : s[j][1] = s[i][1]}
<1>1. i \in S /\ \A j \in S : j \in Int /\ i >= j
  BY DEF LastOf
<1>2. \A x \in S : (\A j \in S : x >= j) => x = i
  BY <1>1
<1> HIDE DEF S
<1>3. Map!Max(S) = i
  BY <1>1, <1>2 DEF Map!Max
<1> QED BY <1>3 DEF MaxOf, S

\* The map after a batch is that of MapPutPairs.
LEMMA ContentsAfterPairs ==
  ASSUME NEW m, NEW n, IsHashMap(m), IsHashMap(n), NEW s \in Seq(Key \X Value),
         HoldsAfterPairs(m, n, s), HaveLast(s)
  PROVE  AfterPairs(ContentsOf(m), ContentsOf(n), s)
<1> DEFINE f == ContentsOf(m)
           keys == {s[i][1] : i \in 1 .. Len(s)}
           g == [k \in DOMAIN f \union keys |->
                   IF k \in keys THEN s[MaxOf(s, k)][2] ELSE f[k]]
<1>1. IsContents(f, m) /\ IsContents(ContentsOf(n), n)
  BY ContentsOfIs
<1> HIDE DEF f
<1>0. /\ Len(s) \in Nat
      /\ \A i \in 1 .. Len(s) : s[i][1] \in Key /\ s[i][2] \in Value
  OBVIOUS
<1>2. DOMAIN f = Keys(m)
  BY <1>1 DEF IsContents
<1>3. ASSUME NEW e
      PROVE  Holds(n, e) <=>
               \/ \E i \in 1 .. Len(s) : LastOf(s, i) /\ e = NewEntry(s[i][1], s[i][2])
               \/ Holds(m, e) /\ e.key \notin keys
  BY DEF HoldsAfterPairs
<1>4. \A i \in 1 .. Len(s) : s[i][1] \in keys
  OBVIOUS
<1>5. ASSUME NEW k \in keys PROVE \E j \in 1 .. Len(s) : LastOf(s, j) /\ s[j][1] = k
  BY DEF HaveLast
<1>6. keys \subseteq Key
  BY <1>0
<1> HIDE DEF keys
<1>7. Keys(n) = Keys(m) \union keys
  <2>1. ASSUME NEW k \in keys PROVE k \in Keys(n)
    <3>1. PICK j \in 1 .. Len(s) : LastOf(s, j) /\ s[j][1] = k
      BY <1>5
    <3>2. Holds(n, NewEntry(k, s[j][2]))
      BY <1>3, <3>1
    <3>3. NewEntry(k, s[j][2]).key = k
      BY DEF NewEntry
    <3> QED BY <1>6, <3>2, <3>3 DEF Keys
  <2>2. ASSUME NEW k \in Keys(m), k \notin keys PROVE k \in Keys(n)
    BY <1>3, <2>2 DEF Keys
  <2>3. ASSUME NEW k \in Keys(n), k \notin keys PROVE k \in Keys(m)
    <3>1. PICK e : Holds(n, e) /\ e.key = k
      BY DEF Keys
    <3>2. \A i \in 1 .. Len(s) : NewEntry(s[i][1], s[i][2]).key \in keys
      BY <1>4 DEF NewEntry
    <3>3. Holds(m, e)
      BY <1>3, <2>3, <3>1, <3>2
    <3> QED BY <3>1, <3>3 DEF Keys
  <2>4. keys \subseteq Keys(n) /\ Keys(m) \subseteq Keys(n)
        /\ Keys(n) \subseteq Keys(m) \union keys
    BY <2>1, <2>2, <2>3
  <2> QED BY <2>4
<1>8. ASSUME NEW e, Holds(n, e) PROVE g[e.key] = e.value
  <2>0. \A k \in DOMAIN f \union keys :
          g[k] = IF k \in keys THEN s[MaxOf(s, k)][2] ELSE f[k]
    OBVIOUS
  <2> HIDE DEF g
  <2>1. ASSUME NEW i \in 1 .. Len(s), LastOf(s, i), e = NewEntry(s[i][1], s[i][2])
        PROVE  g[e.key] = e.value
    <3>1. e.key = s[i][1] /\ e.value = s[i][2]
      BY <2>1 DEF NewEntry
    <3>2. MaxOf(s, s[i][1]) = i
      BY <1>0, <2>1, LastIsMax
    <3> QED BY <1>4, <2>0, <3>1, <3>2
  <2>2. ASSUME Holds(m, e), e.key \notin keys PROVE g[e.key] = e.value
    <3>1. e.key \in DOMAIN f
      BY <1>2, <2>2 DEF Keys, Holds, Entry
    <3> QED BY <1>1, <2>0, <2>2, <3>1 DEF IsContents
  <2> QED BY <1>3, <1>8, <2>1, <2>2
<1>9. IsContents(g, n)
  <2>1. g = [k \in Keys(n) |-> g[k]]
    BY <1>2, <1>7
  <2> HIDE DEF g
  <2> QED BY <1>8, <2>1 DEF IsContents
<1> HIDE DEF g
<1>10. ContentsOf(n) = g
  BY <1>1, <1>9, OneContents
<1> QED BY <1>10 DEF AfterPairs, KeysOf, f, g, keys

\* A new map is an empty one.
LEMMA InitImplements == Init => Map!MapInit
<1> SUFFICES ASSUME Init PROVE Map!MapInit
  OBVIOUS
<1>1. IsHashMap(hashMap) /\ Keys(hashMap) = {}
  BY InitHashMapIs DEF Init
<1>2. Contents = << >>
  BY <1>1, NoContents, ContentsAre
<1>3. result = Returned("init", NULL)
  BY DEF Init
<1> QED BY <1>2, <1>3 DEF Map!MapInit, Map!Returned, Returned

\* Every step is a step of the map, or a stutter.
LEMMA NextImplements == IInv /\ IInv' /\ [Next]_vars => [Map!MapNext]_(Map!mapVars)
<1> SUFFICES ASSUME IInv, IInv', [Next]_vars PROVE [Map!MapNext]_(Map!mapVars)
  OBVIOUS
<1> DEFINE m == hashMap
           n == hashMap'
           f == ContentsOf(m)
           g == ContentsOf(n)
<1>0. IsHashMap(m) /\ IsHashMap(n)
  BY DEF IInv
<1>1. Contents = f /\ Contents' = g
  BY DEF Contents, ContentsOf
<1>2. \A key \in Key :
        /\ key \in DOMAIN f <=> Place(m, key) # 0
        /\ ValueOf(m, key) = IF key \in DOMAIN f THEN f[key] ELSE NULL
  BY <1>0, ContentsOfIs DEF IsContents
<1> HIDE DEF f, g
<1>3. \A key \in Key : Map!Mapped(key) = ValueOf(m, key)
  BY <1>1, <1>2 DEF Map!Mapped
<1>4. \A call, value : Map!Returned(call, value) = Returned(call, value)
  BY DEF Map!Returned, Returned
<1>5. ASSUME NEW key \in Key, remove(key) PROVE Map!MapRemove(key)
  <2>1. n = Without(m, key) /\ result' = Returned("remove", ValueOf(m, key))
    BY <1>5 DEF remove
  <2>2. AfterRemove(f, g, key)
    BY <1>0, <2>1, WithoutIs, ContentsAfterRemove DEF f, g
  <2> QED BY <1>1, <1>3, <1>4, <2>1, <2>2 DEF Map!MapRemove, AfterRemove
<1>6. ASSUME NEW key \in Key, get(key) PROVE Map!MapGet(key)
  BY <1>1, <1>3, <1>4, <1>6 DEF get, Map!MapGet, f, g
<1>7. ASSUME NEW key \in Key, containsKey(key) PROVE Map!MapContainsKey(key)
  BY <1>1, <1>2, <1>4, <1>7 DEF containsKey, Map!MapContainsKey, f, g
<1>8. ASSUME NEW key \in Key, NEW value \in Value, put(key, value)
      PROVE  Map!MapPut(key, value)
  <2>1. n = PutInto(m, key, value) /\ result' = Returned("put", ValueOf(m, key))
    BY <1>8 DEF put
  <2>2. AfterPut(f, g, key, value)
    BY <1>0, <2>1, PutIntoIs, ContentsAfterPut DEF f, g
  <2> QED BY <1>1, <1>3, <1>4, <2>1, <2>2 DEF Map!MapPut, AfterPut
<1>9. ASSUME NEW call, NEW s \in Seq(Key \X Value),
             n = FoldLeft(PutPair, m, s), result' = Returned(call, NULL)
      PROVE  Map!MapPutPairs(call, s)
  <2>1. HoldsAfterPairs(m, n, s) /\ HaveLast(s)
    BY <1>0, <1>9, PairsPutIs
  <2>2. AfterPairs(f, g, s)
    BY <1>0, <2>1, ContentsAfterPairs DEF f, g
  <2> QED BY <1>1, <1>4, <1>9, <2>2 DEF Map!MapPutPairs, AfterPairs, KeysOf, MaxOf
<1>10. ASSUME NEW pairs \in Batches,
              putAll(ElementArray(pairs), 2 * Len(pairs))
       PROVE  Map!MapPutPairs("putAll", pairs)
  <2>1. pairs \in Seq(Key \X Value)
    BY HashMapAssumption
  <2> QED BY <1>9, <1>10, <2>1, BatchesArePairs
<1>11. ASSUME NEW pairs \in Batches,
              putFromStack(Stack(pairs), 2 * Len(pairs))
       PROVE  Map!MapPutPairs("putFromStack", Map!Reverse(pairs))
  <2>1. pairs \in Seq(Key \X Value)
    BY HashMapAssumption
  <2>2. Map!Reverse(pairs) = Reverse(pairs)
    BY DEF Map!Reverse, Reverse
  <2> QED BY <1>9, <1>11, <2>1, <2>2, BatchesArePairs
<1>12. ASSUME clear PROVE Map!MapClear
  <2>1. Keys(n) = {} /\ result' = Returned("clear", NULL)
    BY <1>0, <1>12, ClearedIs DEF clear
  <2>2. g = << >>
    BY <1>0, <2>1, NoContents DEF g
  <2> QED BY <1>1, <1>4, <2>1, <2>2 DEF Map!MapClear
<1>13. ASSUME UNCHANGED vars PROVE UNCHANGED Map!mapVars
  BY <1>1, <1>13 DEF vars, Map!mapVars, f, g
<1> QED
  BY <1>5, <1>6, <1>7, <1>8, <1>10, <1>11, <1>12, <1>13 DEF Next, Map!MapNext

\* Every call answers as a map would, whatever the hash function and however the
\* table has grown (hashmap.c:116-218).
THEOREM ImplementsMapTheorem == Spec => ImplementsMap
<1>1. Init => Map!MapInit
  BY InitImplements
<1>2. IInv /\ IInv' /\ [Next]_vars => [Map!MapNext]_(Map!mapVars)
  BY NextImplements
<1>3. Spec => []IInv
  BY HashMapInvariant
<1> QED BY <1>1, <1>2, <1>3, PTL DEF Spec, ImplementsMap, Map!MapSpec
===============================================================================
