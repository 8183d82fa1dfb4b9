-------------------------- MODULE MemoryPools_proofs --------------------------
(***************************************************************************)
(* Proofs, for any number of pages in a slab, bytes in a page and slabs,   *)
(* any sizes of block and any first size of the arrays, that a slab, a     *)
(* page and a byte of a block have one owner, that the counters the pools  *)
(* decide by say what their stacks hold, and that every slab is freed once.*)
(***************************************************************************)
EXTENDS MemoryPools, SequenceTheorems, FiniteSetTheorems, TLAPS

\* The address of an array is not the null pointer: malloc ends the program
\* rather than return it.
NullIsNoBlock ==
    \A values : \A size \in Nat \ {0} :
      values = [i \in 0 .. size - 1 |-> values[i]] => values # NULL

Distinct(s) == \A i, j \in 1 .. Len(s) : s[i] = s[j] => i = j

Apart(s, t) == \A i \in 1 .. Len(s), j \in 1 .. Len(t) : s[i] # t[j]

\* Of all there is, each is once in what is free, once in what was lent to the
\* next pool, or held by the program.
Owned(free, lent, held, all) ==
    /\ free \in Seq(all) /\ lent \in Seq(all) /\ held \subseteq all
    /\ Distinct(free) /\ Distinct(lent) /\ Apart(free, lent)
    /\ \A i \in 1 .. Len(free) : free[i] \notin held
    /\ \A i \in 1 .. Len(lent) : lent[i] \notin held
    /\ \A x \in all : \/ x \in held
                      \/ \E i \in 1 .. Len(free) : x = free[i]
                      \/ \E i \in 1 .. Len(lent) : x = lent[i]

-------------------------------------------------------------------------------
(* The growing array: what its operations do to the pointers it holds,     *)
(* whatever its size.                                                      *)

\* A new stack holds nothing.
THEOREM InitIsEmpty ==
  WellFormed(initStackArray) /\ Items(initStackArray) = << >>
BY DefaultSizeAssumption DEF WellFormed, Items, initStackArray

\* A well-formed stack is a record of a block, its size and a length within it.
LEMMA Parts ==
  ASSUME NEW stack, WellFormed(stack)
  PROVE  \E n, l, f :
           /\ n \in Nat \ {0} /\ l \in 0 .. n
           /\ stack = [values |-> f, size |-> n, length |-> l]
           /\ f = [i \in 0 .. n - 1 |-> f[i]]
BY DEF WellFormed

\* The converse: such a record is a well-formed stack.
LEMMA Built ==
  ASSUME NEW n \in Nat \ {0}, NEW l \in 0 .. n, NEW f,
         f = [i \in 0 .. n - 1 |-> f[i]]
  PROVE  WellFormed([values |-> f, size |-> n, length |-> l])
BY DEF WellFormed

\* Growing keeps every pointer in its slot and leaves room for one more.
LEMMA GrownKeepsItems ==
  ASSUME NEW stack, WellFormed(stack)
  PROVE  /\ WellFormed(Grown(stack))
         /\ Grown(stack).length = stack.length
         /\ stack.length < Grown(stack).size
         /\ \A i \in 0 .. stack.length - 1 :
              Grown(stack).values[i] = stack.values[i]
<1>1. CASE stack.length = stack.size
  <2>1. Grown(stack) =
          [values |-> resizeArray(stack.values, stack.length, 2 * stack.size),
           size |-> 2 * stack.size, length |-> stack.length]
    BY <1>1 DEF Grown
  <2> QED
    BY <1>1, <2>1 DEF WellFormed, resizeArray
<1>2. CASE stack.length # stack.size
  BY <1>2 DEF Grown, WellFormed
<1> QED
  BY <1>1, <1>2

\* A push appends its pointer, over the doubling of a full array
\* (stackarray.c:133-140).
THEOREM PushAppends ==
  ASSUME NEW stack, WellFormed(stack), NEW item
  PROVE  /\ WellFormed(push(stack, item))
         /\ push(stack, item).length = stack.length + 1
         /\ Items(push(stack, item)) = Append(Items(stack), item)
<1>1. PICK n, l, f :
        /\ n \in Nat \ {0} /\ l \in 0 .. n
        /\ Grown(stack) = [values |-> f, size |-> n, length |-> l]
        /\ f = [i \in 0 .. n - 1 |-> f[i]]
  BY GrownKeepsItems, Parts
<1>0. n \in Nat /\ n > 0 /\ l \in Nat /\ l <= n
  BY <1>1
<1>2. /\ l = stack.length /\ l < n
      /\ \A i \in 0 .. l - 1 : f[i] = stack.values[i]
  BY <1>1, GrownKeepsItems
<1> DEFINE g == [f EXCEPT ![l] = item]
<1>3. g = [i \in 0 .. n - 1 |-> g[i]]
  BY <1>1
<1>9. \A i \in 0 .. l : g[i] = IF i = l THEN item ELSE stack.values[i]
  <2>1. DOMAIN f = 0 .. n - 1
    BY <1>1
  <2> QED
    BY <1>0, <1>2, <2>1
<1>4. push(stack, item) = [values |-> g, size |-> n, length |-> l + 1]
  <2>1. Grown(stack).values = f /\ Grown(stack).size = n /\ stack.length = l
    BY <1>1, <1>2
  <2> QED
    BY <2>1, Zenon DEF push
<1> HIDE DEF g
<1>5. WellFormed(push(stack, item))
  <2>1. l + 1 \in 0 .. n
    BY <1>0, <1>2
  <2>2. WellFormed([values |-> g, size |-> n, length |-> l + 1])
    BY <1>1, <1>3, <2>1, Built
  <2> QED
    BY <1>4, <2>2, Zenon
<1>6. Items(push(stack, item)) = [i \in 1 .. l + 1 |-> g[i - 1]]
  BY <1>4 DEF Items
<1>7. Items(stack) = [i \in 1 .. l |-> stack.values[i - 1]]
  BY <1>2 DEF Items
<1>8. [i \in 1 .. l + 1 |-> g[i - 1]] = Append(Items(stack), item)
  <2>1. Len(Items(stack)) = l
    BY <1>0, <1>7
  <2> QED
    BY <1>0, <1>9, <1>7, <2>1
<1>10. push(stack, item).length = stack.length + 1
  BY <1>2, <1>4
<1> QED
  BY <1>5, <1>6, <1>8, <1>10, Zenon

\* A pop returns the pointer pushed last and leaves the others in order; an
\* empty stack answers NULL and is left as it is (stackarray.c:125-131).
THEOREM PopRemovesTheLast ==
  ASSUME NEW stack, WellFormed(stack)
  PROVE  /\ WellFormed(Popped(stack))
         /\ stack.length > 0 =>
              /\ peek(stack) = Items(stack)[stack.length]
              /\ Items(Popped(stack)) =
                   SubSeq(Items(stack), 1, stack.length - 1)
         /\ stack.length = 0 => peek(stack) = NULL /\ Popped(stack) = stack
<1>1. PICK n, l, f :
        /\ n \in Nat \ {0} /\ l \in 0 .. n
        /\ stack = [values |-> f, size |-> n, length |-> l]
        /\ f = [i \in 0 .. n - 1 |-> f[i]]
  BY Parts
<1>0. n \in Nat /\ n > 0 /\ l \in Nat /\ l <= n
  BY <1>1
<1>2. CASE l = 0
  BY <1>1, <1>2 DEF Popped, peek
<1>3. CASE l > 0
  <2>1. Popped(stack) = [values |-> f, size |-> n, length |-> l - 1]
    <3> DEFINE record == [values |-> f, size |-> n, length |-> l]
    <3>1. [record EXCEPT !.length = record.length - 1]
            = [values |-> f, size |-> n, length |-> l - 1]
      OBVIOUS
    <3>2. stack = record /\ record.length # 0
      BY <1>0, <1>1, <1>3
    <3> HIDE DEF record
    <3> QED
      BY <3>1, <3>2, Zenon DEF Popped
  <2>2. WellFormed(Popped(stack))
    <3>1. l - 1 \in 0 .. n
      BY <1>0, <1>3
    <3>2. WellFormed([values |-> f, size |-> n, length |-> l - 1])
      BY <1>1, <3>1, Built
    <3> QED
      BY <2>1, <3>2, Zenon
  <2>3. Items(stack) = [i \in 1 .. l |-> f[i - 1]]
    BY <1>1 DEF Items
  <2>4. Items(Popped(stack)) = [i \in 1 .. l - 1 |-> f[i - 1]]
    BY <2>1 DEF Items
  <2>5. peek(stack) = Items(stack)[l]
    <3>1. stack.values = f /\ stack.length = l
      BY <1>1
    <3>2. Items(stack)[l] = f[l - 1]
      BY <1>0, <1>3, <2>3
    <3>3. stack.length # 0
      BY <1>3, <3>1
    <3> QED
      BY <3>1, <3>2, <3>3, Zenon DEF peek
  <2>6. SubSeq(Items(stack), 1, l - 1) = [i \in 1 .. l - 1 |-> f[i - 1]]
    <3>1. Len(Items(stack)) = l
      BY <1>0, <2>3
    <3> QED
      BY <1>0, <1>3, <2>3, <3>1
  <2> QED
    <3>1. stack.length = l
      BY <1>1
    <3>2. ~ (l = 0)
      BY <1>3
    <3> QED
      BY <2>2, <2>4, <2>5, <2>6, <3>1, <3>2, Zenon
<1> QED
  BY <1>1, <1>2, <1>3

\* A pointer pushed is the next one popped, and the stack is as it was before.
COROLLARY PushThenPop ==
  ASSUME NEW stack, WellFormed(stack), NEW item
  PROVE  /\ peek(push(stack, item)) = item
         /\ Items(Popped(push(stack, item))) = Items(stack)
<1> DEFINE pushed == push(stack, item)
<1>1. /\ WellFormed(pushed) /\ pushed.length = stack.length + 1
      /\ Items(pushed) = Append(Items(stack), item)
  BY PushAppends
<1> HIDE DEF pushed
<1>2. stack.length \in Nat
  BY DEF WellFormed
<1>3. /\ peek(pushed) = Items(pushed)[pushed.length]
      /\ Items(Popped(pushed)) = SubSeq(Items(pushed), 1, pushed.length - 1)
  <2>1. pushed.length > 0
    BY <1>1, <1>2
  <2> QED
    BY <1>1, <2>1, PopRemovesTheLast, Zenon
<1>4. Items(stack) = [i \in 1 .. stack.length |-> stack.values[i - 1]]
  BY DEF Items
<1>5. Len(Items(stack)) = stack.length
  BY <1>2, <1>4
<1>6. peek(pushed) = item
  BY <1>1, <1>2, <1>3, <1>4, <1>5
<1>7. SubSeq(Append(Items(stack), item), 1, stack.length) = Items(stack)
  BY <1>2, <1>4, <1>5
<1> QED
  BY <1>1, <1>2, <1>3, <1>6, <1>7 DEF pushed

-------------------------------------------------------------------------------
(* Sequences.                                                              *)

\* A concatenation has the elements of its parts, each in its place.
LEMMA ConcatIs ==
  ASSUME NEW S, NEW s \in Seq(S), NEW t \in Seq(S)
  PROVE  /\ s \o t \in Seq(S) /\ Len(s \o t) = Len(s) + Len(t)
         /\ Len(s) \in Nat /\ Len(t) \in Nat
         /\ \A i \in 1 .. Len(s) : i \in 1 .. Len(s \o t) /\ (s \o t)[i] = s[i]
         /\ \A i \in 1 .. Len(t) :
              Len(s) + i \in 1 .. Len(s \o t) /\ (s \o t)[Len(s) + i] = t[i]
         /\ \A i \in 1 .. Len(s \o t) :
              \/ i \in 1 .. Len(s) /\ (s \o t)[i] = s[i]
              \/ i - Len(s) \in 1 .. Len(t) /\ (s \o t)[i] = t[i - Len(s)]
<1>1. Len(s) \in Nat /\ Len(t) \in Nat
  BY LenProperties
<1>2. /\ s \o t \in Seq(S) /\ Len(s \o t) = Len(s) + Len(t)
      /\ \A k \in 1 .. Len(s) + Len(t) :
           (s \o t)[k] = IF k <= Len(s) THEN s[k] ELSE t[k - Len(s)]
  BY ConcatProperties
<1>3. ASSUME NEW i \in 1 .. Len(t)
      PROVE  Len(s) + i \in 1 .. Len(s \o t) /\ (s \o t)[Len(s) + i] = t[i]
  <2>1. /\ Len(s) + i \in 1 .. Len(s) + Len(t) /\ ~(Len(s) + i <= Len(s))
        /\ Len(s) + i - Len(s) = i
    BY <1>1
  <2>2. (s \o t)[Len(s) + i] = t[Len(s) + i - Len(s)]
    BY <1>2, <2>1
  <2> QED
    BY <1>2, <2>1, <2>2
<1>4. ASSUME NEW i \in 1 .. Len(s)
      PROVE  i \in 1 .. Len(s \o t) /\ (s \o t)[i] = s[i]
  BY <1>1, <1>2
<1>5. ASSUME NEW i \in 1 .. Len(s \o t)
      PROVE  \/ i \in 1 .. Len(s) /\ (s \o t)[i] = s[i]
             \/ i - Len(s) \in 1 .. Len(t) /\ (s \o t)[i] = t[i - Len(s)]
  <2>1. i \in Int /\ i >= 1 /\ i <= Len(s) + Len(t)
    BY <1>1, <1>2
  <2>2. (s \o t)[i] = IF i <= Len(s) THEN s[i] ELSE t[i - Len(s)]
    BY <1>1, <1>2
  <2> QED
    BY <1>1, <2>1, <2>2
<1> QED
  BY <1>1, <1>2, <1>3, <1>4, <1>5

-------------------------------------------------------------------------------
(* Owners.                                                                 *)

\* The last of what is free is taken by the program.
LEMMA OwnedTake ==
  ASSUME NEW free, NEW x, NEW lent, NEW held, NEW all, NEW S, free \in Seq(S),
         Owned(Append(free, x), lent, held, all)
  PROVE  Owned(free, lent, held \union {x}, all) /\ x \in all /\ x \notin held
<1> DEFINE more == Append(free, x)
<1>1. /\ Len(free) \in Nat /\ Len(more) = Len(free) + 1
      /\ more[Len(free) + 1] = x
      /\ \A i \in 1 .. Len(free) : more[i] = free[i] /\ i \in 1 .. Len(more)
      /\ Len(free) + 1 \in 1 .. Len(more)
  OBVIOUS
<1>2. /\ more \in Seq(all) /\ Distinct(more) /\ Apart(more, lent)
      /\ lent \in Seq(all) /\ held \subseteq all
      /\ \A i \in 1 .. Len(more) : more[i] \notin held
      /\ Distinct(lent) /\ \A i \in 1 .. Len(lent) : lent[i] \notin held
      /\ \A y \in all : \/ y \in held
                        \/ \E i \in 1 .. Len(more) : y = more[i]
                        \/ \E i \in 1 .. Len(lent) : y = lent[i]
  BY DEF Owned
<1> HIDE DEF more
<1>3. x \in all /\ x \notin held
  BY <1>1, <1>2
<1>4. free \in Seq(all)
  BY <1>1, <1>2
<1>5. Distinct(free) /\ Apart(free, lent)
  BY <1>1, <1>2 DEF Distinct, Apart
<1>6. \A i \in 1 .. Len(free) : free[i] \notin held \union {x}
  BY <1>1, <1>2 DEF Distinct
<1>7. \A i \in 1 .. Len(lent) : lent[i] \notin held \union {x}
  BY <1>1, <1>2 DEF Apart
<1>8. \A y \in all : \/ y \in held \union {x}
                     \/ \E i \in 1 .. Len(free) : y = free[i]
                     \/ \E i \in 1 .. Len(lent) : y = lent[i]
  <2> SUFFICES ASSUME NEW y \in all, NEW i \in 1 .. Len(more), y = more[i], y # x
               PROVE  \E j \in 1 .. Len(free) : y = free[j]
    BY <1>2
  <2>1. i \in 1 .. Len(free)
    BY <1>1
  <2> QED
    BY <1>1, <2>1
<1> QED
  BY <1>2, <1>3, <1>4, <1>5, <1>6, <1>7, <1>8 DEF Owned

\* The last of what is free is lent.
LEMMA OwnedLend ==
  ASSUME NEW free, NEW x, NEW lent, NEW held, NEW all, NEW S, free \in Seq(S),
         Owned(Append(free, x), lent, held, all)
  PROVE  Owned(free, Append(lent, x), held, all) /\ x \in all
<1>1. Owned(free, lent, held \union {x}, all) /\ x \in all /\ x \notin held
  BY OwnedTake
<1> DEFINE more == Append(lent, x)
<1>2. /\ lent \in Seq(all) /\ Len(lent) \in Nat /\ Len(more) = Len(lent) + 1
      /\ more \in Seq(all)
      /\ more[Len(lent) + 1] = x
      /\ \A i \in 1 .. Len(lent) : more[i] = lent[i] /\ i \in 1 .. Len(more)
      /\ Len(lent) + 1 \in 1 .. Len(more)
  BY <1>1 DEF Owned
<1> HIDE DEF more
<1>3. \A i \in 1 .. Len(more) : i \in 1 .. Len(lent) \/ (i = Len(lent) + 1 /\ more[i] = x)
  BY <1>2
<1>4. Distinct(more)
  BY <1>1, <1>2, <1>3 DEF Owned, Distinct
<1>5. Apart(free, more)
  BY <1>1, <1>2, <1>3 DEF Owned, Apart
<1>6. \A i \in 1 .. Len(more) : more[i] \notin held
  BY <1>1, <1>2, <1>3 DEF Owned
<1>7. \A y \in all : \/ y \in held
                     \/ \E i \in 1 .. Len(free) : y = free[i]
                     \/ \E i \in 1 .. Len(more) : y = more[i]
  <2>1. \A y \in all : \/ y \in held \/ y = x
                       \/ \E i \in 1 .. Len(free) : y = free[i]
                       \/ \E i \in 1 .. Len(lent) : y = lent[i]
    BY <1>1 DEF Owned
  <2>2. \A i \in 1 .. Len(lent) : lent[i] = more[i] /\ i \in 1 .. Len(more)
    BY <1>2
  <2>3. x = more[Len(lent) + 1] /\ Len(lent) + 1 \in 1 .. Len(more)
    BY <1>2
  <2> QED BY <2>1, <2>2, <2>3, Zenon
<1>8. /\ free \in Seq(all) /\ held \subseteq all /\ Distinct(free)
      /\ \A i \in 1 .. Len(free) : free[i] \notin held
  BY <1>1 DEF Owned
<1>9. Owned(free, more, held, all)
  BY <1>2, <1>4, <1>5, <1>6, <1>7, <1>8 DEF Owned
<1> QED
  BY <1>1, <1>9 DEF more

\* What the program gives back is free.
LEMMA OwnedGive ==
  ASSUME NEW free, NEW lent, NEW held, NEW all, Owned(free, lent, held, all),
         NEW x \in held
  PROVE  Owned(Append(free, x), lent, held \ {x}, all)
<1> DEFINE more == Append(free, x)
<1>1. /\ free \in Seq(all) /\ x \in all
      /\ Len(free) \in Nat /\ Len(more) = Len(free) + 1
      /\ more \in Seq(all)
      /\ more[Len(free) + 1] = x
      /\ \A i \in 1 .. Len(free) : more[i] = free[i] /\ i \in 1 .. Len(more)
      /\ Len(free) + 1 \in 1 .. Len(more)
  BY DEF Owned
<1> HIDE DEF more
<1>2. \A i \in 1 .. Len(more) : i \in 1 .. Len(free) \/ (i = Len(free) + 1 /\ more[i] = x)
  BY <1>1
<1>3. Distinct(more)
  BY <1>1, <1>2 DEF Owned, Distinct
<1>4. Apart(more, lent)
  BY <1>1, <1>2 DEF Owned, Apart
<1>5. \A i \in 1 .. Len(more) : more[i] \notin held \ {x}
  BY <1>1, <1>2 DEF Owned
<1>6. \A y \in all : \/ y \in held \ {x}
                     \/ \E i \in 1 .. Len(more) : y = more[i]
                     \/ \E i \in 1 .. Len(lent) : y = lent[i]
  BY <1>1 DEF Owned
<1>7. /\ lent \in Seq(all) /\ held \ {x} \subseteq all /\ Distinct(lent)
      /\ \A i \in 1 .. Len(lent) : lent[i] \notin held \ {x}
  BY DEF Owned
<1>8. Owned(more, lent, held \ {x}, all)
  BY <1>1, <1>3, <1>4, <1>5, <1>6, <1>7 DEF Owned
<1> QED
  BY <1>8 DEF more

\* A new one is free.
LEMMA OwnedFresh ==
  ASSUME NEW free, NEW lent, NEW held, NEW all, Owned(free, lent, held, all),
         NEW x, x \notin all
  PROVE  Owned(Append(free, x), lent, held, all \union {x})
<1>1. Owned(free, lent, held \union {x}, all \union {x})
  <2>1. free \in Seq(all \union {x}) /\ lent \in Seq(all \union {x})
    BY DEF Owned
  <2>2. \A i \in 1 .. Len(free) : free[i] # x
    BY DEF Owned
  <2>3. \A i \in 1 .. Len(lent) : lent[i] # x
    BY DEF Owned
  <2> QED
    BY <2>1, <2>2, <2>3 DEF Owned
<1>2. (held \union {x}) \ {x} = held
  BY DEF Owned
<1> QED
  BY <1>1, <1>2, OwnedGive

\* Several new ones are free.
LEMMA OwnedMore ==
  ASSUME NEW free, NEW lent, NEW held, NEW all, Owned(free, lent, held, all),
         NEW new, NEW s \in Seq(new), Distinct(s), all \cap new = {},
         \A x \in new : \E i \in 1 .. Len(s) : x = s[i]
  PROVE  Owned(free \o s, lent, held, all \union new)
<1> DEFINE more == free \o s
           both == all \union new
<1>1. /\ free \in Seq(all) /\ lent \in Seq(all) /\ held \subseteq all
      /\ Distinct(free) /\ Distinct(lent) /\ Apart(free, lent)
      /\ \A i \in 1 .. Len(free) : free[i] \notin held
      /\ \A i \in 1 .. Len(lent) : lent[i] \notin held
  BY DEF Owned
<1>3. free \in Seq(both) /\ s \in Seq(both) /\ lent \in Seq(both)
  BY <1>1
<1>2. /\ more \in Seq(both) /\ Len(free) \in Nat
      /\ \A i \in 1 .. Len(free) : i \in 1 .. Len(more) /\ more[i] = free[i]
      /\ \A i \in 1 .. Len(s) :
           Len(free) + i \in 1 .. Len(more) /\ more[Len(free) + i] = s[i]
      /\ \A i \in 1 .. Len(more) :
           \/ i \in 1 .. Len(free) /\ more[i] = free[i]
           \/ i - Len(free) \in 1 .. Len(s) /\ more[i] = s[i - Len(free)]
  <2> HIDE DEF both
  <2> QED
    BY <1>3, ConcatIs
<1> HIDE DEF more
<1>4. /\ \A i \in 1 .. Len(free) : free[i] \in all
      /\ \A i \in 1 .. Len(s) : s[i] \in new
      /\ \A i \in 1 .. Len(lent) : lent[i] \in all
  BY <1>1
<1>5. Distinct(more)
  <2> SUFFICES ASSUME NEW i \in 1 .. Len(more), NEW j \in 1 .. Len(more), more[i] = more[j]
               PROVE  i = j
    BY DEF Distinct
  <2>1. CASE i \in 1 .. Len(free) /\ j \in 1 .. Len(free)
    BY <1>1, <1>2, <2>1 DEF Distinct
  <2>2. CASE ~(i \in 1 .. Len(free)) /\ ~(j \in 1 .. Len(free))
    <3>1. /\ i - Len(free) \in 1 .. Len(s) /\ more[i] = s[i - Len(free)]
          /\ j - Len(free) \in 1 .. Len(s) /\ more[j] = s[j - Len(free)]
      BY <1>2, <2>2
    <3>2. i - Len(free) = j - Len(free)
      BY <3>1 DEF Distinct
    <3> QED
      BY <1>2, <3>2
  <2>3. CASE i \in 1 .. Len(free) /\ ~(j \in 1 .. Len(free))
    BY <1>2, <1>4, <2>3
  <2>4. CASE ~(i \in 1 .. Len(free)) /\ j \in 1 .. Len(free)
    BY <1>2, <1>4, <2>4
  <2> QED
    BY <2>1, <2>2, <2>3, <2>4
<1>6. Apart(more, lent)
  <2> SUFFICES ASSUME NEW i \in 1 .. Len(more), NEW j \in 1 .. Len(lent)
               PROVE  more[i] # lent[j]
    BY DEF Apart
  <2>1. CASE i \in 1 .. Len(free)
    BY <1>1, <1>2, <2>1 DEF Apart
  <2>2. CASE ~(i \in 1 .. Len(free))
    BY <1>2, <1>4, <2>2
  <2> QED
    BY <2>1, <2>2
<1>7. \A i \in 1 .. Len(more) : more[i] \notin held
  BY <1>1, <1>2, <1>4
<1>8. \A x \in both : \/ x \in held
                      \/ \E i \in 1 .. Len(more) : x = more[i]
                      \/ \E i \in 1 .. Len(lent) : x = lent[i]
  <2> SUFFICES ASSUME NEW x \in both
               PROVE  \/ x \in held
                      \/ \E i \in 1 .. Len(more) : x = more[i]
                      \/ \E i \in 1 .. Len(lent) : x = lent[i]
    OBVIOUS
  <2>1. CASE x \in new
    <3>1. PICK i \in 1 .. Len(s) : x = s[i]
      BY <2>1
    <3>2. Len(free) + i \in 1 .. Len(more) /\ more[Len(free) + i] = x
      BY <1>2, <3>1
    <3> QED
      BY <3>2
  <2>2. CASE x \in all
    <3>1. \A i \in 1 .. Len(free) : i \in 1 .. Len(more) /\ more[i] = free[i]
      BY <1>2
    <3> QED
      BY <2>2, <3>1 DEF Owned
  <2> QED
    BY <2>1, <2>2
<1>9. Owned(more, lent, held, both)
  <2>1. held \subseteq both
    BY <1>1
  <2> HIDE DEF both
  <2> QED
    BY <1>1, <1>2, <1>3, <1>5, <1>6, <1>7, <1>8, <2>1 DEF Owned
<1> QED
  BY <1>9 DEF more

\* What was lent comes back, in any order: `back' has what `lent' has.
LEMMA OwnedReturn ==
  ASSUME NEW free, NEW lent, NEW held, NEW all, Owned(free, lent, held, all),
         NEW back, back \in Seq(all), Distinct(back),
         \A i \in 1 .. Len(back) : \E j \in 1 .. Len(lent) : back[i] = lent[j],
         \A j \in 1 .. Len(lent) : \E i \in 1 .. Len(back) : back[i] = lent[j]
  PROVE  Owned(free \o back, << >>, held, all)
<1> DEFINE more == free \o back
<1>1. /\ free \in Seq(all) /\ held \subseteq all
      /\ Distinct(free) /\ Apart(free, lent)
      /\ \A i \in 1 .. Len(free) : free[i] \notin held
      /\ \A i \in 1 .. Len(lent) : lent[i] \notin held
      /\ \A x \in all : \/ x \in held
                        \/ \E i \in 1 .. Len(free) : x = free[i]
                        \/ \E i \in 1 .. Len(lent) : x = lent[i]
  BY DEF Owned
<1>2. /\ more \in Seq(all) /\ Len(free) \in Nat
      /\ \A i \in 1 .. Len(free) : i \in 1 .. Len(more) /\ more[i] = free[i]
      /\ \A i \in 1 .. Len(back) :
           Len(free) + i \in 1 .. Len(more) /\ more[Len(free) + i] = back[i]
      /\ \A i \in 1 .. Len(more) :
           \/ i \in 1 .. Len(free) /\ more[i] = free[i]
           \/ i - Len(free) \in 1 .. Len(back) /\ more[i] = back[i - Len(free)]
  BY <1>1, ConcatIs
<1> HIDE DEF more
<1>4. /\ \A i \in 1 .. Len(free), j \in 1 .. Len(back) : free[i] # back[j]
      /\ \A j \in 1 .. Len(back) : back[j] \notin held
  BY <1>1 DEF Apart
<1>5. Distinct(more)
  <2> SUFFICES ASSUME NEW i \in 1 .. Len(more), NEW j \in 1 .. Len(more), more[i] = more[j]
               PROVE  i = j
    BY DEF Distinct
  <2>1. CASE i \in 1 .. Len(free) /\ j \in 1 .. Len(free)
    BY <1>1, <1>2, <2>1 DEF Distinct
  <2>2. CASE ~(i \in 1 .. Len(free)) /\ ~(j \in 1 .. Len(free))
    <3>1. /\ i - Len(free) \in 1 .. Len(back) /\ more[i] = back[i - Len(free)]
          /\ j - Len(free) \in 1 .. Len(back) /\ more[j] = back[j - Len(free)]
      BY <1>2, <2>2
    <3>2. i - Len(free) = j - Len(free)
      BY <3>1 DEF Distinct
    <3> QED
      BY <1>2, <3>2
  <2>3. CASE i \in 1 .. Len(free) /\ ~(j \in 1 .. Len(free))
    BY <1>2, <1>4, <2>3
  <2>4. CASE ~(i \in 1 .. Len(free)) /\ j \in 1 .. Len(free)
    BY <1>2, <1>4, <2>4
  <2> QED
    BY <2>1, <2>2, <2>3, <2>4
<1>6. \A i \in 1 .. Len(more) : more[i] \notin held
  BY <1>1, <1>2, <1>4
<1>7. \A x \in all : x \in held \/ \E i \in 1 .. Len(more) : x = more[i]
  <2> SUFFICES ASSUME NEW x \in all, x \notin held
               PROVE  \E i \in 1 .. Len(more) : x = more[i]
    OBVIOUS
  <2>1. CASE \E i \in 1 .. Len(free) : x = free[i]
    BY <1>2, <2>1
  <2>2. CASE \E i \in 1 .. Len(lent) : x = lent[i]
    <3>1. PICK i \in 1 .. Len(back) : x = back[i]
      BY <2>2
    <3> QED
      BY <1>2, <3>1
  <2> QED
    BY <1>1, <2>1, <2>2
<1>8. << >> \in Seq(all) /\ Len(<< >>) = 0 /\ Distinct(<< >>) /\ Apart(more, << >>)
  BY DEF Distinct, Apart
<1>9. Owned(more, << >>, held, all)
  <2>1. \A i \in 1 .. Len(<< >>) : << >>[i] \notin held
    BY <1>8
  <2> QED
    BY <1>1, <1>2, <1>5, <1>6, <1>7, <1>8, <2>1 DEF Owned
<1> QED
  BY <1>9 DEF more

-------------------------------------------------------------------------------
(* Folds.                                                                  *)

\* The items were pushed on the stack, or on an array with its pointers.
ExtendedBy(after, stack, items) == Items(after) = Items(stack) \o items

\* A sequence of pointers was pushed.
Pushed(stack, after, items) ==
    /\ WellFormed(after)
    /\ after.length = stack.length + Len(items)
    /\ ExtendedBy(after, stack, items)

Pushes == INSTANCE Folding WITH op <- push, Inv <- Pushed

\* What a stack holds is a sequence as long as the stack says.
LEMMA ItemsOfWellFormed ==
  ASSUME NEW stack, WellFormed(stack)
  PROVE  /\ Len(Items(stack)) = stack.length
         /\ stack.length \in Nat
         /\ \E S : Items(stack) \in Seq(S)
<1>1. stack.length \in Nat
  BY DEF WellFormed
<1>2. Items(stack) = [i \in 1 .. stack.length |-> stack.values[i - 1]]
  BY DEF Items
<1> DEFINE S == {stack.values[i - 1] : i \in 1 .. stack.length}
<1>3. Items(stack) \in [1 .. stack.length -> S]
  BY <1>2
<1>4. Items(stack) \in Seq(S) /\ Len(Items(stack)) = stack.length
  <2> HIDE DEF S
  <2> QED
    BY <1>1, <1>3
<1> QED
  BY <1>1, <1>4

\* Nothing was pushed.
LEMMA ExtendedByNone ==
  ASSUME NEW stack, WellFormed(stack)
  PROVE  ExtendedBy(stack, stack, << >>)
BY ItemsOfWellFormed DEF ExtendedBy

\* One more was pushed.
LEMMA ExtendedByOne ==
  ASSUME NEW stack, WellFormed(stack), NEW S, NEW s, s \in Seq(S), NEW e, e \in S
  PROVE  \A a, b : ExtendedBy(a, stack, s) /\ Items(b) = Append(Items(a), e)
                     => ExtendedBy(b, stack, Append(s, e))
<1>1. PICK I : Items(stack) \in Seq(I)
  BY ItemsOfWellFormed
<1> DEFINE J == I \union S
<1>2. Items(stack) \in Seq(J) /\ s \in Seq(J) /\ e \in J
  BY <1>1
<1> HIDE DEF J
<1>3. Append(Items(stack) \o s, e) = Items(stack) \o Append(s, e)
  BY <1>2
<1> QED
  BY <1>3 DEF ExtendedBy

\* A loop of pushes, as in populatePagePool (pagepool.c:104-118).
LEMMA PushAll ==
  ASSUME NEW stack, WellFormed(stack), NEW S, NEW items \in Seq(S)
  PROVE  Pushed(stack, FoldLeft(push, stack, items), items)
<1>1. Pushed(stack, stack, << >>)
  <2>1. ExtendedBy(stack, stack, << >>)
    BY ExtendedByNone
  <2>2. stack.length + Len(<< >>) = stack.length
    BY ItemsOfWellFormed
  <2> QED
    BY <2>1, <2>2 DEF Pushed
<1>2. ASSUME NEW a, NEW s, NEW e, s \in Seq(S), e \in S, Pushed(stack, a, s)
      PROVE  Pushed(stack, push(a, e), Append(s, e))
  <2>1. /\ WellFormed(push(a, e)) /\ push(a, e).length = a.length + 1
        /\ Items(push(a, e)) = Append(Items(a), e)
    BY <1>2, PushAppends DEF Pushed
  <2>2. ExtendedBy(push(a, e), stack, Append(s, e))
    BY <1>2, <2>1, ExtendedByOne, Zenon DEF Pushed
  <2>3. Len(s) \in Nat /\ Len(Append(s, e)) = Len(s) + 1
    BY <1>2
  <2>4. a.length = stack.length + Len(s)
    BY <1>2 DEF Pushed
  <2>5. push(a, e).length = stack.length + Len(Append(s, e))
    <3> DEFINE m == stack.length
               n == Len(s)
    <3>1. m \in Nat /\ n \in Nat
      BY <2>3, ItemsOfWellFormed
    <3>2. push(a, e).length = (m + n) + 1 /\ Len(Append(s, e)) = n + 1
      BY <2>1, <2>3, <2>4, Zenon
    <3> HIDE DEF m, n
    <3>3. (m + n) + 1 = m + (n + 1)
      BY <3>1
    <3> QED
      BY <3>2, <3>3, Zenon DEF m
  <2> QED
    BY <2>1, <2>2, <2>4, <2>5, Zenon DEF Pushed
<1>3. \A s \in Seq(S) : Pushed(stack, Pushes!Folded(stack, s), s)
  BY <1>1, <1>2, Pushes!FoldLeftInduction
<1>4. Pushes!Folded(stack, items) = FoldLeft(push, stack, items)
  BY DEF Pushes!Folded, Pushes!FoldLeft, FoldLeft, Pushes!MapThenFoldSet,
         MapThenFoldSet, Pushes!Max, Max
<1> QED
  <2>1. Pushed(stack, Pushes!Folded(stack, items), items)
    BY <1>3
  <2> QED
    BY <1>4, <2>1, Zenon

-------------------------------------------------------------------------------
(* The inductive invariant.                                                *)

IsSlabPool(pool) ==
    pool = [slabStack |-> pool.slabStack, numSlabsAlloc |-> pool.numSlabsAlloc,
            numSlabsFree |-> pool.numSlabsFree,
            numSlabsInUse |-> pool.numSlabsInUse]

IsPagePool(pool) ==
    pool = [pageStack |-> pool.pageStack, slabList |-> pool.slabList,
            numPagesAlloc |-> pool.numPagesAlloc,
            numPagesFree |-> pool.numPagesFree,
            numPagesInUse |-> pool.numPagesInUse]

IsMemoryPool(pool) ==
    pool = [pageStack |-> pool.pageStack,
            numPageBytesUsed |-> pool.numPageBytesUsed,
            numPageBytesFree |-> pool.numPageBytesFree]

\* The pools are destroyed top down.
InOrder ==
    destroyed \in {{}, {"memory"}, {"memory", "page"}, {"memory", "page", "slab"}}

\* The stack of a pool exists once something was allocated, and the counters say
\* what it holds.
SlabPoolReady(pool) ==
    /\ IsSlabPool(pool)
    /\ pool.numSlabsAlloc \in 0 .. MaxSlabs /\ pool.numSlabsInUse \in Nat
    /\ IF pool.numSlabsAlloc = 0 THEN pool.slabStack = NoArray
                                 ELSE WellFormed(pool.slabStack)
    /\ pool.numSlabsFree = pool.slabStack.length
    /\ pool.numSlabsAlloc = pool.numSlabsFree + pool.numSlabsInUse

PagePoolReady(pool) ==
    /\ IsPagePool(pool)
    /\ pool.numPagesInUse \in Nat
    /\ \/ pool.pageStack = NoArray /\ pool.slabList = NoArray
       \/ WellFormed(pool.pageStack) /\ WellFormed(pool.slabList)
    /\ pool.numPagesFree = pool.pageStack.length
    /\ pool.numPagesAlloc = pool.numPagesFree + pool.numPagesInUse
    /\ pool.numPagesAlloc = PagesPerSlab * pool.slabList.length

\* The used and the free bytes are those of the top page.
MemoryPoolReady(pool) ==
    /\ IsMemoryPool(pool)
    /\ pool.pageStack = NoArray \/ WellFormed(pool.pageStack)
    /\ pool.numPageBytesUsed \in Nat /\ pool.numPageBytesFree \in Nat
    /\ pool.pageStack.length = 0 =>
         pool.numPageBytesUsed = 0 /\ pool.numPageBytesFree = 0
    /\ pool.pageStack.length > 0 =>
         pool.numPageBytesUsed + pool.numPageBytesFree = PageBytes

\* The slabs the page pool has, until it is destroyed.
LentSlabs == IF "page" \in destroyed THEN << >> ELSE Items(pagePool.slabList)

PagesFrom(slabs) == {<<slabs[i], k>> : i \in 1 .. Len(slabs),
                                       k \in 0 .. PagesPerSlab - 1}

SlabsOwned ==
    "slab" \notin destroyed =>
      /\ SlabPoolReady(slabPool)
      /\ Owned(Items(slabPool.slabStack), LentSlabs, slabsHeld,
               1 .. slabPool.numSlabsAlloc)
      /\ slabPool.numSlabsInUse = Cardinality(slabsHeld) + Len(LentSlabs)
      /\ freed = << >>

PagesOwned ==
    "page" \notin destroyed =>
      /\ PagePoolReady(pagePool)
      /\ Owned(Items(pagePool.pageStack), MemoryPages, pagesHeld,
               PagesFrom(LentSlabs))
      /\ pagePool.numPagesInUse = Cardinality(pagesHeld) + Len(MemoryPages)

Block == [page : Page, offset : Nat, size : Nat]

\* A block of the top page is in what is used of it.
BlocksBelow ==
    /\ "memory" \notin destroyed => MemoryPoolReady(memoryPool)
    /\ "memory" \in destroyed =>
         memoryPool.pageStack.length = 0 /\ blocks = << >>
    /\ \A i \in 1 .. Len(blocks) :
         blocks[i].page = peek(memoryPool.pageStack) =>
           blocks[i].offset + blocks[i].size <= memoryPool.numPageBytesUsed

IInv ==
    /\ TypeOK
    /\ IsFiniteSet(slabsHeld) /\ IsFiniteSet(pagesHeld) /\ blocks \in Seq(Block)
    /\ InOrder
    /\ SlabsOwned /\ PagesOwned
    /\ BlocksBelow /\ BlocksDisjoint
    /\ SlabsFreedOnce

-------------------------------------------------------------------------------
(* The slab pool.                                                          *)

\* An array nothing was allocated for holds nothing.
LEMMA NoArrayIsEmpty ==
  NoArray.length = 0 /\ Items(NoArray) = << >> /\ peek(NoArray) = NULL
BY DEF NoArray, Items, peek

\* A stack that holds something holds what a pop leaves, and what it returns
\* (stackarray.c:125-131).
LEMMA TopIsLast ==
  ASSUME NEW stack, WellFormed(stack), stack.length > 0
  PROVE  /\ WellFormed(Popped(stack))
         /\ Popped(stack).length = stack.length - 1
         /\ Items(stack) = Append(Items(Popped(stack)), peek(stack))
<1>1. stack.length \in Nat /\ stack.length # 0
  BY DEF WellFormed
<1>2. /\ WellFormed(Popped(stack))
      /\ peek(stack) = Items(stack)[stack.length]
      /\ Items(Popped(stack)) = SubSeq(Items(stack), 1, stack.length - 1)
  BY PopRemovesTheLast, Zenon
<1>3. Popped(stack).length = stack.length - 1
  <2>1. Popped(stack) = [stack EXCEPT !.length = stack.length - 1]
    BY <1>1 DEF Popped
  <2>2. stack = [values |-> stack.values, size |-> stack.size,
                 length |-> stack.length]
    BY DEF WellFormed
  <2> QED
    BY <2>1, <2>2
<1>4. PICK S : Items(stack) \in Seq(S)
  BY ItemsOfWellFormed
<1>5. Len(Items(stack)) = stack.length
  BY ItemsOfWellFormed
<1> DEFINE s == Items(stack)
           n == stack.length
<1>6. s \in Seq(S) /\ Len(s) = n /\ n \in Nat /\ n # 0
  BY <1>1, <1>4, <1>5
<1> HIDE DEF s, n
<1>7. s = Append(SubSeq(s, 1, n - 1), s[n])
  BY <1>6
<1> QED
  BY <1>2, <1>3, <1>7, Zenon DEF s, n

\* Before a slab is taken the pool has its stack and a free slab: one it had,
\* or the next one malloc returns (slabpool.c:80-90).
LEMMA SlabReadyIs ==
  ASSUME NEW pool, SlabPoolReady(pool), NEW lent, NEW held,
         Owned(Items(pool.slabStack), lent, held, 1 .. pool.numSlabsAlloc),
         NEW ready, ready = SlabReady(pool)
  PROVE  /\ IsSlabPool(ready) /\ WellFormed(ready.slabStack)
         /\ ready.numSlabsAlloc \in Nat \ {0}
         /\ \/ ready.numSlabsAlloc = pool.numSlabsAlloc
            \/ ready.numSlabsAlloc = peek(ready.slabStack)
         /\ ready.numSlabsInUse = pool.numSlabsInUse
         /\ ready.numSlabsFree = ready.slabStack.length
         /\ ready.numSlabsFree \in Nat \ {0}
         /\ ready.numSlabsAlloc = ready.numSlabsFree + ready.numSlabsInUse
         /\ Owned(Items(ready.slabStack), lent, held, 1 .. ready.numSlabsAlloc)
<1> DEFINE first == IF pool.numSlabsAlloc = 0
                    THEN [pool EXCEPT !.slabStack = initStackArray]
                    ELSE pool
<1>1. /\ IsSlabPool(first) /\ WellFormed(first.slabStack)
      /\ Items(first.slabStack) = Items(pool.slabStack)
      /\ first.slabStack.length = pool.slabStack.length
      /\ first.numSlabsAlloc = pool.numSlabsAlloc
      /\ first.numSlabsFree = pool.numSlabsFree
      /\ first.numSlabsInUse = pool.numSlabsInUse
  <2>1. CASE pool.numSlabsAlloc = 0
    <3>1. first = [slabStack |-> initStackArray,
                   numSlabsAlloc |-> pool.numSlabsAlloc,
                   numSlabsFree |-> pool.numSlabsFree,
                   numSlabsInUse |-> pool.numSlabsInUse]
      BY <2>1 DEF SlabPoolReady, IsSlabPool
    <3>2. pool.slabStack = NoArray
      BY <2>1 DEF SlabPoolReady
    <3>3. initStackArray.length = 0
      BY DEF initStackArray
    <3> HIDE DEF first
    <3> QED
      BY <3>1, <3>2, <3>3, InitIsEmpty, NoArrayIsEmpty DEF IsSlabPool
  <2>2. CASE pool.numSlabsAlloc # 0
    BY <2>2 DEF SlabPoolReady
  <2> QED
    BY <2>1, <2>2
<1>2. ready = IF first.numSlabsFree = 0 THEN populateSlabPool(first) ELSE first
  BY Zenon DEF SlabReady
<1>3. /\ pool.numSlabsAlloc \in Nat /\ pool.numSlabsInUse \in Nat
      /\ pool.numSlabsFree \in Nat
      /\ pool.numSlabsFree = pool.slabStack.length
      /\ pool.numSlabsAlloc = pool.numSlabsFree + pool.numSlabsInUse
  <2>1. pool.slabStack.length \in Nat
    BY NoArrayIsEmpty DEF SlabPoolReady, WellFormed
  <2> QED
    BY <2>1 DEF SlabPoolReady
<1> HIDE DEF first
<1>4. CASE first.numSlabsFree # 0
  <2>1. ready = first
    BY <1>2, <1>4
  <2> QED
    BY <1>1, <1>3, <1>4, <2>1
<1>5. CASE first.numSlabsFree = 0
  <2> DEFINE slab == pool.numSlabsAlloc + 1
             stack == push(first.slabStack, slab)
  <2>1. ready = [slabStack |-> stack, numSlabsAlloc |-> slab,
                 numSlabsFree |-> first.numSlabsFree + 1,
                 numSlabsInUse |-> pool.numSlabsInUse]
    <3>1. ready = populateSlabPool(first)
      BY <1>2, <1>5
    <3> HIDE DEF stack, slab
    <3>2. populateSlabPool(first) = [first EXCEPT
             !.slabStack = stack, !.numSlabsAlloc = slab,
             !.numSlabsFree = first.numSlabsFree + 1]
      BY <1>1, Zenon DEF populateSlabPool, stack, slab
    <3> QED
      BY <1>1, <3>1, <3>2 DEF IsSlabPool
  <2>2. /\ WellFormed(stack) /\ stack.length = first.slabStack.length + 1
        /\ Items(stack) = Append(Items(first.slabStack), slab)
    BY <1>1, PushAppends
  <2>3. peek(stack) = slab
    BY <1>1, PushThenPop
  <2>4. 1 .. slab = (1 .. pool.numSlabsAlloc) \union {slab}
        /\ slab \notin 1 .. pool.numSlabsAlloc
    BY <1>3
  <2>5. Owned(Items(stack), lent, held, 1 .. slab)
    <3>1. Owned(Append(Items(pool.slabStack), slab), lent, held,
                (1 .. pool.numSlabsAlloc) \union {slab})
      <4> HIDE DEF slab
      <4> QED
        BY <2>4, OwnedFresh
    <3> QED
      BY <1>1, <2>2, <2>4, <3>1, Zenon
  <2>6. slab \in Nat \ {0} /\ slab = pool.numSlabsAlloc + 1
    BY <1>3
  <2> HIDE DEF stack, slab
  <2>7. /\ ready.slabStack = stack /\ ready.numSlabsAlloc = slab
        /\ ready.numSlabsFree = 1 /\ ready.numSlabsInUse = pool.numSlabsInUse
        /\ IsSlabPool(ready)
    BY <1>5, <2>1 DEF IsSlabPool
  <2>8. stack.length = 1 /\ slab = 1 + pool.numSlabsInUse
    BY <1>1, <1>3, <1>5, <2>2, <2>6
  <2>9. Owned(Items(ready.slabStack), lent, held, 1 .. ready.numSlabsAlloc)
    BY <2>5, <2>7
  <2>10. ready.numSlabsAlloc = peek(ready.slabStack)
    BY <2>3, <2>7
  <2>11. /\ ready.numSlabsAlloc \in Nat \ {0}
         /\ ready.numSlabsFree = ready.slabStack.length
         /\ ready.numSlabsFree \in Nat \ {0}
         /\ ready.numSlabsAlloc = ready.numSlabsFree + ready.numSlabsInUse
    BY <2>6, <2>7, <2>8
  <2> QED
    BY <2>2, <2>7, <2>9, <2>10, <2>11
<1> QED
  BY <1>4, <1>5

\* Taking a slab leaves the pool in order, and who had what as it was but for
\* the slab taken (slabpool.c:71-104).
LEMMA SlabAcquiredIs ==
  ASSUME NEW pool, SlabPoolReady(pool), NEW lent, NEW held,
         Owned(Items(pool.slabStack), lent, held, 1 .. pool.numSlabsAlloc),
         NEW slab, slab = NextSlab(pool), slab \in Slab,
         NEW after, after = SlabAcquired(pool)
  PROVE  /\ SlabPoolReady(after)
         /\ after.numSlabsInUse = pool.numSlabsInUse + 1
         /\ WellFormed(after.slabStack)
         /\ Owned(Append(Items(after.slabStack), slab), lent, held,
                  1 .. after.numSlabsAlloc)
<1> DEFINE ready == SlabReady(pool)
           stack == Popped(ready.slabStack)
<1>1. /\ IsSlabPool(ready) /\ WellFormed(ready.slabStack)
      /\ ready.numSlabsAlloc \in Nat \ {0}
      /\ \/ ready.numSlabsAlloc = pool.numSlabsAlloc
         \/ ready.numSlabsAlloc = peek(ready.slabStack)
      /\ ready.numSlabsInUse = pool.numSlabsInUse
      /\ ready.numSlabsFree = ready.slabStack.length
      /\ ready.numSlabsFree \in Nat \ {0}
      /\ ready.numSlabsAlloc = ready.numSlabsFree + ready.numSlabsInUse
      /\ Owned(Items(ready.slabStack), lent, held, 1 .. ready.numSlabsAlloc)
  <2> HIDE DEF ready
  <2> QED
    BY SlabReadyIs DEF ready
<1>2. slab = peek(ready.slabStack)
  BY DEF NextSlab
<1>3. after = [slabStack |-> stack, numSlabsAlloc |-> ready.numSlabsAlloc,
               numSlabsFree |-> ready.numSlabsFree - 1,
               numSlabsInUse |-> ready.numSlabsInUse + 1]
  <2>1. after = [ready EXCEPT !.slabStack = stack,
                   !.numSlabsFree = ready.numSlabsFree - 1,
                   !.numSlabsInUse = ready.numSlabsInUse + 1]
    <3> HIDE DEF ready, stack
    <3> QED
      BY Zenon DEF SlabAcquired, ready, stack
  <2> HIDE DEF ready, stack
  <2> QED
    BY <1>1, <2>1 DEF IsSlabPool
<1>4. /\ WellFormed(stack) /\ stack.length = ready.slabStack.length - 1
      /\ Items(ready.slabStack) = Append(Items(stack), slab)
  <2>1. ready.slabStack.length > 0
    BY <1>1
  <2> HIDE DEF ready
  <2> QED
    BY <1>1, <1>2, <2>1, TopIsLast DEF stack
<1>5. pool.numSlabsInUse \in Nat /\ pool.numSlabsAlloc <= MaxSlabs
  BY PoolsAssumption DEF SlabPoolReady
<1>6. ready.numSlabsAlloc \in 0 .. MaxSlabs
  BY <1>1, <1>2, <1>5, PoolsAssumption DEF Slab
<1> HIDE DEF ready, stack
<1>7. Owned(Append(Items(after.slabStack), slab), lent, held,
            1 .. after.numSlabsAlloc)
  BY <1>1, <1>3, <1>4
<1>8. SlabPoolReady(after)
  BY <1>1, <1>3, <1>4, <1>5, <1>6 DEF SlabPoolReady, IsSlabPool
<1> QED
  BY <1>1, <1>3, <1>4, <1>5, <1>7, <1>8

\* Releasing a slab pushes it (slabpool.c:106-113).
LEMMA SlabReleasedIs ==
  ASSUME NEW pool, IsSlabPool(pool), WellFormed(pool.slabStack), NEW slab
  PROVE  /\ SlabReleased(pool, slab) =
              [slabStack |-> push(pool.slabStack, slab),
               numSlabsAlloc |-> pool.numSlabsAlloc,
               numSlabsFree |-> pool.numSlabsFree + 1,
               numSlabsInUse |-> pool.numSlabsInUse - 1]
         /\ WellFormed(push(pool.slabStack, slab))
         /\ push(pool.slabStack, slab).length = pool.slabStack.length + 1
         /\ Items(push(pool.slabStack, slab)) = Append(Items(pool.slabStack), slab)
<1> DEFINE stack == push(pool.slabStack, slab)
<1>1. SlabReleased(pool, slab) =
        [pool EXCEPT !.slabStack = stack,
                     !.numSlabsFree = pool.numSlabsFree + 1,
                     !.numSlabsInUse = pool.numSlabsInUse - 1]
  BY Zenon DEF SlabReleased
<1>2. /\ WellFormed(stack) /\ stack.length = pool.slabStack.length + 1
      /\ Items(stack) = Append(Items(pool.slabStack), slab)
  BY PushAppends
<1> HIDE DEF stack
<1>3. SlabReleased(pool, slab) =
        [slabStack |-> stack, numSlabsAlloc |-> pool.numSlabsAlloc,
         numSlabsFree |-> pool.numSlabsFree + 1,
         numSlabsInUse |-> pool.numSlabsInUse - 1]
  BY <1>1 DEF IsSlabPool
<1> QED
  BY <1>2, <1>3, Zenon DEF stack

\* A sequence of slabs was released.
SlabsBack(pool, after, slabs) ==
    /\ IsSlabPool(after) /\ WellFormed(after.slabStack)
    /\ after.slabStack.length = pool.slabStack.length + Len(slabs)
    /\ ExtendedBy(after.slabStack, pool.slabStack, slabs)
    /\ after.numSlabsAlloc = pool.numSlabsAlloc
    /\ after.numSlabsFree = pool.numSlabsFree + Len(slabs)
    /\ after.numSlabsInUse = pool.numSlabsInUse - Len(slabs)

SlabReleases == INSTANCE Folding WITH op <- SlabReleased, Inv <- SlabsBack

\* Counting one more of them.
LEMMA OneMore ==
  \A m \in Int : \A n \in Nat :
    (m + n) + 1 = m + (n + 1) /\ (m - n) - 1 = m - (n + 1)
OBVIOUS

\* The loop of destroyPagePool that releases the slabs of the page pool
\* (pagepool.c:56-69).
LEMMA ReleaseSlabs ==
  ASSUME NEW pool, IsSlabPool(pool), WellFormed(pool.slabStack),
         pool.numSlabsFree \in Int, pool.numSlabsInUse \in Int,
         NEW S, NEW slabs \in Seq(S)
  PROVE  SlabsBack(pool, FoldLeft(SlabReleased, pool, slabs), slabs)
<1>0. pool.slabStack.length \in Int
  BY ItemsOfWellFormed
<1>1. SlabsBack(pool, pool, << >>)
  <2>1. ExtendedBy(pool.slabStack, pool.slabStack, << >>)
    BY ExtendedByNone
  <2> QED
    BY <1>0, <2>1 DEF SlabsBack
<1>2. ASSUME NEW a, NEW s, NEW e, s \in Seq(S), e \in S, SlabsBack(pool, a, s)
      PROVE  SlabsBack(pool, SlabReleased(a, e), Append(s, e))
  <2> DEFINE b == SlabReleased(a, e)
             stack == push(a.slabStack, e)
  <2>1. IsSlabPool(a) /\ WellFormed(a.slabStack)
    BY <1>2 DEF SlabsBack
  <2>2. /\ b = [slabStack |-> stack, numSlabsAlloc |-> a.numSlabsAlloc,
                numSlabsFree |-> a.numSlabsFree + 1,
                numSlabsInUse |-> a.numSlabsInUse - 1]
        /\ WellFormed(stack) /\ stack.length = a.slabStack.length + 1
        /\ Items(stack) = Append(Items(a.slabStack), e)
    BY <2>1, SlabReleasedIs, Zenon
  <2> HIDE DEF b, stack
  <2>3. Len(s) \in Nat /\ Len(Append(s, e)) = Len(s) + 1
    BY <1>2
  <2>4. ExtendedBy(stack, pool.slabStack, Append(s, e))
    BY <1>2, <2>2, ExtendedByOne, Zenon DEF SlabsBack
  <2>5. /\ b.slabStack = stack /\ b.numSlabsAlloc = a.numSlabsAlloc
        /\ b.numSlabsFree = a.numSlabsFree + 1
        /\ b.numSlabsInUse = a.numSlabsInUse - 1
        /\ IsSlabPool(b)
    BY <2>2 DEF IsSlabPool
  <2>6. /\ a.slabStack.length = pool.slabStack.length + Len(s)
        /\ a.numSlabsAlloc = pool.numSlabsAlloc
        /\ a.numSlabsFree = pool.numSlabsFree + Len(s)
        /\ a.numSlabsInUse = pool.numSlabsInUse - Len(s)
    BY <1>2 DEF SlabsBack
  <2>7. /\ stack.length = pool.slabStack.length + Len(Append(s, e))
        /\ b.numSlabsAlloc = pool.numSlabsAlloc
        /\ b.numSlabsFree = pool.numSlabsFree + Len(Append(s, e))
        /\ b.numSlabsInUse = pool.numSlabsInUse - Len(Append(s, e))
    BY <1>0, <2>2, <2>3, <2>5, <2>6, OneMore, Zenon
  <2> QED
    BY <2>2, <2>4, <2>5, <2>7, Zenon DEF SlabsBack, b
<1>3. \A s \in Seq(S) : SlabsBack(pool, SlabReleases!Folded(pool, s), s)
  BY <1>1, <1>2, SlabReleases!FoldLeftInduction
<1>4. SlabReleases!Folded(pool, slabs) = FoldLeft(SlabReleased, pool, slabs)
  BY DEF SlabReleases!Folded, SlabReleases!FoldLeft, FoldLeft,
         SlabReleases!MapThenFoldSet, MapThenFoldSet, SlabReleases!Max, Max
<1>5. SlabsBack(pool, SlabReleases!Folded(pool, slabs), slabs)
  BY <1>3
<1> QED
  BY <1>4, <1>5, Zenon

-------------------------------------------------------------------------------
(* The page pool.                                                          *)

\* Releasing a page pushes it (pagepool.c:95-102).
LEMMA PageReleasedIs ==
  ASSUME NEW pool, IsPagePool(pool), WellFormed(pool.pageStack), NEW page
  PROVE  /\ PageReleased(pool, page) =
              [pageStack |-> push(pool.pageStack, page),
               slabList |-> pool.slabList,
               numPagesAlloc |-> pool.numPagesAlloc,
               numPagesFree |-> pool.numPagesFree + 1,
               numPagesInUse |-> pool.numPagesInUse - 1]
         /\ WellFormed(push(pool.pageStack, page))
         /\ push(pool.pageStack, page).length = pool.pageStack.length + 1
         /\ Items(push(pool.pageStack, page)) = Append(Items(pool.pageStack), page)
<1> DEFINE stack == push(pool.pageStack, page)
<1>1. PageReleased(pool, page) =
        [pool EXCEPT !.pageStack = stack,
                     !.numPagesFree = pool.numPagesFree + 1,
                     !.numPagesInUse = pool.numPagesInUse - 1]
  BY Zenon DEF PageReleased
<1>2. /\ WellFormed(stack) /\ stack.length = pool.pageStack.length + 1
      /\ Items(stack) = Append(Items(pool.pageStack), page)
  BY PushAppends
<1> HIDE DEF stack
<1>3. PageReleased(pool, page) =
        [pageStack |-> stack, slabList |-> pool.slabList,
         numPagesAlloc |-> pool.numPagesAlloc,
         numPagesFree |-> pool.numPagesFree + 1,
         numPagesInUse |-> pool.numPagesInUse - 1]
  BY <1>1 DEF IsPagePool
<1> QED
  BY <1>2, <1>3, Zenon DEF stack

\* A sequence of pages was released.
PagesBack(pool, after, pages) ==
    /\ IsPagePool(after) /\ WellFormed(after.pageStack)
    /\ after.pageStack.length = pool.pageStack.length + Len(pages)
    /\ ExtendedBy(after.pageStack, pool.pageStack, pages)
    /\ after.slabList = pool.slabList
    /\ after.numPagesAlloc = pool.numPagesAlloc
    /\ after.numPagesFree = pool.numPagesFree + Len(pages)
    /\ after.numPagesInUse = pool.numPagesInUse - Len(pages)

PageReleases == INSTANCE Folding WITH op <- PageReleased, Inv <- PagesBack

\* The loop of destroyMemoryPool that releases the pages of the memory pool
\* (memorypool.c:54-67).
LEMMA ReleasePages ==
  ASSUME NEW pool, IsPagePool(pool), WellFormed(pool.pageStack),
         pool.numPagesFree \in Int, pool.numPagesInUse \in Int,
         NEW S, NEW pages \in Seq(S)
  PROVE  PagesBack(pool, FoldLeft(PageReleased, pool, pages), pages)
<1>0. pool.pageStack.length \in Int
  BY ItemsOfWellFormed
<1>1. PagesBack(pool, pool, << >>)
  <2>1. ExtendedBy(pool.pageStack, pool.pageStack, << >>)
    BY ExtendedByNone
  <2> QED
    BY <1>0, <2>1 DEF PagesBack
<1>2. ASSUME NEW a, NEW s, NEW e, s \in Seq(S), e \in S, PagesBack(pool, a, s)
      PROVE  PagesBack(pool, PageReleased(a, e), Append(s, e))
  <2> DEFINE b == PageReleased(a, e)
             stack == push(a.pageStack, e)
  <2>1. IsPagePool(a) /\ WellFormed(a.pageStack)
    BY <1>2 DEF PagesBack
  <2>2. /\ b = [pageStack |-> stack, slabList |-> a.slabList,
                numPagesAlloc |-> a.numPagesAlloc,
                numPagesFree |-> a.numPagesFree + 1,
                numPagesInUse |-> a.numPagesInUse - 1]
        /\ WellFormed(stack) /\ stack.length = a.pageStack.length + 1
        /\ Items(stack) = Append(Items(a.pageStack), e)
    BY <2>1, PageReleasedIs, Zenon
  <2> HIDE DEF b, stack
  <2>3. Len(s) \in Nat /\ Len(Append(s, e)) = Len(s) + 1
    BY <1>2
  <2>4. ExtendedBy(stack, pool.pageStack, Append(s, e))
    BY <1>2, <2>2, ExtendedByOne, Zenon DEF PagesBack
  <2>5. /\ b.pageStack = stack /\ b.slabList = a.slabList
        /\ b.numPagesAlloc = a.numPagesAlloc
        /\ b.numPagesFree = a.numPagesFree + 1
        /\ b.numPagesInUse = a.numPagesInUse - 1
        /\ IsPagePool(b)
    BY <2>2 DEF IsPagePool
  <2>6. /\ a.pageStack.length = pool.pageStack.length + Len(s)
        /\ a.slabList = pool.slabList
        /\ a.numPagesAlloc = pool.numPagesAlloc
        /\ a.numPagesFree = pool.numPagesFree + Len(s)
        /\ a.numPagesInUse = pool.numPagesInUse - Len(s)
    BY <1>2 DEF PagesBack
  <2>7. /\ stack.length = pool.pageStack.length + Len(Append(s, e))
        /\ b.slabList = pool.slabList
        /\ b.numPagesAlloc = pool.numPagesAlloc
        /\ b.numPagesFree = pool.numPagesFree + Len(Append(s, e))
        /\ b.numPagesInUse = pool.numPagesInUse - Len(Append(s, e))
    BY <1>0, <2>2, <2>3, <2>5, <2>6, OneMore, Zenon
  <2> QED
    BY <2>2, <2>4, <2>5, <2>7, Zenon DEF PagesBack, b
<1>3. \A s \in Seq(S) : PagesBack(pool, PageReleases!Folded(pool, s), s)
  BY <1>1, <1>2, PageReleases!FoldLeftInduction
<1>4. PageReleases!Folded(pool, pages) = FoldLeft(PageReleased, pool, pages)
  BY DEF PageReleases!Folded, PageReleases!FoldLeft, FoldLeft,
         PageReleases!MapThenFoldSet, MapThenFoldSet, PageReleases!Max, Max
<1>5. PagesBack(pool, PageReleases!Folded(pool, pages), pages)
  BY <1>3
<1> QED
  BY <1>4, <1>5, Zenon

\* A loop over nothing.
LEMMA ReleaseNone ==
  ASSUME NEW pool
  PROVE  /\ FoldLeft(SlabReleased, pool, << >>) = pool
         /\ FoldLeft(PageReleased, pool, << >>) = pool
<1>1. SlabReleases!Folded(pool, << >>) = pool
  BY SlabReleases!FoldLeftOfEmpty
<1>2. SlabReleases!Folded(pool, << >>) = FoldLeft(SlabReleased, pool, << >>)
  BY DEF SlabReleases!Folded, SlabReleases!FoldLeft, FoldLeft,
         SlabReleases!MapThenFoldSet, MapThenFoldSet, SlabReleases!Max, Max
<1>3. PageReleases!Folded(pool, << >>) = pool
  BY PageReleases!FoldLeftOfEmpty
<1>4. PageReleases!Folded(pool, << >>) = FoldLeft(PageReleased, pool, << >>)
  BY DEF PageReleases!Folded, PageReleases!FoldLeft, FoldLeft,
         PageReleases!MapThenFoldSet, MapThenFoldSet, PageReleases!Max, Max
<1> QED
  BY <1>1, <1>2, <1>3, <1>4, Zenon

\* The address of an array that was allocated is not NULL.
LEMMA AllocatedIsNotNull ==
  ASSUME NullIsNoBlock, NEW array, WellFormed(array)
  PROVE  array.values # NULL
BY DEF NullIsNoBlock, WellFormed

\* The page pool has its arrays before it looks for a page (pagepool.c:76-79).
LEMMA PageInitializedIs ==
  ASSUME NullIsNoBlock, NEW pool, PagePoolReady(pool),
         NEW first, first = PageInitialized(pool)
  PROVE  /\ IsPagePool(first)
         /\ WellFormed(first.pageStack) /\ WellFormed(first.slabList)
         /\ Items(first.pageStack) = Items(pool.pageStack)
         /\ Items(first.slabList) = Items(pool.slabList)
         /\ first.pageStack.length = pool.pageStack.length
         /\ first.slabList.length = pool.slabList.length
         /\ first.numPagesAlloc = pool.numPagesAlloc
         /\ first.numPagesFree = pool.numPagesFree
         /\ first.numPagesInUse = pool.numPagesInUse
<1>1. CASE pool.pageStack.values = NULL
  <2>1. pool.pageStack = NoArray /\ pool.slabList = NoArray
    BY <1>1, AllocatedIsNotNull DEF PagePoolReady
  <2>2. first = [pageStack |-> initStackArray, slabList |-> initListArray,
                 numPagesAlloc |-> pool.numPagesAlloc,
                 numPagesFree |-> pool.numPagesFree,
                 numPagesInUse |-> pool.numPagesInUse]
    BY <1>1 DEF PageInitialized, PagePoolReady, IsPagePool
  <2>3. initStackArray.length = 0 /\ initListArray = initStackArray
    BY DEF initStackArray, initListArray
  <2> QED
    BY <2>1, <2>2, <2>3, InitIsEmpty, NoArrayIsEmpty DEF IsPagePool
<1>2. CASE pool.pageStack.values # NULL
  <2>1. first = pool
    BY <1>2 DEF PageInitialized
  <2>2. pool.pageStack # NoArray
    BY <1>2 DEF NoArray
  <2> QED
    BY <2>1, <2>2 DEF PagePoolReady
<1> QED
  BY <1>1, <1>2

\* The pages of a slab.
CutFrom(slab) == {<<slab, k>> : k \in 0 .. PagesPerSlab - 1}

\* A slab is cut into pages that are all different.
LEMMA PagesOfIs ==
  ASSUME NEW slab
  PROVE  /\ PagesOf(slab) \in Seq(CutFrom(slab))
         /\ Len(PagesOf(slab)) = PagesPerSlab
         /\ PagesOf(slab)[PagesPerSlab] = <<slab, PagesPerSlab - 1>>
         /\ Distinct(PagesOf(slab))
         /\ \A x \in CutFrom(slab) :
              \E i \in 1 .. Len(PagesOf(slab)) : x = PagesOf(slab)[i]
<1>1. PagesPerSlab \in Nat \ {0}
  BY PoolsAssumption
<1>2. PagesOf(slab) = [k \in 1 .. PagesPerSlab |-> <<slab, k - 1>>]
  BY DEF PagesOf
<1>3. \A k \in 1 .. PagesPerSlab : <<slab, k - 1>> \in CutFrom(slab)
  BY <1>1 DEF CutFrom
<1>4. PagesOf(slab) \in Seq(CutFrom(slab)) /\ Len(PagesOf(slab)) = PagesPerSlab
  <2>1. PagesOf(slab) \in [1 .. PagesPerSlab -> CutFrom(slab)]
    BY <1>2, <1>3
  <2> QED
    BY <1>1, <2>1
<1>5. Distinct(PagesOf(slab))
  BY <1>1, <1>2, <1>4 DEF Distinct
<1>6. ASSUME NEW k \in 0 .. PagesPerSlab - 1
      PROVE  k + 1 \in 1 .. PagesPerSlab /\ PagesOf(slab)[k + 1] = <<slab, k>>
  BY <1>1, <1>2
<1>7. PagesOf(slab)[PagesPerSlab] = <<slab, PagesPerSlab - 1>>
  BY <1>1, <1>2
<1> QED
  BY <1>4, <1>5, <1>6, <1>7 DEF CutFrom

\* The pages of one more slab are the pages there were and those cut from it.
LEMMA PagesFromMore ==
  ASSUME NEW S, NEW slabs \in Seq(S), NEW slab \in S,
         \A i \in 1 .. Len(slabs) : slabs[i] # slab
  PROVE  /\ PagesFrom(Append(slabs, slab)) = PagesFrom(slabs) \union CutFrom(slab)
         /\ PagesFrom(slabs) \cap CutFrom(slab) = {}
<1> DEFINE more == Append(slabs, slab)
<1>1. /\ Len(slabs) \in Nat /\ Len(more) = Len(slabs) + 1
      /\ more[Len(slabs) + 1] = slab
      /\ \A i \in 1 .. Len(slabs) : more[i] = slabs[i]
  OBVIOUS
<1> HIDE DEF more
<1>2. ASSUME NEW x \in PagesFrom(more)
      PROVE  x \in PagesFrom(slabs) \union CutFrom(slab)
  <2>1. PICK i \in 1 .. Len(more), k \in 0 .. PagesPerSlab - 1 : x = <<more[i], k>>
    BY DEF PagesFrom
  <2>2. i \in 1 .. Len(slabs) \/ i = Len(slabs) + 1
    BY <1>1
  <2> QED
    BY <1>1, <2>1, <2>2 DEF PagesFrom, CutFrom
<1>3. ASSUME NEW x \in PagesFrom(slabs) PROVE x \in PagesFrom(more)
  <2>1. PICK i \in 1 .. Len(slabs), k \in 0 .. PagesPerSlab - 1 : x = <<slabs[i], k>>
    BY DEF PagesFrom
  <2>2. i \in 1 .. Len(more) /\ more[i] = slabs[i]
    BY <1>1
  <2> QED
    BY <2>1, <2>2 DEF PagesFrom
<1>4. ASSUME NEW x \in CutFrom(slab) PROVE x \in PagesFrom(more)
  <2>1. Len(slabs) + 1 \in 1 .. Len(more)
    BY <1>1
  <2> QED
    BY <1>1, <2>1 DEF PagesFrom, CutFrom
<1>5. PagesFrom(slabs) \cap CutFrom(slab) = {}
  BY DEF PagesFrom, CutFrom
<1>6. PagesFrom(more) = PagesFrom(slabs) \union CutFrom(slab)
  BY <1>2, <1>3, <1>4
<1> QED
  BY <1>5, <1>6 DEF more

\* A slab is added to the list and its pages to the stack (pagepool.c:105-118).
LEMMA PopulateIs ==
  ASSUME NEW pool, IsPagePool(pool), WellFormed(pool.pageStack),
         WellFormed(pool.slabList), NEW slab, NEW after,
         after = populatePagePool(pool, slab)
  PROVE  /\ IsPagePool(after)
         /\ Pushed(pool.pageStack, after.pageStack, PagesOf(slab))
         /\ after.slabList = add(pool.slabList, slab)
         /\ after.numPagesAlloc = pool.numPagesAlloc + PagesPerSlab
         /\ after.numPagesFree = pool.numPagesFree + PagesPerSlab
         /\ after.numPagesInUse = pool.numPagesInUse
<1> DEFINE stack == FoldLeft(push, pool.pageStack, PagesOf(slab))
<1>1. Pushed(pool.pageStack, stack, PagesOf(slab))
  BY PagesOfIs, PushAll, Zenon
<1>2. after = [pool EXCEPT !.slabList = add(pool.slabList, slab),
                           !.pageStack = stack,
                           !.numPagesAlloc = pool.numPagesAlloc + PagesPerSlab,
                           !.numPagesFree = pool.numPagesFree + PagesPerSlab]
  BY Zenon DEF populatePagePool
<1> HIDE DEF stack
<1>3. after = [pageStack |-> stack, slabList |-> add(pool.slabList, slab),
               numPagesAlloc |-> pool.numPagesAlloc + PagesPerSlab,
               numPagesFree |-> pool.numPagesFree + PagesPerSlab,
               numPagesInUse |-> pool.numPagesInUse]
  BY <1>2 DEF IsPagePool
<1>4. /\ IsPagePool(after) /\ after.pageStack = stack
      /\ after.slabList = add(pool.slabList, slab)
      /\ after.numPagesAlloc = pool.numPagesAlloc + PagesPerSlab
      /\ after.numPagesFree = pool.numPagesFree + PagesPerSlab
      /\ after.numPagesInUse = pool.numPagesInUse
  BY <1>3 DEF IsPagePool
<1> QED
  BY <1>1, <1>4, Zenon

\* What both pools have in order once a page is free: `lent' are the slabs of
\* the page pool, `held' and `mine' the slabs and pages of the program, `used'
\* the pages of the memory pool.
BothReady(pages, slabs, held, mine, used) ==
    /\ IsPagePool(pages)
    /\ WellFormed(pages.pageStack) /\ WellFormed(pages.slabList)
    /\ pages.numPagesFree = pages.pageStack.length
    /\ pages.numPagesAlloc = pages.numPagesFree + pages.numPagesInUse
    /\ pages.numPagesAlloc = PagesPerSlab * pages.slabList.length
    /\ Owned(Items(pages.pageStack), used, mine, PagesFrom(Items(pages.slabList)))
    /\ SlabPoolReady(slabs)
    /\ Owned(Items(slabs.slabStack), Items(pages.slabList), held,
             1 .. slabs.numSlabsAlloc)

\* A slab was cut into pages, and counted where it went.
Populated(pages, slabs, after, left, held, mine, used) ==
    /\ BothReady(after, left, held, mine, used)
    /\ after.numPagesFree > 0
    /\ after.numPagesInUse = pages.numPagesInUse
    /\ left.numSlabsInUse = slabs.numSlabsInUse + 1
    /\ Len(Items(after.slabList)) = Len(Items(pages.slabList)) + 1

\* A page pool without a free page takes a slab and cuts it: the new pages are
\* nobody else's because the slab was not (pagepool.c:74-92, 105-118).
LEMMA PopulateKeeps ==
  ASSUME NEW pages, NEW slabs, NEW held, NEW mine, NEW used,
         BothReady(pages, slabs, held, mine, used), pages.numPagesFree = 0,
         pages.numPagesInUse \in Nat,
         peek(populatePagePool(pages, NextSlab(slabs)).pageStack) \in Page
  PROVE  Populated(pages, slabs, populatePagePool(pages, NextSlab(slabs)),
                   SlabAcquired(slabs), held, mine, used)
<1> SUFFICES ASSUME NEW slab, slab = NextSlab(slabs),
                    NEW after, after = populatePagePool(pages, slab),
                    peek(after.pageStack) \in Page,
                    NEW left, left = SlabAcquired(slabs)
             PROVE  Populated(pages, slabs, after, left, held, mine, used)
  BY Zenon
<1> DEFINE free == Items(pages.pageStack)
           lent == Items(pages.slabList)
<1>1. /\ IsPagePool(after)
      /\ Pushed(pages.pageStack, after.pageStack, PagesOf(slab))
      /\ after.slabList = add(pages.slabList, slab)
      /\ after.numPagesAlloc = pages.numPagesAlloc + PagesPerSlab
      /\ after.numPagesFree = pages.numPagesFree + PagesPerSlab
      /\ after.numPagesInUse = pages.numPagesInUse
  BY PopulateIs DEF BothReady
<1>2. /\ WellFormed(after.pageStack)
      /\ after.pageStack.length = pages.pageStack.length + PagesPerSlab
      /\ Items(after.pageStack) = free \o PagesOf(slab)
  BY <1>1, PagesOfIs DEF Pushed, ExtendedBy
<1>3. slab \in Slab
  <2>1. \E S : free \in Seq(S)
    BY ItemsOfWellFormed DEF BothReady
  <2>2. pages.pageStack.length = 0
    BY DEF BothReady
  <2>3. after.pageStack.length = PagesPerSlab /\ PagesPerSlab \in Nat \ {0}
    BY <1>2, <2>2, PoolsAssumption
  <2>4. free = << >>
    BY <2>2 DEF Items
  <2>5. Items(after.pageStack) = PagesOf(slab)
    <3> HIDE DEF free
    <3> QED
      BY <1>2, <2>4, PagesOfIs
  <2>6. peek(after.pageStack) = Items(after.pageStack)[after.pageStack.length]
    <3>1. after.pageStack.length > 0
      BY <2>3
    <3> QED
      BY <1>2, <3>1, PopRemovesTheLast, Zenon
  <2>7. peek(after.pageStack) = <<slab, PagesPerSlab - 1>>
    BY <2>3, <2>5, <2>6, PagesOfIs
  <2> QED
    BY <2>7 DEF Page
<1>4. slab # NULL
  BY <1>3, PoolsAssumption DEF Slab
<1>5. after.slabList = push(pages.slabList, slab)
  BY <1>1, <1>4 DEF add
<1>6. /\ WellFormed(after.slabList)
      /\ after.slabList.length = pages.slabList.length + 1
      /\ Items(after.slabList) = Append(lent, slab)
  <2>1. WellFormed(pages.slabList)
    BY DEF BothReady
  <2> QED
    BY <1>5, <2>1, PushAppends, Zenon
<1>7. /\ SlabPoolReady(left)
      /\ left.numSlabsInUse = slabs.numSlabsInUse + 1
      /\ WellFormed(left.slabStack)
      /\ Owned(Append(Items(left.slabStack), slab), lent, held,
               1 .. left.numSlabsAlloc)
  BY <1>3, SlabAcquiredIs DEF BothReady
<1>8. Owned(Items(left.slabStack), Append(lent, slab), held, 1 .. left.numSlabsAlloc)
  <2>1. \E S : Items(left.slabStack) \in Seq(S)
    BY <1>7, ItemsOfWellFormed
  <2> QED
    BY <1>7, <2>1, OwnedLend
<1>9. \E S : lent \in Seq(S) /\ slab \in S
  <2>1. PICK S : lent \in Seq(S)
    BY ItemsOfWellFormed DEF BothReady
  <2>2. lent \in Seq(S \union {slab})
    BY <2>1
  <2> QED
    BY <2>2
<1>10. Len(Append(lent, slab)) = Len(lent) + 1 /\ Len(lent) = pages.slabList.length
       /\ Len(lent) \in Nat
  BY <1>9, ItemsOfWellFormed DEF BothReady
<1> HIDE DEF free, lent
<1>11. \A i \in 1 .. Len(lent) : lent[i] # slab
  <2> DEFINE more == Append(lent, slab)
  <2>1. /\ \A i \in 1 .. Len(lent) : more[i] = lent[i] /\ i \in 1 .. Len(more)
        /\ more[Len(lent) + 1] = slab /\ Len(lent) + 1 \in 1 .. Len(more)
    BY <1>9, <1>10
  <2>2. Distinct(more)
    BY <1>8 DEF Owned
  <2> HIDE DEF more
  <2>3. \A i \in 1 .. Len(lent) : i # Len(lent) + 1
    BY <1>10
  <2> QED
    BY <2>1, <2>2, <2>3 DEF Distinct
<1>12. /\ PagesFrom(Append(lent, slab)) = PagesFrom(lent) \union CutFrom(slab)
       /\ PagesFrom(lent) \cap CutFrom(slab) = {}
  BY <1>9, <1>11, PagesFromMore
<1>13. Owned(Items(after.pageStack), used, mine, PagesFrom(Append(lent, slab)))
  <2>1. Owned(free, used, mine, PagesFrom(lent))
    BY DEF BothReady, free, lent
  <2>2. Owned(free \o PagesOf(slab), used, mine, PagesFrom(lent) \union CutFrom(slab))
    BY <1>12, <2>1, OwnedMore, PagesOfIs
  <2> QED
    BY <1>2, <1>12, <2>2
<1>14. /\ after.numPagesFree = after.pageStack.length
       /\ after.numPagesAlloc = after.numPagesFree + after.numPagesInUse
       /\ after.numPagesAlloc = PagesPerSlab * after.slabList.length
       /\ after.numPagesFree > 0
  <2>1. /\ pages.numPagesFree = pages.pageStack.length
        /\ pages.numPagesAlloc = pages.numPagesFree + pages.numPagesInUse
        /\ pages.numPagesAlloc = PagesPerSlab * pages.slabList.length
        /\ pages.slabList.length \in Nat /\ PagesPerSlab \in Nat \ {0}
    BY <1>10, PoolsAssumption DEF BothReady
  <2> DEFINE n == pages.slabList.length
             p == PagesPerSlab
  <2>2. n \in Nat /\ p \in Nat => p * (n + 1) = p * n + p
    OBVIOUS
  <2>3. p * (n + 1) = p * n + p
    BY <2>1, <2>2
  <2>4. pages.numPagesAlloc = p * n /\ after.slabList.length = n + 1
    BY <1>6, <2>1
  <2>5. after.numPagesAlloc = pages.numPagesAlloc + p
    BY <1>1
  <2>6. after.numPagesAlloc = p * after.slabList.length
    BY <2>3, <2>4, <2>5, Zenon
  <2> QED
    BY <1>1, <1>2, <2>1, <2>6
<1>15. BothReady(after, left, held, mine, used)
  BY <1>1, <1>2, <1>6, <1>7, <1>8, <1>13, <1>14, Zenon DEF BothReady
<1> QED
  BY <1>1, <1>6, <1>7, <1>10, <1>14, <1>15 DEF lent, Populated

\* The pools once a page is free, whether the page pool had one or not.
LEMMA PageReadyIs ==
  ASSUME NullIsNoBlock,
         NEW pages, PagePoolReady(pages), NEW slabs, SlabPoolReady(slabs),
         NEW held, NEW mine, NEW used,
         Owned(Items(pages.pageStack), used, mine, PagesFrom(Items(pages.slabList))),
         Owned(Items(slabs.slabStack), Items(pages.slabList), held,
               1 .. slabs.numSlabsAlloc),
         NEW ready, ready = PageReady(pages, slabs),
         peek(ready.pages.pageStack) \in Page
  PROVE  /\ BothReady(ready.pages, ready.slabs, held, mine, used)
         /\ ready.pages.numPagesFree > 0
         /\ ready.pages.numPagesInUse = pages.numPagesInUse
         /\ ready.slabs.numSlabsInUse - Len(Items(ready.pages.slabList))
              = slabs.numSlabsInUse - Len(Items(pages.slabList))
<1> DEFINE first == PageInitialized(pages)
<1>1. /\ IsPagePool(first)
      /\ WellFormed(first.pageStack) /\ WellFormed(first.slabList)
      /\ Items(first.pageStack) = Items(pages.pageStack)
      /\ Items(first.slabList) = Items(pages.slabList)
      /\ first.pageStack.length = pages.pageStack.length
      /\ first.slabList.length = pages.slabList.length
      /\ first.numPagesAlloc = pages.numPagesAlloc
      /\ first.numPagesFree = pages.numPagesFree
      /\ first.numPagesInUse = pages.numPagesInUse
  BY PageInitializedIs
<1>2. ready = IF pages.numPagesFree = 0
              THEN [pages |-> populatePagePool(first, NextSlab(slabs)),
                    slabs |-> SlabAcquired(slabs)]
              ELSE [pages |-> first, slabs |-> slabs]
  BY DEF PageReady
<1> HIDE DEF first
<1>3. BothReady(first, slabs, held, mine, used)
  BY <1>1 DEF BothReady, PagePoolReady
<1>4. pages.numPagesInUse \in Nat /\ slabs.numSlabsInUse \in Nat
      /\ pages.numPagesFree \in Nat /\ Len(Items(pages.slabList)) \in Nat
  <2>1. first.pageStack.length \in Nat /\ Len(Items(first.slabList)) \in Nat
    BY <1>1, ItemsOfWellFormed
  <2> QED
    BY <1>1, <2>1 DEF PagePoolReady, SlabPoolReady
<1>5. CASE pages.numPagesFree = 0
  <2>1. /\ ready.pages = populatePagePool(first, NextSlab(slabs))
        /\ ready.slabs = SlabAcquired(slabs)
    BY <1>2, <1>5
  <2>2. first.numPagesFree = 0 /\ first.numPagesInUse \in Nat
    BY <1>1, <1>4, <1>5
  <2> DEFINE after == populatePagePool(first, NextSlab(slabs))
             left == SlabAcquired(slabs)
  <2>3. peek(after.pageStack) \in Page
    BY <2>1
  <2>4. Populated(first, slabs, after, left, held, mine, used)
    BY <1>3, <2>2, <2>3, PopulateKeeps
  <2>5. ready.pages = after /\ ready.slabs = left
    BY <2>1
  <2> HIDE DEF after, left
  <2>6. /\ BothReady(after, left, held, mine, used)
        /\ after.numPagesFree > 0
        /\ after.numPagesInUse = pages.numPagesInUse
    BY <1>1, <2>4 DEF Populated
  <2>7. left.numSlabsInUse - Len(Items(after.slabList))
          = slabs.numSlabsInUse - Len(Items(pages.slabList))
    <3>1. /\ left.numSlabsInUse = slabs.numSlabsInUse + 1
          /\ Len(Items(after.slabList)) = Len(Items(pages.slabList)) + 1
      BY <1>1, <2>4 DEF Populated
    <3> QED
      BY <1>4, <3>1
  <2> QED
    BY <2>5, <2>6, <2>7, Zenon
<1>6. CASE pages.numPagesFree # 0
  <2>1. ready.pages = first /\ ready.slabs = slabs
    BY <1>2, <1>6
  <2> QED
    BY <1>1, <1>3, <1>4, <1>6, <2>1
<1> QED
  BY <1>5, <1>6

-------------------------------------------------------------------------------
(* Types.                                                                  *)

\* The part of TypeOK that is about one pool.
SlabTypes(pool) ==
    /\ Fits(pool.slabStack) /\ pool.numSlabsAlloc \in Nat
    /\ pool.numSlabsFree \in Nat /\ pool.numSlabsInUse \in Nat

PageTypes(pool) ==
    /\ Fits(pool.pageStack) /\ Fits(pool.slabList) /\ pool.numPagesAlloc \in Nat
    /\ pool.numPagesFree \in Nat /\ pool.numPagesInUse \in Nat

MemoryTypes(pool) ==
    /\ Fits(pool.pageStack)
    /\ pool.numPageBytesUsed \in 0 .. PageBytes
    /\ pool.numPageBytesFree \in 0 .. PageBytes

\* A pool that is in order has values of its C types.
LEMMA ReadyTypes ==
  ASSUME NEW pool
  PROVE  /\ SlabPoolReady(pool) => SlabTypes(pool)
         /\ PagePoolReady(pool) => PageTypes(pool)
         /\ MemoryPoolReady(pool) => MemoryTypes(pool)
<1>1. \A array : array = NoArray \/ WellFormed(array)
                   => Fits(array) /\ array.length \in Nat
  BY DEF NoArray, WellFormed, Fits
<1>2. ASSUME SlabPoolReady(pool) PROVE SlabTypes(pool)
  <2>1. Fits(pool.slabStack) /\ pool.slabStack.length \in Nat
    BY <1>1, <1>2 DEF SlabPoolReady
  <2>2. pool.numSlabsAlloc \in Nat
    BY <1>2, PoolsAssumption DEF SlabPoolReady
  <2> QED
    BY <1>2, <2>1, <2>2 DEF SlabPoolReady, SlabTypes
<1>3. ASSUME PagePoolReady(pool) PROVE PageTypes(pool)
  <2>1. /\ Fits(pool.pageStack) /\ pool.pageStack.length \in Nat
        /\ Fits(pool.slabList)
    BY <1>1, <1>3 DEF PagePoolReady
  <2>2. pool.numPagesFree \in Nat /\ pool.numPagesInUse \in Nat
    BY <1>3, <2>1 DEF PagePoolReady
  <2>3. pool.numPagesAlloc = pool.numPagesFree + pool.numPagesInUse
    BY <1>3 DEF PagePoolReady
  <2> QED
    BY <2>1, <2>2, <2>3 DEF PageTypes
<1>4. ASSUME MemoryPoolReady(pool) PROVE MemoryTypes(pool)
  <2>1. Fits(pool.pageStack) /\ pool.pageStack.length \in Nat
    BY <1>1, <1>4 DEF MemoryPoolReady
  <2>2. /\ pool.numPageBytesUsed \in 0 .. PageBytes
        /\ pool.numPageBytesFree \in 0 .. PageBytes
    BY <1>4, <2>1, PoolsAssumption DEF MemoryPoolReady
  <2> QED
    BY <2>1, <2>2 DEF MemoryTypes
<1> QED
  BY <1>2, <1>3, <1>4

\* TypeOK, pool by pool.
LEMMA TypeOKIs ==
  TypeOK <=> /\ SlabTypes(slabPool) /\ PageTypes(pagePool)
             /\ MemoryTypes(memoryPool)
             /\ slabsHeld \subseteq Slab /\ pagesHeld \subseteq Page
             /\ freed \in Seq(Slab)
BY DEF TypeOK, SlabTypes, PageTypes, MemoryTypes

\* The pool above is destroyed first.
LEMMA OrderIs ==
  ASSUME InOrder
  PROVE  /\ "page" \notin destroyed => "slab" \notin destroyed
         /\ "memory" \notin destroyed => "page" \notin destroyed
BY DEF InOrder

-------------------------------------------------------------------------------
(* The program takes and gives back slabs.                                 *)

\* What a slab action leaves alone of the invariant.
LEMMA SlabActionKeeps ==
  ASSUME IInv, "slab" \notin destroyed,
         UNCHANGED <<pagePool, memoryPool, pagesHeld, blocks, freed, destroyed>>,
         SlabsOwned', SlabTypes(slabPool'), slabsHeld' \subseteq Slab,
         IsFiniteSet(slabsHeld')
  PROVE  IInv'
<1>1. LentSlabs' = LentSlabs /\ MemoryPages' = MemoryPages
  BY DEF LentSlabs, MemoryPages
<1>2. TypeOK'
  BY TypeOKIs DEF IInv, TypeOK, SlabTypes
<1>3. PagesOwned'
  BY <1>1 DEF IInv, PagesOwned
<1>4. BlocksBelow' /\ BlocksDisjoint'
  BY <1>1 DEF IInv, BlocksBelow, BlocksDisjoint
<1>5. SlabsFreedOnce' /\ InOrder'
  BY DEF IInv, SlabsFreedOnce, InOrder
<1>6. IsFiniteSet(pagesHeld') /\ (blocks \in Seq(Block))'
  BY DEF IInv
<1> QED
  BY <1>2, <1>3, <1>4, <1>5, <1>6 DEF IInv

\* A slab acquired has one owner more, the program (slabpool.c:71-104).
LEMMA AcquireSlabKeeps ==
  ASSUME IInv, acquireSlab PROVE IInv'
<1> DEFINE slab == NextSlab(slabPool)
<1>1. /\ "slab" \notin destroyed /\ slab \in Slab
      /\ slabPool' = SlabAcquired(slabPool)
      /\ slabsHeld' = slabsHeld \union {slab}
      /\ UNCHANGED <<pagePool, memoryPool, pagesHeld, blocks, freed, destroyed>>
  BY DEF acquireSlab
<1>2. /\ SlabPoolReady(slabPool)
      /\ Owned(Items(slabPool.slabStack), LentSlabs, slabsHeld,
               1 .. slabPool.numSlabsAlloc)
      /\ slabPool.numSlabsInUse = Cardinality(slabsHeld) + Len(LentSlabs)
      /\ freed = << >> /\ IsFiniteSet(slabsHeld) /\ slabsHeld \subseteq Slab
  BY <1>1 DEF IInv, SlabsOwned, TypeOK
<1>3. /\ SlabPoolReady(slabPool')
      /\ slabPool'.numSlabsInUse = slabPool.numSlabsInUse + 1
      /\ WellFormed(slabPool'.slabStack)
      /\ Owned(Append(Items(slabPool'.slabStack), slab), LentSlabs, slabsHeld,
               1 .. slabPool'.numSlabsAlloc)
  BY <1>1, <1>2, SlabAcquiredIs
<1>4. /\ Owned(Items(slabPool'.slabStack), LentSlabs, slabsHeld \union {slab},
               1 .. slabPool'.numSlabsAlloc)
      /\ slab \notin slabsHeld
  <2>1. \E S : Items(slabPool'.slabStack) \in Seq(S)
    BY <1>3, ItemsOfWellFormed
  <2> HIDE DEF slab
  <2> QED
    BY <1>3, <2>1, OwnedTake
<1> HIDE DEF slab
<1>5. /\ IsFiniteSet(slabsHeld') /\ slabsHeld' \subseteq Slab
      /\ Cardinality(slabsHeld') = Cardinality(slabsHeld) + 1
      /\ Cardinality(slabsHeld) \in Nat
  BY <1>1, <1>2, <1>4, FS_AddElement, FS_CardinalityType
<1>6. LentSlabs' = LentSlabs
  BY <1>1 DEF LentSlabs
<1>7. Len(LentSlabs) \in Nat
  BY <1>2 DEF Owned
<1>8. SlabsOwned'
  <2>1. slabPool'.numSlabsInUse = Cardinality(slabsHeld') + Len(LentSlabs')
    BY <1>2, <1>3, <1>5, <1>6, <1>7
  <2>2. Owned(Items(slabPool'.slabStack), LentSlabs', slabsHeld',
              1 .. slabPool'.numSlabsAlloc)
    BY <1>1, <1>4, <1>6
  <2> QED
    BY <1>1, <1>2, <1>3, <2>1, <2>2 DEF SlabsOwned
<1> QED
  BY <1>1, <1>3, <1>5, <1>8, ReadyTypes, SlabActionKeeps

\* A slab released is free again (slabpool.c:106-113).
LEMMA ReleaseSlabKeeps ==
  ASSUME IInv, NEW slab, releaseSlab(slab) PROVE IInv'
<1>1. /\ "slab" \notin destroyed /\ slab \in slabsHeld
      /\ slabPool' = SlabReleased(slabPool, slab)
      /\ slabsHeld' = slabsHeld \ {slab}
      /\ UNCHANGED <<pagePool, memoryPool, pagesHeld, blocks, freed, destroyed>>
  BY DEF releaseSlab
<1>2. /\ SlabPoolReady(slabPool)
      /\ Owned(Items(slabPool.slabStack), LentSlabs, slabsHeld,
               1 .. slabPool.numSlabsAlloc)
      /\ slabPool.numSlabsInUse = Cardinality(slabsHeld) + Len(LentSlabs)
      /\ freed = << >> /\ IsFiniteSet(slabsHeld) /\ slabsHeld \subseteq Slab
  BY <1>1 DEF IInv, SlabsOwned, TypeOK
<1>3. /\ IsSlabPool(slabPool) /\ WellFormed(slabPool.slabStack)
      /\ slabPool.numSlabsAlloc \in 0 .. MaxSlabs /\ slabPool.numSlabsAlloc # 0
      /\ slabPool.numSlabsFree = slabPool.slabStack.length
      /\ slabPool.slabStack.length \in Nat
      /\ slabPool.numSlabsAlloc = slabPool.numSlabsFree + slabPool.numSlabsInUse
      /\ slabPool.numSlabsInUse \in Nat
  <2>1. slab \in 1 .. slabPool.numSlabsAlloc
    BY <1>1, <1>2 DEF Owned
  <2>2. slabPool.numSlabsAlloc # 0
    BY <2>1
  <2> QED
    BY <1>2, <2>2 DEF SlabPoolReady, WellFormed
<1> DEFINE stack == push(slabPool.slabStack, slab)
<1>4. /\ slabPool' = [slabStack |-> stack,
                      numSlabsAlloc |-> slabPool.numSlabsAlloc,
                      numSlabsFree |-> slabPool.numSlabsFree + 1,
                      numSlabsInUse |-> slabPool.numSlabsInUse - 1]
      /\ WellFormed(stack)
      /\ stack.length = slabPool.slabStack.length + 1
      /\ Items(stack) = Append(Items(slabPool.slabStack), slab)
  BY <1>1, <1>3, SlabReleasedIs, Zenon
<1> HIDE DEF stack
<1>5. /\ IsFiniteSet(slabsHeld') /\ slabsHeld' \subseteq Slab
      /\ Cardinality(slabsHeld') = Cardinality(slabsHeld) - 1
      /\ Cardinality(slabsHeld') \in Nat /\ Cardinality(slabsHeld) \in Nat
  BY <1>1, <1>2, FS_RemoveElement, FS_CardinalityType
<1>6. LentSlabs' = LentSlabs
  BY <1>1 DEF LentSlabs
<1>7. Len(LentSlabs) \in Nat
  BY <1>2 DEF Owned
<1>8. Owned(Items(slabPool'.slabStack), LentSlabs', slabsHeld',
            1 .. slabPool'.numSlabsAlloc)
  <2>1. Owned(Append(Items(slabPool.slabStack), slab), LentSlabs,
              slabsHeld \ {slab}, 1 .. slabPool.numSlabsAlloc)
    BY <1>1, <1>2, OwnedGive
  <2>2. Items(slabPool'.slabStack) = Append(Items(slabPool.slabStack), slab)
        /\ slabPool'.numSlabsAlloc = slabPool.numSlabsAlloc
    BY <1>4
  <2> QED
    BY <1>1, <1>6, <2>1, <2>2
<1>9. slabPool'.numSlabsInUse = Cardinality(slabsHeld') + Len(LentSlabs')
  <2>1. slabPool'.numSlabsInUse = slabPool.numSlabsInUse - 1
    BY <1>4
  <2> QED
    BY <1>2, <1>5, <1>6, <1>7, <2>1
<1>10. SlabPoolReady(slabPool')
  <2>1. /\ slabPool'.slabStack = stack
        /\ slabPool'.numSlabsAlloc = slabPool.numSlabsAlloc
        /\ slabPool'.numSlabsFree = slabPool.numSlabsFree + 1
        /\ slabPool'.numSlabsInUse = slabPool.numSlabsInUse - 1
        /\ IsSlabPool(slabPool')
    BY <1>4 DEF IsSlabPool
  <2>2. slabPool'.numSlabsInUse \in Nat
    BY <1>5, <1>6, <1>7, <1>9
  <2>3. /\ slabPool'.numSlabsFree = slabPool'.slabStack.length
        /\ slabPool'.numSlabsAlloc
             = slabPool'.numSlabsFree + slabPool'.numSlabsInUse
    <3>1. slabPool'.slabStack.length = slabPool.slabStack.length + 1
      BY <1>4, <2>1, Zenon
    <3> QED
      BY <1>3, <2>1, <3>1
  <2>4. slabPool'.numSlabsAlloc \in 0 .. MaxSlabs /\ slabPool'.numSlabsAlloc # 0
        /\ WellFormed(slabPool'.slabStack)
    BY <1>3, <1>4, <2>1, Zenon
  <2> HIDE DEF stack
  <2> QED
    BY <2>1, <2>2, <2>3, <2>4, Zenon DEF SlabPoolReady
<1>11. SlabsOwned'
  BY <1>1, <1>2, <1>8, <1>9, <1>10 DEF SlabsOwned
<1> QED
  BY <1>1, <1>5, <1>10, <1>11, ReadyTypes, SlabActionKeeps

-------------------------------------------------------------------------------
(* The program takes and gives back pages.                                 *)

\* Whoever acquires a page, the pools are in order and nobody else has it
\* (pagepool.c:74-92).
LEMMA PageAcquiredIs ==
  ASSUME NullIsNoBlock, IInv, "page" \notin destroyed, PageAcquired,
         UNCHANGED <<destroyed, slabsHeld, freed>>
  PROVE  /\ SlabsOwned' /\ SlabPoolReady(slabPool')
         /\ PagePoolReady(pagePool') /\ WellFormed(pagePool'.pageStack)
         /\ pagePool'.numPagesInUse = pagePool.numPagesInUse + 1
         /\ Owned(Append(Items(pagePool'.pageStack), NextPage), MemoryPages,
                  pagesHeld, PagesFrom(LentSlabs'))
         /\ NextPage \in Page
<1>1. "slab" \notin destroyed
  BY OrderIs DEF IInv
<1>2. /\ SlabPoolReady(slabPool)
      /\ Owned(Items(slabPool.slabStack), LentSlabs, slabsHeld,
               1 .. slabPool.numSlabsAlloc)
      /\ slabPool.numSlabsInUse = Cardinality(slabsHeld) + Len(LentSlabs)
      /\ freed = << >> /\ IsFiniteSet(slabsHeld)
  BY <1>1 DEF IInv, SlabsOwned
<1>3. /\ PagePoolReady(pagePool)
      /\ Owned(Items(pagePool.pageStack), MemoryPages, pagesHeld,
               PagesFrom(LentSlabs))
  BY DEF IInv, PagesOwned
<1>4. LentSlabs = Items(pagePool.slabList)
  BY DEF LentSlabs
<1>5. LentSlabs' = Items(pagePool'.slabList)
  BY DEF LentSlabs
<1> DEFINE ready == PageReady(pagePool, slabPool)
           pages == ready.pages
           stack == Popped(pages.pageStack)
<1>6. /\ NextPage = peek(pages.pageStack) /\ NextPage \in Page
      /\ slabPool' = ready.slabs
      /\ pagePool' = [pages EXCEPT !.pageStack = stack,
                                   !.numPagesFree = pages.numPagesFree - 1,
                                   !.numPagesInUse = pages.numPagesInUse + 1]
  BY Zenon DEF PageAcquired, NextPage
<1>7. /\ BothReady(pages, ready.slabs, slabsHeld, pagesHeld, MemoryPages)
      /\ pages.numPagesFree > 0
      /\ pages.numPagesInUse = pagePool.numPagesInUse
      /\ ready.slabs.numSlabsInUse - Len(Items(pages.slabList))
           = slabPool.numSlabsInUse - Len(Items(pagePool.slabList))
  BY <1>2, <1>3, <1>4, <1>6, PageReadyIs
<1> HIDE DEF ready
<1>8. /\ IsPagePool(pages)
      /\ WellFormed(pages.pageStack) /\ WellFormed(pages.slabList)
      /\ pages.numPagesFree = pages.pageStack.length
      /\ pages.numPagesAlloc = pages.numPagesFree + pages.numPagesInUse
      /\ pages.numPagesAlloc = PagesPerSlab * pages.slabList.length
      /\ SlabPoolReady(ready.slabs)
      /\ Owned(Items(ready.slabs.slabStack), Items(pages.slabList), slabsHeld,
               1 .. ready.slabs.numSlabsAlloc)
      /\ Owned(Items(pages.pageStack), MemoryPages, pagesHeld,
               PagesFrom(Items(pages.slabList)))
  BY <1>7, Zenon DEF BothReady
<1> HIDE DEF pages
<1>9. /\ WellFormed(stack) /\ stack.length = pages.pageStack.length - 1
      /\ Items(pages.pageStack) = Append(Items(stack), NextPage)
  BY <1>6, <1>7, <1>8, TopIsLast
<1> HIDE DEF stack
<1>10. /\ pagePool'.pageStack = stack /\ pagePool'.slabList = pages.slabList
       /\ pagePool'.numPagesAlloc = pages.numPagesAlloc
       /\ pagePool'.numPagesFree = pages.numPagesFree - 1
       /\ pagePool'.numPagesInUse = pages.numPagesInUse + 1
       /\ IsPagePool(pagePool')
  BY <1>6, <1>8 DEF IsPagePool
<1>11. PagePoolReady(pagePool')
  <2>1. pages.numPagesInUse \in Nat /\ pages.numPagesFree \in Nat
    BY <1>3, <1>7, <1>8, ItemsOfWellFormed DEF PagePoolReady
  <2>2. pagePool'.numPagesAlloc = pagePool'.numPagesFree + pagePool'.numPagesInUse
    BY <1>8, <1>10, <2>1
  <2>3. pagePool'.numPagesFree = pagePool'.pageStack.length
    BY <1>8, <1>9, <1>10
  <2>4. pagePool'.numPagesAlloc = PagesPerSlab * pagePool'.slabList.length
    BY <1>8, <1>10, Zenon
  <2>5. pagePool'.numPagesInUse \in Nat
    BY <1>10, <2>1
  <2> QED
    BY <1>8, <1>9, <1>10, <2>2, <2>3, <2>4, <2>5, Zenon DEF PagePoolReady
<1>12. SlabsOwned'
  <2>1. Len(Items(pages.slabList)) \in Nat /\ Len(Items(pagePool.slabList)) \in Nat
        /\ Cardinality(slabsHeld) \in Nat
    BY <1>2, <1>4, <1>8, ItemsOfWellFormed, FS_CardinalityType DEF Owned
  <2>2. ready.slabs.numSlabsInUse \in Nat
    BY <1>8 DEF SlabPoolReady
  <2>3. ready.slabs.numSlabsInUse
          = Cardinality(slabsHeld) + Len(Items(pages.slabList))
    BY <1>2, <1>4, <1>7, <2>1, <2>2
  <2>4. LentSlabs' = Items(pages.slabList)
    BY <1>5, <1>10
  <2> QED
    BY <1>2, <1>6, <1>8, <2>3, <2>4, Zenon DEF SlabsOwned
<1>13. Owned(Append(Items(pagePool'.pageStack), NextPage), MemoryPages,
             pagesHeld, PagesFrom(LentSlabs'))
  BY <1>5, <1>8, <1>9, <1>10
<1> QED
  BY <1>6, <1>7, <1>8, <1>9, <1>10, <1>11, <1>12, <1>13

\* What an action on pages leaves alone of the invariant.
LEMMA PageActionKeeps ==
  ASSUME IInv, "slab" \notin destroyed,
         UNCHANGED <<memoryPool, slabsHeld, blocks, freed, destroyed>>,
         SlabsOwned', PagesOwned', SlabTypes(slabPool'), PageTypes(pagePool'),
         pagesHeld' \subseteq Page, IsFiniteSet(pagesHeld')
  PROVE  IInv'
<1>1. MemoryPages' = MemoryPages
  BY DEF MemoryPages
<1>2. TypeOK'
  <2>1. MemoryTypes(memoryPool') /\ slabsHeld' \subseteq Slab /\ freed' \in Seq(Slab)
    BY TypeOKIs DEF IInv
  <2> QED
    BY <2>1 DEF TypeOK, SlabTypes, PageTypes, MemoryTypes
<1>4. BlocksBelow' /\ BlocksDisjoint'
  BY <1>1 DEF IInv, BlocksBelow, BlocksDisjoint
<1>5. SlabsFreedOnce' /\ InOrder'
  BY DEF IInv, SlabsFreedOnce, InOrder
<1>6. IsFiniteSet(slabsHeld') /\ (blocks \in Seq(Block))'
  BY DEF IInv
<1> QED
  BY <1>2, <1>4, <1>5, <1>6 DEF IInv

\* A page acquired has one owner, the program (pagepool.c:74-92).
LEMMA AcquirePageKeeps ==
  ASSUME NullIsNoBlock, IInv, acquirePage PROVE IInv'
<1>1. /\ "page" \notin destroyed /\ PageAcquired
      /\ pagesHeld' = pagesHeld \union {NextPage}
      /\ UNCHANGED <<memoryPool, slabsHeld, blocks, freed, destroyed>>
  BY DEF acquirePage
<1>2. /\ SlabsOwned' /\ SlabPoolReady(slabPool')
      /\ PagePoolReady(pagePool') /\ WellFormed(pagePool'.pageStack)
      /\ pagePool'.numPagesInUse = pagePool.numPagesInUse + 1
      /\ Owned(Append(Items(pagePool'.pageStack), NextPage), MemoryPages,
               pagesHeld, PagesFrom(LentSlabs'))
      /\ NextPage \in Page
  BY <1>1, PageAcquiredIs
<1>3. /\ Owned(Items(pagePool'.pageStack), MemoryPages, pagesHeld \union {NextPage},
               PagesFrom(LentSlabs'))
      /\ NextPage \notin pagesHeld
  <2>1. \E S : Items(pagePool'.pageStack) \in Seq(S)
    BY <1>2, ItemsOfWellFormed
  <2> QED
    BY <1>2, <2>1, OwnedTake
<1>4. /\ pagePool.numPagesInUse = Cardinality(pagesHeld) + Len(MemoryPages)
      /\ IsFiniteSet(pagesHeld) /\ pagesHeld \subseteq Page
      /\ Len(MemoryPages) \in Nat
  <2>1. Len(MemoryPages) \in Nat
    BY <1>3 DEF Owned
  <2> QED
    BY <1>1, <2>1 DEF IInv, PagesOwned, TypeOK
<1>5. /\ IsFiniteSet(pagesHeld') /\ pagesHeld' \subseteq Page
      /\ Cardinality(pagesHeld') = Cardinality(pagesHeld) + 1
      /\ Cardinality(pagesHeld) \in Nat
  BY <1>1, <1>2, <1>3, <1>4, FS_AddElement, FS_CardinalityType
<1>6. MemoryPages' = MemoryPages
  BY <1>1 DEF MemoryPages
<1>7. PagesOwned'
  <2>1. pagePool'.numPagesInUse = Cardinality(pagesHeld') + Len(MemoryPages')
    BY <1>2, <1>4, <1>5, <1>6
  <2>2. Owned(Items(pagePool'.pageStack), MemoryPages', pagesHeld',
              PagesFrom(LentSlabs'))
    BY <1>1, <1>3, <1>6
  <2> QED
    BY <1>1, <1>2, <2>1, <2>2 DEF PagesOwned
<1>8. "slab" \notin destroyed
  BY <1>1, OrderIs DEF IInv
<1> QED
  BY <1>1, <1>2, <1>5, <1>7, <1>8, ReadyTypes, PageActionKeeps

\* A page pool that lent a page has its arrays.
LEMMA PagesComeFromSlabs ==
  ASSUME PagePoolReady(pagePool), "page" \notin destroyed,
         NEW page, page \in PagesFrom(LentSlabs)
  PROVE  WellFormed(pagePool.pageStack) /\ WellFormed(pagePool.slabList)
<1>1. Len(LentSlabs) # 0
  BY DEF PagesFrom
<1>2. LentSlabs = Items(pagePool.slabList)
  BY DEF LentSlabs
<1>3. pagePool.slabList # NoArray
  BY <1>1, <1>2, NoArrayIsEmpty
<1> QED
  BY <1>3 DEF PagePoolReady

\* A page released is free again (pagepool.c:94-100).
LEMMA ReleasePageKeeps ==
  ASSUME IInv, NEW page, releasePage(page) PROVE IInv'
<1>1. /\ "page" \notin destroyed /\ page \in pagesHeld
      /\ pagePool' = PageReleased(pagePool, page)
      /\ pagesHeld' = pagesHeld \ {page}
      /\ UNCHANGED <<slabPool, memoryPool, slabsHeld, blocks, freed, destroyed>>
  BY DEF releasePage
<1>2. /\ PagePoolReady(pagePool)
      /\ Owned(Items(pagePool.pageStack), MemoryPages, pagesHeld,
               PagesFrom(LentSlabs))
      /\ pagePool.numPagesInUse = Cardinality(pagesHeld) + Len(MemoryPages)
      /\ IsFiniteSet(pagesHeld) /\ pagesHeld \subseteq Page
  BY <1>1 DEF IInv, PagesOwned, TypeOK
<1>3. WellFormed(pagePool.pageStack) /\ WellFormed(pagePool.slabList)
  <2>1. page \in PagesFrom(LentSlabs)
    BY <1>1, <1>2 DEF Owned
  <2> QED
    BY <1>1, <1>2, <2>1, PagesComeFromSlabs
<1> DEFINE stack == push(pagePool.pageStack, page)
<1>4. /\ pagePool' = [pageStack |-> stack, slabList |-> pagePool.slabList,
                      numPagesAlloc |-> pagePool.numPagesAlloc,
                      numPagesFree |-> pagePool.numPagesFree + 1,
                      numPagesInUse |-> pagePool.numPagesInUse - 1]
      /\ WellFormed(stack)
      /\ stack.length = pagePool.pageStack.length + 1
      /\ Items(stack) = Append(Items(pagePool.pageStack), page)
  BY <1>1, <1>2, <1>3, PageReleasedIs, Zenon DEF PagePoolReady
<1> HIDE DEF stack
<1>5. /\ IsFiniteSet(pagesHeld') /\ pagesHeld' \subseteq Page
      /\ Cardinality(pagesHeld') = Cardinality(pagesHeld) - 1
      /\ Cardinality(pagesHeld') \in Nat /\ Cardinality(pagesHeld) \in Nat
  BY <1>1, <1>2, FS_RemoveElement, FS_CardinalityType
<1>6. /\ pagePool'.pageStack = stack /\ pagePool'.slabList = pagePool.slabList
      /\ pagePool'.numPagesAlloc = pagePool.numPagesAlloc
      /\ pagePool'.numPagesFree = pagePool.numPagesFree + 1
      /\ pagePool'.numPagesInUse = pagePool.numPagesInUse - 1
      /\ IsPagePool(pagePool')
  BY <1>4 DEF IsPagePool
<1>7. MemoryPages' = MemoryPages /\ LentSlabs' = LentSlabs
  BY <1>1, <1>6 DEF MemoryPages, LentSlabs
<1>8. Len(MemoryPages) \in Nat
  BY <1>2 DEF Owned
<1>9. Owned(Items(pagePool'.pageStack), MemoryPages', pagesHeld',
            PagesFrom(LentSlabs'))
  <2>1. Owned(Append(Items(pagePool.pageStack), page), MemoryPages,
              pagesHeld \ {page}, PagesFrom(LentSlabs))
    BY <1>1, <1>2, OwnedGive
  <2> QED
    BY <1>1, <1>4, <1>6, <1>7, <2>1
<1>10. pagePool'.numPagesInUse = Cardinality(pagesHeld') + Len(MemoryPages')
  BY <1>2, <1>5, <1>6, <1>7, <1>8
<1>11. PagePoolReady(pagePool')
  <2>1. /\ pagePool.numPagesFree = pagePool.pageStack.length
        /\ pagePool.numPagesInUse \in Nat /\ pagePool.numPagesFree \in Nat
        /\ pagePool.numPagesAlloc = pagePool.numPagesFree + pagePool.numPagesInUse
        /\ pagePool.numPagesAlloc = PagesPerSlab * pagePool.slabList.length
    BY <1>2, <1>3, ItemsOfWellFormed DEF PagePoolReady
  <2>2. pagePool'.numPagesAlloc = pagePool'.numPagesFree + pagePool'.numPagesInUse
    BY <1>6, <2>1
  <2>3. pagePool'.numPagesFree = pagePool'.pageStack.length
    BY <1>4, <1>6, <2>1
  <2>4. pagePool'.numPagesAlloc = PagesPerSlab * pagePool'.slabList.length
    BY <1>6, <2>1, Zenon
  <2>5. pagePool'.numPagesInUse \in Nat
    BY <1>5, <1>7, <1>8, <1>10
  <2> QED
    BY <1>3, <1>4, <1>6, <2>2, <2>3, <2>4, <2>5, Zenon DEF PagePoolReady
<1>12. PagesOwned'
  BY <1>1, <1>9, <1>10, <1>11 DEF PagesOwned
<1>13. "slab" \notin destroyed
  BY <1>1, OrderIs DEF IInv
<1>14. SlabsOwned' /\ SlabTypes(slabPool')
  <2>1. SlabTypes(slabPool)
    BY TypeOKIs DEF IInv
  <2> QED
    BY <1>1, <1>7, <2>1 DEF IInv, SlabsOwned
<1> QED
  BY <1>1, <1>5, <1>11, <1>12, <1>13, <1>14, ReadyTypes, PageActionKeeps

-------------------------------------------------------------------------------
(* The program takes blocks of memory.                                     *)

\* The blocks are inside pages of the pool, apart from each other, and those of
\* the top page in what is used of it.
BlocksFit(pool, taken) ==
    /\ taken \in Seq(Block)
    /\ \A i \in 1 .. Len(taken) :
         /\ taken[i].page \in ToSet(Items(pool.pageStack))
         /\ taken[i].offset + taken[i].size <= PageBytes
         /\ \A j \in 1 .. i - 1 :
              taken[i].page = taken[j].page =>
                taken[j].offset + taken[j].size <= taken[i].offset
         /\ taken[i].page = peek(pool.pageStack) =>
              taken[i].offset + taken[i].size <= pool.numPageBytesUsed

\* It is what the invariant says of the blocks.
LEMMA BlocksFitIs ==
  /\ IInv => BlocksFit(memoryPool, blocks)
  /\ BlocksFit(memoryPool, blocks) =>
       /\ blocks \in Seq(Block) /\ BlocksDisjoint
       /\ \A i \in 1 .. Len(blocks) :
            blocks[i].page = peek(memoryPool.pageStack) =>
              blocks[i].offset + blocks[i].size <= memoryPool.numPageBytesUsed
BY Zenon DEF IInv, BlocksBelow, BlocksDisjoint, BlocksFit, MemoryPages

\* The memory pool has its stack before it looks for bytes (memorypool.c:74-76).
LEMMA MemoryInitializedIs ==
  ASSUME NullIsNoBlock, NEW pool, MemoryPoolReady(pool),
         NEW first, first = MemoryInitialized(pool)
  PROVE  /\ MemoryPoolReady(first) /\ WellFormed(first.pageStack)
         /\ Items(first.pageStack) = Items(pool.pageStack)
         /\ peek(first.pageStack) = peek(pool.pageStack)
         /\ first.numPageBytesUsed = pool.numPageBytesUsed
<1>1. CASE pool.pageStack.values = NULL
  <2>1. pool.pageStack = NoArray
    BY <1>1, AllocatedIsNotNull DEF MemoryPoolReady
  <2>2. first = [pageStack |-> initStackArray,
                 numPageBytesUsed |-> pool.numPageBytesUsed,
                 numPageBytesFree |-> pool.numPageBytesFree]
    BY <1>1 DEF MemoryInitialized, MemoryPoolReady, IsMemoryPool
  <2>3. /\ initStackArray.length = 0 /\ peek(initStackArray) = NULL
        /\ WellFormed(initStackArray) /\ Items(initStackArray) = << >>
    BY InitIsEmpty DEF initStackArray, peek
  <2>4. /\ first.pageStack = initStackArray /\ IsMemoryPool(first)
        /\ first.numPageBytesUsed = pool.numPageBytesUsed
        /\ first.numPageBytesFree = pool.numPageBytesFree
    BY <2>2 DEF IsMemoryPool
  <2>5. pool.numPageBytesUsed = 0 /\ pool.numPageBytesFree = 0
    BY <2>1, NoArrayIsEmpty DEF MemoryPoolReady
  <2>6. MemoryPoolReady(first)
    BY <2>3, <2>4, <2>5 DEF MemoryPoolReady
  <2> QED
    BY <2>1, <2>3, <2>4, <2>6, NoArrayIsEmpty
<1>2. CASE pool.pageStack.values # NULL
  <2>1. first = pool
    BY <1>2 DEF MemoryInitialized
  <2>2. pool.pageStack # NoArray
    BY <1>2 DEF NoArray
  <2> QED
    BY <2>1, <2>2 DEF MemoryPoolReady
<1> QED
  BY <1>1, <1>2

\* A page that no block is in becomes the top page, with all its bytes free.
LEMMA PageAddedIs ==
  ASSUME NEW pool, MemoryPoolReady(pool), WellFormed(pool.pageStack),
         BlocksFit(pool, blocks), NEW page, page \notin ToSet(Items(pool.pageStack)),
         NEW after, after = PageAdded(pool, page)
  PROVE  /\ MemoryPoolReady(after) /\ BlocksFit(after, blocks)
         /\ after.pageStack.length > 0
         /\ Items(after.pageStack) = Append(Items(pool.pageStack), page)
         /\ after.numPageBytesFree = PageBytes
<1> DEFINE stack == push(pool.pageStack, page)
<1>1. /\ WellFormed(stack) /\ stack.length = pool.pageStack.length + 1
      /\ Items(stack) = Append(Items(pool.pageStack), page)
      /\ peek(stack) = page
  BY PushAppends, PushThenPop
<1>2. after = [pageStack |-> stack, numPageBytesUsed |-> 0,
               numPageBytesFree |-> PageBytes]
  BY Zenon DEF PageAdded
<1> HIDE DEF stack
<1>3. /\ after.pageStack = stack /\ after.numPageBytesUsed = 0
      /\ after.numPageBytesFree = PageBytes /\ IsMemoryPool(after)
  BY <1>2 DEF IsMemoryPool
<1>4. stack.length \in Nat /\ stack.length > 0
  BY <1>1, ItemsOfWellFormed
<1>5. MemoryPoolReady(after)
  BY <1>1, <1>3, <1>4, PoolsAssumption DEF MemoryPoolReady
<1>6. \A x \in ToSet(Items(pool.pageStack)) : x \in ToSet(Items(stack)) /\ x # page
  <2> DEFINE old == Items(pool.pageStack)
  <2>1. PICK S : old \in Seq(S)
    BY ItemsOfWellFormed
  <2>2. old \in Seq(S \union {page})
    BY <2>1
  <2> HIDE DEF old
  <2>3. ASSUME NEW x \in ToSet(old) PROVE x \in ToSet(Append(old, page))
    <3>1. PICK i \in 1 .. Len(old) : x = old[i]
      BY <2>1 DEF ToSet
    <3>2. /\ i \in 1 .. Len(Append(old, page)) /\ Append(old, page)[i] = x
          /\ DOMAIN Append(old, page) = 1 .. Len(Append(old, page))
      BY <2>2, <3>1
    <3> QED
      BY <3>2 DEF ToSet
  <2>4. page \notin ToSet(old)
    BY DEF old
  <2> QED
    BY <1>1, <2>3, <2>4 DEF old
<1>7. BlocksFit(after, blocks)
  <2> SUFFICES ASSUME NEW i \in 1 .. Len(blocks)
               PROVE  /\ blocks[i].page \in ToSet(Items(stack))
                      /\ blocks[i].page # peek(stack)
    BY <1>3 DEF BlocksFit
  <2>1. blocks[i].page \in ToSet(Items(pool.pageStack))
    BY DEF BlocksFit
  <2> QED
    BY <1>1, <1>6, <2>1
<1> QED
  BY <1>1, <1>3, <1>4, <1>5, <1>7

\* The next bytes of the top page are nobody else's (memorypool.c:94-114).
LEMMA BlockTakenIs ==
  ASSUME NEW pool, MemoryPoolReady(pool), BlocksFit(pool, blocks),
         ToSet(Items(pool.pageStack)) \subseteq Page, WellFormed(pool.pageStack),
         NEW size \in Nat, size <= pool.numPageBytesFree, BlockTaken(pool, size)
  PROVE  /\ memoryPool'.pageStack = pool.pageStack
         /\ MemoryPoolReady(memoryPool') /\ BlocksFit(memoryPool', blocks')
<1> DEFINE stack == pool.pageStack
           used == pool.numPageBytesUsed
           left == pool.numPageBytesFree
<1>1. /\ IsMemoryPool(pool) /\ used \in Nat /\ left \in Nat
      /\ stack.length \in Nat
      /\ stack.length = 0 => used = 0 /\ left = 0
      /\ stack.length > 0 => used + left = PageBytes
  BY ItemsOfWellFormed DEF MemoryPoolReady
<1>2. /\ memoryPool' = [pool EXCEPT !.numPageBytesUsed = used + size,
                                    !.numPageBytesFree = left - size]
      /\ blocks' = IF size = 0 THEN blocks
                   ELSE Append(blocks, [page |-> peek(stack), offset |-> used,
                                        size |-> size])
  BY Zenon DEF BlockTaken
<1>3. /\ memoryPool'.pageStack = stack /\ IsMemoryPool(memoryPool')
      /\ memoryPool'.numPageBytesUsed = used + size
      /\ memoryPool'.numPageBytesFree = left - size
  BY <1>1, <1>2 DEF IsMemoryPool
<1>4. MemoryPoolReady(memoryPool')
  <2>1. /\ stack.length = 0 => used + size = 0 /\ left - size = 0
        /\ stack.length > 0 => (used + size) + (left - size) = PageBytes
        /\ used + size \in Nat /\ left - size \in Nat
    BY <1>1
  <2>2. WellFormed(memoryPool'.pageStack)
    BY <1>3
  <2> QED
    BY <1>3, <2>1, <2>2 DEF MemoryPoolReady
<1>5. /\ blocks \in Seq(Block)
      /\ \A i \in 1 .. Len(blocks) :
           /\ blocks[i] \in Block
           /\ blocks[i].offset \in Nat /\ blocks[i].size \in Nat
           /\ blocks[i].page \in ToSet(Items(stack))
           /\ blocks[i].offset + blocks[i].size <= PageBytes
           /\ \A j \in 1 .. i - 1 :
                blocks[i].page = blocks[j].page =>
                  blocks[j].offset + blocks[j].size <= blocks[i].offset
           /\ blocks[i].page = peek(stack) =>
                blocks[i].offset + blocks[i].size <= used
  <2>1. blocks \in Seq(Block)
    BY DEF BlocksFit
  <2>2. \A i \in 1 .. Len(blocks) : blocks[i] \in Block
    BY <2>1
  <2>3. \A b \in Block : b.offset \in Nat /\ b.size \in Nat
    BY DEF Block
  <2> QED
    BY <2>1, <2>2, <2>3 DEF BlocksFit
<1>6. CASE size = 0
  <2>1. blocks' = blocks /\ used + size = used
    BY <1>1, <1>2, <1>6
  <2>2. BlocksFit(memoryPool', blocks)
    BY <1>3, <1>5, <2>1, Zenon DEF BlocksFit
  <2> QED
    BY <1>3, <1>4, <2>1, <2>2
<1>7. CASE size # 0
  <2> DEFINE block == [page |-> peek(stack), offset |-> used, size |-> size]
             more == Append(blocks, block)
             n == Len(blocks)
  <2>1. stack.length > 0
    BY <1>1, <1>7
  <2>2. peek(stack) \in ToSet(Items(stack))
    <3>1. peek(stack) = Items(stack)[stack.length]
      BY <2>1, PopRemovesTheLast, Zenon
    <3>2. stack.length \in DOMAIN Items(stack)
      BY <1>1, <2>1 DEF Items
    <3> QED
      BY <3>1, <3>2 DEF ToSet
  <2>3. block \in Block
    BY <1>1, <2>2 DEF Block
  <2>4. /\ n \in Nat /\ more \in Seq(Block) /\ Len(more) = n + 1
        /\ more[n + 1] = block
        /\ \A i \in 1 .. n : more[i] = blocks[i]
    BY <1>5, <2>3
  <2>5. /\ block.page = peek(stack) /\ block.offset = used /\ block.size = size
    OBVIOUS
  <2> HIDE DEF block, more
  <2>6. \A i \in 1 .. Len(more) : i \in 1 .. n \/ i = n + 1
    BY <2>4
  <2>7. ASSUME NEW i \in 1 .. Len(more)
        PROVE  /\ more[i].page \in ToSet(Items(stack))
               /\ more[i].offset + more[i].size <= PageBytes
               /\ \A j \in 1 .. i - 1 :
                    more[i].page = more[j].page =>
                      more[j].offset + more[j].size <= more[i].offset
               /\ more[i].page = peek(stack) =>
                    more[i].offset + more[i].size <= used + size
    <3>1. CASE i \in 1 .. n
      <4>1. more[i] = blocks[i] /\ \A j \in 1 .. i - 1 : more[j] = blocks[j]
        BY <2>4, <3>1
      <4>2. /\ blocks[i].page \in ToSet(Items(stack))
            /\ blocks[i].offset + blocks[i].size <= PageBytes
            /\ \A j \in 1 .. i - 1 :
                 blocks[i].page = blocks[j].page =>
                   blocks[j].offset + blocks[j].size <= blocks[i].offset
        BY <1>5, <3>1
      <4>3. blocks[i].page = peek(stack) =>
              blocks[i].offset + blocks[i].size <= used + size
        BY <1>1, <1>5, <3>1
      <4> QED
        BY <4>1, <4>2, <4>3
    <3>2. CASE i = n + 1
      <4>1. more[i] = block /\ \A j \in 1 .. i - 1 : j \in 1 .. n /\ more[j] = blocks[j]
        BY <2>4, <3>2
      <4>2. used + size <= PageBytes
        BY <1>1, <2>1
      <4>3. \A j \in 1 .. i - 1 : blocks[j].page = peek(stack) =>
              blocks[j].offset + blocks[j].size <= used
        BY <1>5, <4>1
      <4>4. used + size <= used + size
        BY <1>1
      <4> QED
        BY <2>2, <2>5, <4>1, <4>2, <4>3, <4>4
    <3> QED
      BY <2>6, <3>1, <3>2
  <2>8. BlocksFit(memoryPool', more)
    BY <1>3, <2>4, <2>7, Zenon DEF BlocksFit
  <2>9. blocks' = more
    BY <1>2, <1>7 DEF more, block
  <2> QED
    BY <1>3, <1>4, <2>8, <2>9
<1> QED
  BY <1>6, <1>7

\* The pages of the memory pool are pages.
LEMMA MemoryPagesArePages ==
  ASSUME IInv, "page" \notin destroyed
  PROVE  ToSet(MemoryPages) \subseteq Page
<1>1. "slab" \notin destroyed
  BY OrderIs DEF IInv
<1>2. /\ Owned(Items(slabPool.slabStack), LentSlabs, slabsHeld,
               1 .. slabPool.numSlabsAlloc)
      /\ slabPool.numSlabsAlloc \in 0 .. MaxSlabs
      /\ MemoryPages \in Seq(PagesFrom(LentSlabs))
  BY <1>1 DEF IInv, SlabsOwned, PagesOwned, SlabPoolReady, Owned
<1>3. \A i \in 1 .. Len(LentSlabs) : LentSlabs[i] \in Slab
  <2>1. \A i \in 1 .. Len(LentSlabs) : LentSlabs[i] \in 1 .. slabPool.numSlabsAlloc
    BY <1>2 DEF Owned
  <2>2. \A x \in 1 .. slabPool.numSlabsAlloc : x \in Slab
    BY <1>2, PoolsAssumption DEF Slab
  <2> QED
    BY <2>1, <2>2
<1>4. PagesFrom(LentSlabs) \subseteq Page
  BY <1>3 DEF PagesFrom, Page
<1> QED
  BY <1>2, <1>4 DEF ToSet

\* What an action on the memory pool leaves alone of the invariant.
LEMMA MemoryActionKeeps ==
  ASSUME IInv, "memory" \notin destroyed,
         UNCHANGED <<slabsHeld, pagesHeld, freed, destroyed>>,
         SlabsOwned', PagesOwned', SlabTypes(slabPool'), PageTypes(pagePool'),
         MemoryPoolReady(memoryPool'), BlocksFit(memoryPool', blocks')
  PROVE  IInv'
<1>1. TypeOK'
  <2>1. MemoryTypes(memoryPool')
    BY ReadyTypes
  <2> QED
    BY <2>1 DEF IInv, TypeOK, SlabTypes, PageTypes, MemoryTypes
<1>2. /\ (blocks \in Seq(Block))' /\ BlocksDisjoint'
      /\ \A i \in 1 .. Len(blocks') :
           blocks'[i].page = peek(memoryPool'.pageStack) =>
             blocks'[i].offset + blocks'[i].size <= memoryPool'.numPageBytesUsed
  BY Zenon DEF BlocksFit, BlocksDisjoint, MemoryPages
<1>3. BlocksBelow'
  BY <1>2 DEF BlocksBelow
<1>4. "slab" \notin destroyed
  BY OrderIs DEF IInv
<1>5. SlabsFreedOnce' /\ InOrder'
  BY <1>4 DEF IInv, SlabsFreedOnce, InOrder
<1>6. IsFiniteSet(slabsHeld') /\ IsFiniteSet(pagesHeld')
  BY DEF IInv
<1> QED
  BY <1>1, <1>2, <1>3, <1>5, <1>6 DEF IInv

\* A block acquired overlaps no other, on the page there was or on a new one; a
\* size that no page has is refused (memorypool.c:72-114).
LEMMA AcquireMemoryKeeps ==
  ASSUME NullIsNoBlock, IInv, NEW size \in Sizes, acquireMemory(size) PROVE IInv'
<1> DEFINE pool == MemoryInitialized(memoryPool)
<1>1. /\ "memory" \notin destroyed
      /\ \/ /\ size > PageBytes
            /\ memoryPool' = pool
            /\ UNCHANGED <<slabPool, pagePool, blocks>>
         \/ /\ size <= PageBytes
            /\ pool.numPageBytesFree < size
            /\ PageAcquired
            /\ BlockTaken(PageAdded(pool, NextPage), size)
         \/ /\ size <= PageBytes
            /\ pool.numPageBytesFree >= size
            /\ BlockTaken(pool, size)
            /\ UNCHANGED <<slabPool, pagePool>>
      /\ UNCHANGED <<slabsHeld, pagesHeld, freed, destroyed>>
  BY Zenon DEF acquireMemory
<1>2. "page" \notin destroyed /\ "slab" \notin destroyed
  BY <1>1, OrderIs DEF IInv
<1>3. size \in Nat
  BY PoolsAssumption
<1>4. /\ MemoryPoolReady(pool) /\ WellFormed(pool.pageStack)
      /\ Items(pool.pageStack) = MemoryPages
      /\ peek(pool.pageStack) = peek(memoryPool.pageStack)
      /\ pool.numPageBytesUsed = memoryPool.numPageBytesUsed
  BY <1>1, MemoryInitializedIs DEF IInv, BlocksBelow, MemoryPages
<1> HIDE DEF pool
<1>5. BlocksFit(pool, blocks)
  <2>1. BlocksFit(memoryPool, blocks)
    BY BlocksFitIs
  <2> QED
    BY <1>4, <2>1 DEF BlocksFit, MemoryPages
<1>6. ToSet(MemoryPages) \subseteq Page
  BY <1>2, MemoryPagesArePages
<1>7. ASSUME UNCHANGED <<slabPool, pagePool>>, MemoryPages' = MemoryPages
      PROVE  /\ SlabsOwned' /\ PagesOwned' /\ SlabTypes(slabPool')
             /\ PageTypes(pagePool')
  <2>1. LentSlabs' = LentSlabs
    BY <1>1, <1>7 DEF LentSlabs
  <2>2. SlabTypes(slabPool) /\ PageTypes(pagePool)
    BY TypeOKIs DEF IInv
  <2>3. SlabsOwned' /\ PagesOwned'
    BY <1>1, <1>7, <2>1 DEF IInv, SlabsOwned, PagesOwned
  <2> QED
    BY <1>7, <2>2, <2>3
<1>8. CASE /\ size > PageBytes
           /\ memoryPool' = pool
           /\ UNCHANGED <<slabPool, pagePool, blocks>>
  <2>1. MemoryPages' = MemoryPages
    BY <1>4, <1>8 DEF MemoryPages
  <2>2. MemoryPoolReady(memoryPool') /\ BlocksFit(memoryPool', blocks')
    BY <1>4, <1>5, <1>8
  <2> QED
    BY <1>1, <1>7, <1>8, <2>1, <2>2, MemoryActionKeeps
<1>9. CASE /\ size <= PageBytes
           /\ pool.numPageBytesFree >= size
           /\ BlockTaken(pool, size)
           /\ UNCHANGED <<slabPool, pagePool>>
  <2>1. size <= pool.numPageBytesFree
    BY <1>3, <1>4, <1>9 DEF MemoryPoolReady
  <2>2. /\ memoryPool'.pageStack = pool.pageStack
        /\ MemoryPoolReady(memoryPool') /\ BlocksFit(memoryPool', blocks')
    BY <1>3, <1>4, <1>5, <1>6, <1>9, <2>1, BlockTakenIs
  <2>3. MemoryPages' = MemoryPages
    BY <1>4, <2>2 DEF MemoryPages
  <2> QED
    BY <1>1, <1>7, <1>9, <2>2, <2>3, MemoryActionKeeps
<1>10. CASE /\ size <= PageBytes
            /\ pool.numPageBytesFree < size
            /\ PageAcquired
            /\ BlockTaken(PageAdded(pool, NextPage), size)
  <2>1. /\ SlabsOwned' /\ SlabPoolReady(slabPool')
        /\ PagePoolReady(pagePool') /\ WellFormed(pagePool'.pageStack)
        /\ pagePool'.numPagesInUse = pagePool.numPagesInUse + 1
        /\ Owned(Append(Items(pagePool'.pageStack), NextPage), MemoryPages,
                 pagesHeld, PagesFrom(LentSlabs'))
        /\ NextPage \in Page
    BY <1>1, <1>2, <1>10, PageAcquiredIs
  <2> DEFINE page == NextPage
             more == PageAdded(pool, page)
  <2>2. page \notin ToSet(Items(pool.pageStack))
    <3> DEFINE free == Items(pagePool'.pageStack)
    <3>1. PICK S : free \in Seq(S)
      BY <2>1, ItemsOfWellFormed
    <3>2. free \in Seq(S \union {page})
      BY <3>1
    <3> HIDE DEF page, free
    <3>3. /\ Len(free) + 1 \in 1 .. Len(Append(free, page))
          /\ Append(free, page)[Len(free) + 1] = page
      BY <3>2
    <3>4. Apart(Append(free, page), MemoryPages) /\ MemoryPages \in Seq(PagesFrom(LentSlabs'))
      BY <2>1 DEF Owned, page, free
    <3>5. \A j \in 1 .. Len(MemoryPages) : page # MemoryPages[j]
      BY <3>3, <3>4 DEF Apart
    <3> QED
      BY <1>4, <3>4, <3>5 DEF ToSet
  <2>3. /\ MemoryPoolReady(more) /\ BlocksFit(more, blocks)
        /\ more.pageStack.length > 0
        /\ Items(more.pageStack) = Append(MemoryPages, page)
        /\ more.numPageBytesFree = PageBytes
    <3> HIDE DEF page
    <3> QED
      BY <1>4, <1>5, <2>2, PageAddedIs
  <2>4. WellFormed(more.pageStack)
    BY <1>4, PushAppends DEF PageAdded
  <2>5. /\ Owned(Items(pagePool'.pageStack), Append(MemoryPages, page), pagesHeld,
                 PagesFrom(LentSlabs'))
    <3>1. \E S : Items(pagePool'.pageStack) \in Seq(S)
      BY <2>1, ItemsOfWellFormed
    <3> QED
      BY <2>1, <3>1, OwnedLend
  <2>6. /\ MemoryPages \in Seq(PagesFrom(LentSlabs'))
        /\ Append(MemoryPages, page) \in Seq(PagesFrom(LentSlabs'))
        /\ page \in PagesFrom(LentSlabs')
    <3>1. \E S : Items(pagePool'.pageStack) \in Seq(S)
      BY <2>1, ItemsOfWellFormed
    <3>2. page \in PagesFrom(LentSlabs')
      BY <2>1, <3>1, OwnedLend
    <3> QED
      BY <2>1, <2>5, <3>2 DEF Owned
  <2> HIDE DEF page
  <2>7. /\ Len(Append(MemoryPages, page)) = Len(MemoryPages) + 1
        /\ Len(MemoryPages) \in Nat
        /\ ToSet(Append(MemoryPages, page)) \subseteq Page
    <3> DEFINE s == Append(MemoryPages, page)
    <3>1. /\ Len(s) = Len(MemoryPages) + 1 /\ Len(MemoryPages) \in Nat
          /\ DOMAIN s = 1 .. Len(s) /\ s[Len(MemoryPages) + 1] = page
          /\ \A i \in 1 .. Len(MemoryPages) :
               s[i] = MemoryPages[i] /\ MemoryPages[i] \in ToSet(MemoryPages)
      BY <2>6 DEF ToSet
    <3> HIDE DEF s
    <3>2. \A i \in 1 .. Len(s) : i \in 1 .. Len(MemoryPages) \/ i = Len(MemoryPages) + 1
      BY <3>1
    <3>3. \A i \in DOMAIN s : s[i] \in Page
      BY <1>6, <2>1, <3>1, <3>2 DEF page
    <3> QED
      BY <3>1, <3>3 DEF ToSet, s
  <2> HIDE DEF more
  <2>8. size <= more.numPageBytesFree /\ BlockTaken(more, size)
    BY <1>10, <2>3 DEF more, page
  <2>9. /\ memoryPool'.pageStack = more.pageStack
        /\ MemoryPoolReady(memoryPool') /\ BlocksFit(memoryPool', blocks')
    BY <1>3, <2>3, <2>4, <2>7, <2>8, BlockTakenIs
  <2>10. MemoryPages' = Append(MemoryPages, page)
    BY <2>3, <2>9 DEF MemoryPages
  <2>11. PagesOwned'
    <3>1. pagePool.numPagesInUse = Cardinality(pagesHeld) + Len(MemoryPages)
      BY <1>2 DEF IInv, PagesOwned
    <3>2. Cardinality(pagesHeld) \in Nat
      BY FS_CardinalityType DEF IInv
    <3>3. pagePool'.numPagesInUse = Cardinality(pagesHeld) + Len(MemoryPages')
      BY <2>1, <2>7, <2>10, <3>1, <3>2
    <3> QED
      BY <1>1, <2>1, <2>5, <2>10, <3>3 DEF PagesOwned
  <2> QED
    BY <1>1, <2>1, <2>9, <2>11, ReadyTypes, MemoryActionKeeps
<1> QED
  BY <1>1, <1>8, <1>9, <1>10

-------------------------------------------------------------------------------
(* The end of the program.                                                 *)

\* What is popped from a stack until it is empty: what it held, in reverse.
LEMMA ReverseIs ==
  ASSUME NEW S, NEW s \in Seq(S), Distinct(s)
  PROVE  /\ Reverse(s) \in Seq(S) /\ Len(Reverse(s)) = Len(s)
         /\ Distinct(Reverse(s))
         /\ \A i \in 1 .. Len(s) : \E j \in 1 .. Len(s) : Reverse(s)[i] = s[j]
         /\ \A j \in 1 .. Len(s) : \E i \in 1 .. Len(s) : Reverse(s)[i] = s[j]
<1>1. /\ Len(s) \in Nat
      /\ Reverse(s) = [i \in 1 .. Len(s) |-> s[(Len(s) - i) + 1]]
  BY DEF Reverse
<1>2. \A i \in 1 .. Len(s) : /\ (Len(s) - i) + 1 \in 1 .. Len(s)
                             /\ Reverse(s)[i] = s[(Len(s) - i) + 1]
  BY <1>1
<1>3. \A i \in 1 .. Len(s) : s[i] \in S
  OBVIOUS
<1>4. Reverse(s) \in Seq(S) /\ Len(Reverse(s)) = Len(s)
  BY <1>1, <1>2, <1>3
<1>5. Distinct(Reverse(s))
  BY <1>1, <1>2, <1>4 DEF Distinct
<1>6. \A i \in 1 .. Len(s) : \E j \in 1 .. Len(s) : Reverse(s)[i] = s[j]
  BY <1>2
<1>7. ASSUME NEW j \in 1 .. Len(s)
      PROVE  \E i \in 1 .. Len(s) : Reverse(s)[i] = s[j]
  <2>1. /\ (Len(s) - j) + 1 \in 1 .. Len(s)
        /\ (Len(s) - ((Len(s) - j) + 1)) + 1 = j
    BY <1>1
  <2>2. Reverse(s)[(Len(s) - j) + 1] = s[(Len(s) - ((Len(s) - j) + 1)) + 1]
    BY <1>2, <2>1
  <2> QED
    BY <2>1, <2>2
<1> QED
  BY <1>4, <1>5, <1>6, <1>7

\* The block of an array that is freed leaves its size.
LEMMA FreedIs ==
  ASSUME NullIsNoBlock, NEW array, array = NoArray \/ WellFormed(array)
  PROVE  /\ Fits(Freed(array, 0)) /\ Freed(array, 0).length = 0
         /\ Fits(Freed(array, array.length))
<1>1. CASE array = NoArray
  BY <1>1 DEF NoArray, Freed, Fits
<1>2. CASE WellFormed(array)
  <2>1. array.values # NULL
    BY <1>2, AllocatedIsNotNull
  <2>2. \A n : Freed(array, n) = [values |-> << >>, size |-> array.size, length |-> n]
    BY <1>2, <2>1 DEF Freed, WellFormed
  <2>3. /\ Freed(array, 0).length = 0 /\ Freed(array, 0).size = array.size
        /\ Freed(array, array.length).length = array.length
        /\ Freed(array, array.length).size = array.size
    BY <2>2
  <2> QED
    BY <1>2, <2>3 DEF Fits, WellFormed
<1> QED
  BY <1>1, <1>2

\* The pages of the memory pool are free again, each once (memorypool.c:54-67).
LEMMA DestroyMemoryPoolKeeps ==
  ASSUME NullIsNoBlock, IInv, destroyMemoryPool PROVE IInv'
<1> DEFINE back == Reverse(MemoryPages)
<1>1. /\ destroyed = {} /\ pagePool' = FoldLeft(PageReleased, pagePool, back)
      /\ memoryPool' = [memoryPool EXCEPT !.pageStack =
                          Freed(memoryPool.pageStack, 0)]
      /\ blocks' = << >> /\ destroyed' = {"memory"}
      /\ UNCHANGED <<slabPool, slabsHeld, pagesHeld, freed>>
  BY Zenon DEF destroyMemoryPool, MemoryPages
<1>2. /\ PagePoolReady(pagePool)
      /\ Owned(Items(pagePool.pageStack), MemoryPages, pagesHeld,
               PagesFrom(LentSlabs))
      /\ pagePool.numPagesInUse = Cardinality(pagesHeld) + Len(MemoryPages)
      /\ IsFiniteSet(pagesHeld) /\ pagesHeld \subseteq Page
      /\ MemoryPoolReady(memoryPool)
  BY <1>1 DEF IInv, PagesOwned, BlocksBelow, TypeOK
<1>3. MemoryPages \in Seq(PagesFrom(LentSlabs)) /\ Distinct(MemoryPages)
      /\ Len(MemoryPages) \in Nat
  BY <1>2 DEF Owned
<1>4. /\ back \in Seq(PagesFrom(LentSlabs)) /\ Len(back) = Len(MemoryPages)
      /\ Distinct(back)
      /\ \A i \in 1 .. Len(back) : \E j \in 1 .. Len(MemoryPages) :
           back[i] = MemoryPages[j]
      /\ \A j \in 1 .. Len(MemoryPages) : \E i \in 1 .. Len(back) :
           back[i] = MemoryPages[j]
  <2> DEFINE s == MemoryPages
  <2>1. s \in Seq(PagesFrom(LentSlabs)) /\ Distinct(s)
    BY <1>3
  <2> HIDE DEF s
  <2>2. /\ Reverse(s) \in Seq(PagesFrom(LentSlabs)) /\ Len(Reverse(s)) = Len(s)
        /\ Distinct(Reverse(s))
        /\ \A i \in 1 .. Len(s) : \E j \in 1 .. Len(s) : Reverse(s)[i] = s[j]
        /\ \A j \in 1 .. Len(s) : \E i \in 1 .. Len(s) : Reverse(s)[i] = s[j]
    BY <2>1, ReverseIs
  <2> QED
    BY <2>2, Zenon DEF s
<1> HIDE DEF back
<1>5. Cardinality(pagesHeld) \in Nat
  BY <1>2, FS_CardinalityType
<1>6. /\ PagePoolReady(pagePool') /\ pagePool'.slabList = pagePool.slabList
      /\ Owned(Items(pagePool'.pageStack), << >>, pagesHeld, PagesFrom(LentSlabs))
      /\ pagePool'.numPagesInUse = Cardinality(pagesHeld)
  <2>1. CASE Len(MemoryPages) = 0
    <3>1. MemoryPages = << >> /\ back = << >>
      BY <1>3, <1>4, <2>1
    <3>2. pagePool' = pagePool
      BY <1>1, <3>1, ReleaseNone, Zenon
    <3> QED
      BY <1>2, <1>5, <2>1, <3>1, <3>2
  <2>2. CASE Len(MemoryPages) # 0
    <3>1. MemoryPages[1] \in PagesFrom(LentSlabs)
      BY <1>3, <2>2
    <3>2. WellFormed(pagePool.pageStack) /\ WellFormed(pagePool.slabList)
      BY <1>1, <1>2, <3>1, PagesComeFromSlabs
    <3>3. /\ IsPagePool(pagePool) /\ pagePool.numPagesInUse \in Nat
          /\ pagePool.pageStack.length \in Nat
          /\ pagePool.numPagesFree = pagePool.pageStack.length
          /\ pagePool.numPagesAlloc = pagePool.numPagesFree + pagePool.numPagesInUse
          /\ pagePool.numPagesAlloc = PagesPerSlab * pagePool.slabList.length
      BY <1>2, <3>2, ItemsOfWellFormed DEF PagePoolReady
    <3>4. PagesBack(pagePool, pagePool', back)
      <4>1. pagePool.numPagesFree \in Int /\ pagePool.numPagesInUse \in Int
        BY <3>3
      <4> QED
        BY <1>1, <1>4, <3>2, <3>3, <4>1, ReleasePages, Zenon
    <3>5. /\ IsPagePool(pagePool') /\ WellFormed(pagePool'.pageStack)
          /\ pagePool'.pageStack.length = pagePool.pageStack.length + Len(back)
          /\ Items(pagePool'.pageStack) = Items(pagePool.pageStack) \o back
          /\ pagePool'.slabList = pagePool.slabList
          /\ pagePool'.numPagesAlloc = pagePool.numPagesAlloc
          /\ pagePool'.numPagesFree = pagePool.numPagesFree + Len(back)
          /\ pagePool'.numPagesInUse = pagePool.numPagesInUse - Len(back)
      BY <3>4, Zenon DEF PagesBack, ExtendedBy
    <3>6. Owned(Items(pagePool.pageStack) \o back, << >>, pagesHeld,
                PagesFrom(LentSlabs))
      BY <1>2, <1>4, OwnedReturn
    <3>7. pagePool'.numPagesInUse = Cardinality(pagesHeld)
      BY <1>2, <1>3, <1>4, <1>5, <3>5
    <3>8. /\ pagePool'.numPagesFree = pagePool'.pageStack.length
          /\ pagePool'.numPagesAlloc
               = pagePool'.numPagesFree + pagePool'.numPagesInUse
      BY <1>3, <1>4, <3>3, <3>5
    <3>9. pagePool'.numPagesAlloc = PagesPerSlab * pagePool'.slabList.length
      BY <3>3, <3>5, Zenon
    <3>10. WellFormed(pagePool'.slabList) /\ pagePool'.numPagesInUse \in Nat
      BY <1>5, <3>2, <3>5, <3>7
    <3>11. PagePoolReady(pagePool')
      BY <3>5, <3>8, <3>9, <3>10, Zenon DEF PagePoolReady
    <3> QED
      BY <3>5, <3>6, <3>7, <3>11
  <2> QED
    BY <2>1, <2>2
<1>7. LentSlabs' = LentSlabs
  BY <1>1, <1>6 DEF LentSlabs
<1>8. /\ memoryPool'.pageStack.length = 0 /\ MemoryTypes(memoryPool')
      /\ MemoryPages' = << >>
  <2> DEFINE stack == Freed(memoryPool.pageStack, 0)
  <2>1. Fits(stack) /\ stack.length = 0
    BY <1>2, FreedIs DEF MemoryPoolReady
  <2> HIDE DEF stack
  <2>2. /\ memoryPool'.pageStack = stack
        /\ memoryPool'.numPageBytesUsed = memoryPool.numPageBytesUsed
        /\ memoryPool'.numPageBytesFree = memoryPool.numPageBytesFree
    BY <1>1, <1>2 DEF MemoryPoolReady, IsMemoryPool, stack
  <2>3. MemoryTypes(memoryPool)
    BY <1>2, ReadyTypes
  <2> QED
    BY <2>1, <2>2, <2>3 DEF MemoryTypes, MemoryPages, Items
<1>9. TypeOK'
  <2>1. PageTypes(pagePool')
    BY <1>6, ReadyTypes
  <2> QED
    BY <1>1, <1>8, <2>1 DEF IInv, TypeOK, SlabTypes, PageTypes, MemoryTypes
<1>10. SlabsOwned'
  BY <1>1, <1>7 DEF IInv, SlabsOwned
<1>11. PagesOwned'
  <2>1. Len(<< >>) = 0
    OBVIOUS
  <2> QED
    BY <1>1, <1>5, <1>6, <1>7, <1>8, <2>1 DEF PagesOwned
<1>12. /\ BlocksBelow' /\ BlocksDisjoint' /\ (blocks \in Seq(Block))'
       /\ SlabsFreedOnce' /\ InOrder'
  <2>1. blocks' = << >> /\ 1 .. Len(blocks') = {} /\ blocks' \in Seq(Block)
    BY <1>1
  <2>2. BlocksBelow' /\ BlocksDisjoint'
    BY <1>1, <1>8, <2>1 DEF BlocksBelow, BlocksDisjoint
  <2> QED
    BY <1>1, <2>1, <2>2 DEF IInv, SlabsFreedOnce, InOrder
<1>13. IsFiniteSet(slabsHeld') /\ IsFiniteSet(pagesHeld')
  BY <1>1 DEF IInv
<1> QED
  BY <1>9, <1>10, <1>11, <1>12, <1>13 DEF IInv

\* The slabs of the page pool are free again, each once (pagepool.c:54-70).
LEMMA DestroyPagePoolKeeps ==
  ASSUME NullIsNoBlock, IInv, destroyPagePool PROVE IInv'
<1>1. /\ destroyed = {"memory"}
      /\ slabPool' = FoldLeft(SlabReleased, slabPool, LentSlabs)
      /\ pagePool' = [pagePool EXCEPT
                        !.pageStack = Freed(pagePool.pageStack,
                                            pagePool.pageStack.length),
                        !.slabList = Freed(pagePool.slabList,
                                           pagePool.slabList.length)]
      /\ destroyed' = {"memory", "page"}
      /\ UNCHANGED <<memoryPool, slabsHeld, pagesHeld, blocks, freed>>
  <2>1. destroyed = {"memory"}
    BY DEF destroyPagePool
  <2>2. LentSlabs = Items(pagePool.slabList)
    BY <2>1 DEF LentSlabs
  <2> QED
    BY <2>2, Zenon DEF destroyPagePool
<1>2. /\ SlabPoolReady(slabPool)
      /\ Owned(Items(slabPool.slabStack), LentSlabs, slabsHeld,
               1 .. slabPool.numSlabsAlloc)
      /\ slabPool.numSlabsInUse = Cardinality(slabsHeld) + Len(LentSlabs)
      /\ freed = << >> /\ IsFiniteSet(slabsHeld) /\ slabsHeld \subseteq Slab
      /\ PagePoolReady(pagePool)
  BY <1>1 DEF IInv, SlabsOwned, PagesOwned, TypeOK
<1>3. LentSlabs \in Seq(1 .. slabPool.numSlabsAlloc) /\ Distinct(LentSlabs)
      /\ Len(LentSlabs) \in Nat
  BY <1>2 DEF Owned
<1>4. Cardinality(slabsHeld) \in Nat
  BY <1>2, FS_CardinalityType
<1>5. /\ SlabPoolReady(slabPool')
      /\ Owned(Items(slabPool'.slabStack), << >>, slabsHeld,
               1 .. slabPool'.numSlabsAlloc)
      /\ slabPool'.numSlabsInUse = Cardinality(slabsHeld)
  <2>1. CASE Len(LentSlabs) = 0
    <3>1. LentSlabs = << >>
      BY <1>3, <2>1
    <3>2. slabPool' = slabPool
      BY <1>1, <3>1, ReleaseNone, Zenon
    <3> QED
      BY <1>2, <1>4, <2>1, <3>1, <3>2
  <2>2. CASE Len(LentSlabs) # 0
    <3>1. slabPool.numSlabsAlloc # 0
      <4> DEFINE s == LentSlabs
                 all == 1 .. slabPool.numSlabsAlloc
      <4>1. s \in Seq(all) /\ Len(s) # 0
        BY <1>3, <2>2
      <4> HIDE DEF s, all
      <4>2. s[1] \in all
        BY <4>1
      <4>3. 1 .. 0 = {}
        OBVIOUS
      <4> QED
        BY <4>2, <4>3 DEF all
    <3>2. /\ IsSlabPool(slabPool) /\ WellFormed(slabPool.slabStack)
          /\ slabPool.numSlabsAlloc \in 0 .. MaxSlabs
          /\ slabPool.numSlabsFree = slabPool.slabStack.length
          /\ slabPool.slabStack.length \in Nat
          /\ slabPool.numSlabsAlloc = slabPool.numSlabsFree + slabPool.numSlabsInUse
          /\ slabPool.numSlabsInUse \in Nat
      BY <1>2, <3>1 DEF SlabPoolReady, WellFormed
    <3>3. SlabsBack(slabPool, slabPool', LentSlabs)
      <4>1. slabPool.numSlabsFree \in Int /\ slabPool.numSlabsInUse \in Int
        BY <3>2
      <4> QED
        BY <1>1, <1>3, <3>2, <4>1, ReleaseSlabs, Zenon
    <3>4. /\ IsSlabPool(slabPool') /\ WellFormed(slabPool'.slabStack)
          /\ slabPool'.slabStack.length = slabPool.slabStack.length + Len(LentSlabs)
          /\ Items(slabPool'.slabStack) = Items(slabPool.slabStack) \o LentSlabs
          /\ slabPool'.numSlabsAlloc = slabPool.numSlabsAlloc
          /\ slabPool'.numSlabsFree = slabPool.numSlabsFree + Len(LentSlabs)
          /\ slabPool'.numSlabsInUse = slabPool.numSlabsInUse - Len(LentSlabs)
      BY <3>3, Zenon DEF SlabsBack, ExtendedBy
    <3>5. Owned(Items(slabPool.slabStack) \o LentSlabs, << >>, slabsHeld,
                1 .. slabPool.numSlabsAlloc)
      <4> DEFINE all == 1 .. slabPool.numSlabsAlloc
                 s == LentSlabs
      <4>1. /\ Owned(Items(slabPool.slabStack), s, slabsHeld, all)
            /\ s \in Seq(all) /\ Distinct(s)
        BY <1>2, <1>3
      <4> HIDE DEF all, s
      <4>2. Owned(Items(slabPool.slabStack) \o s, << >>, slabsHeld, all)
        BY <4>1, OwnedReturn
      <4> QED
        BY <4>2 DEF all, s
    <3>6. slabPool'.numSlabsInUse = Cardinality(slabsHeld)
      BY <1>2, <1>3, <1>4, <3>4
    <3>7. /\ slabPool'.numSlabsFree = slabPool'.slabStack.length
          /\ slabPool'.numSlabsAlloc
               = slabPool'.numSlabsFree + slabPool'.numSlabsInUse
      BY <1>3, <3>2, <3>4
    <3>8. SlabPoolReady(slabPool')
      BY <1>4, <3>1, <3>2, <3>4, <3>6, <3>7 DEF SlabPoolReady
    <3> QED
      BY <3>4, <3>5, <3>6, <3>8
  <2> QED
    BY <2>1, <2>2
<1>6. LentSlabs' = << >>
  BY <1>1 DEF LentSlabs
<1>7. PageTypes(pagePool')
  <2> DEFINE stack == Freed(pagePool.pageStack, pagePool.pageStack.length)
             list == Freed(pagePool.slabList, pagePool.slabList.length)
  <2>1. Fits(stack) /\ Fits(list)
    BY <1>2, FreedIs DEF PagePoolReady
  <2> HIDE DEF stack, list
  <2>2. /\ pagePool'.pageStack = stack /\ pagePool'.slabList = list
        /\ pagePool'.numPagesAlloc = pagePool.numPagesAlloc
        /\ pagePool'.numPagesFree = pagePool.numPagesFree
        /\ pagePool'.numPagesInUse = pagePool.numPagesInUse
    BY <1>1, <1>2 DEF PagePoolReady, IsPagePool, stack, list
  <2>3. PageTypes(pagePool)
    BY <1>2, ReadyTypes
  <2> QED
    BY <2>1, <2>2, <2>3 DEF PageTypes
<1>8. TypeOK'
  <2>1. SlabTypes(slabPool')
    BY <1>5, ReadyTypes
  <2> QED
    BY <1>1, <1>7, <2>1 DEF IInv, TypeOK, SlabTypes, PageTypes, MemoryTypes
<1>9. SlabsOwned'
  <2>1. Len(<< >>) = 0
    OBVIOUS
  <2> QED
    BY <1>1, <1>2, <1>4, <1>5, <1>6, <2>1 DEF SlabsOwned
<1>10. PagesOwned'
  BY <1>1 DEF PagesOwned
<1>11. /\ BlocksBelow' /\ BlocksDisjoint' /\ (blocks \in Seq(Block))'
       /\ SlabsFreedOnce' /\ InOrder'
  BY <1>1 DEF IInv, BlocksBelow, BlocksDisjoint, SlabsFreedOnce, InOrder,
              MemoryPages
<1>12. IsFiniteSet(slabsHeld') /\ IsFiniteSet(pagesHeld')
  BY <1>1 DEF IInv
<1> QED
  BY <1>8, <1>9, <1>10, <1>11, <1>12 DEF IInv

\* Every slab the program does not hold is in the stack, once, and is freed
\* (slabpool.c:55-67).
LEMMA DestroySlabPoolKeeps ==
  ASSUME NullIsNoBlock, IInv, destroySlabPool PROVE IInv'
<1> DEFINE stack == Items(slabPool.slabStack)
           all == 1 .. slabPool.numSlabsAlloc
<1>1. /\ destroyed = {"memory", "page"}
      /\ freed' = freed \o Reverse(stack)
      /\ slabPool' = [slabPool EXCEPT !.slabStack = Freed(slabPool.slabStack, 0)]
      /\ destroyed' = {"memory", "page", "slab"}
      /\ UNCHANGED <<pagePool, memoryPool, slabsHeld, pagesHeld, blocks>>
  BY Zenon DEF destroySlabPool
<1>2. /\ SlabPoolReady(slabPool) /\ Owned(stack, << >>, slabsHeld, all)
      /\ freed = << >>
  <2>1. LentSlabs = << >>
    BY <1>1 DEF LentSlabs
  <2> QED
    BY <1>1, <2>1 DEF IInv, SlabsOwned
<1>3. \A x \in all : x \in Slab
  BY <1>2, PoolsAssumption DEF SlabPoolReady, Slab
<1> HIDE DEF stack, all
<1>4. /\ stack \in Seq(all) /\ Distinct(stack)
      /\ \A i \in 1 .. Len(stack) : stack[i] \notin slabsHeld
      /\ \A x \in all : x \in slabsHeld \/ \E i \in 1 .. Len(stack) : x = stack[i]
  <2>1. 1 .. Len(<< >>) = {}
    OBVIOUS
  <2> QED
    BY <1>2, <2>1 DEF Owned
<1>5. /\ Reverse(stack) \in Seq(all) /\ Len(Reverse(stack)) = Len(stack)
      /\ Distinct(Reverse(stack))
      /\ \A i \in 1 .. Len(stack) : \E j \in 1 .. Len(stack) :
           Reverse(stack)[i] = stack[j]
      /\ \A j \in 1 .. Len(stack) : \E i \in 1 .. Len(stack) :
           Reverse(stack)[i] = stack[j]
  BY <1>4, ReverseIs
<1> DEFINE back == Reverse(stack)
<1>6. /\ back \in Seq(all) /\ Len(back) = Len(stack) /\ Distinct(back)
      /\ \A i \in 1 .. Len(back) : \E j \in 1 .. Len(stack) : back[i] = stack[j]
      /\ \A j \in 1 .. Len(stack) : \E i \in 1 .. Len(back) : back[i] = stack[j]
  BY <1>5
<1> HIDE DEF back
<1>7. freed' = back
  <2>1. freed' = << >> \o back
    BY <1>1, <1>2 DEF back
  <2>2. << >> \o back = back
    BY <1>6
  <2> QED
    BY <2>1, <2>2, Zenon
<1>8. slabPool'.numSlabsAlloc = slabPool.numSlabsAlloc /\ SlabTypes(slabPool')
  <2> DEFINE empty == Freed(slabPool.slabStack, 0)
  <2>1. Fits(empty)
    BY <1>2, FreedIs DEF SlabPoolReady
  <2> HIDE DEF empty
  <2>2. /\ slabPool'.slabStack = empty
        /\ slabPool'.numSlabsAlloc = slabPool.numSlabsAlloc
        /\ slabPool'.numSlabsFree = slabPool.numSlabsFree
        /\ slabPool'.numSlabsInUse = slabPool.numSlabsInUse
    BY <1>1, <1>2 DEF SlabPoolReady, IsSlabPool, empty
  <2>3. SlabTypes(slabPool)
    BY <1>2, ReadyTypes
  <2> QED
    BY <2>1, <2>2, <2>3 DEF SlabTypes
<1>9. back \in Seq(Slab)
  BY <1>3, <1>6
<1>10. IsInjective(back)
  BY <1>6 DEF Distinct, IsInjective
<1>11. ToSet(back) = all \ slabsHeld
  <2>1. ASSUME NEW x \in ToSet(back) PROVE x \in all \ slabsHeld
    <3>1. PICK i \in 1 .. Len(back) : x = back[i]
      BY <1>6 DEF ToSet
    <3>2. PICK j \in 1 .. Len(stack) : x = stack[j]
      BY <1>6, <3>1
    <3>3. stack[j] \in all
      BY <1>4
    <3> QED
      BY <1>4, <3>2, <3>3
  <2>2. ASSUME NEW x \in all \ slabsHeld PROVE x \in ToSet(back)
    <3>1. PICK j \in 1 .. Len(stack) : x = stack[j]
      BY <1>4, <2>2
    <3>2. PICK i \in 1 .. Len(back) : back[i] = stack[j]
      BY <1>6
    <3>3. DOMAIN back = 1 .. Len(back)
      BY <1>6
    <3> QED
      BY <3>1, <3>2, <3>3 DEF ToSet
  <2> QED
    BY <2>1, <2>2
<1>12. SlabsFreedOnce'
  BY <1>1, <1>7, <1>8, <1>10, <1>11 DEF SlabsFreedOnce, all
<1>13. TypeOK'
  BY <1>1, <1>7, <1>8, <1>9 DEF IInv, TypeOK, SlabTypes, PageTypes, MemoryTypes
<1>14. SlabsOwned' /\ PagesOwned'
  BY <1>1 DEF SlabsOwned, PagesOwned
<1>15. BlocksBelow' /\ BlocksDisjoint' /\ (blocks \in Seq(Block))' /\ InOrder'
  BY <1>1 DEF IInv, BlocksBelow, BlocksDisjoint, InOrder, MemoryPages
<1>16. IsFiniteSet(slabsHeld') /\ IsFiniteSet(pagesHeld')
  BY <1>1 DEF IInv
<1> QED
  BY <1>12, <1>13, <1>14, <1>15, <1>16 DEF IInv

-------------------------------------------------------------------------------
(* The theorems.                                                           *)

\* The pools start in order: nothing is allocated.
LEMMA InitKeeps == Init => IInv
<1> SUFFICES ASSUME Init PROVE IInv
  OBVIOUS
<1>0. /\ 1 .. Len(<< >>) = {} /\ Len(<< >>) = 0 /\ \A S : << >> \in Seq(S)
      /\ DOMAIN << >> = {}
  OBVIOUS
<1>1. /\ slabPool = [slabStack |-> NoArray, numSlabsAlloc |-> 0,
                     numSlabsFree |-> 0, numSlabsInUse |-> 0]
      /\ pagePool = [pageStack |-> NoArray, slabList |-> NoArray,
                     numPagesAlloc |-> 0, numPagesFree |-> 0, numPagesInUse |-> 0]
      /\ memoryPool = [pageStack |-> NoArray, numPageBytesUsed |-> 0,
                       numPageBytesFree |-> 0]
      /\ slabsHeld = {} /\ pagesHeld = {} /\ blocks = << >>
      /\ freed = << >> /\ destroyed = {}
  BY DEF Init
<1>2. LentSlabs = << >> /\ MemoryPages = << >>
  BY <1>1, NoArrayIsEmpty DEF LentSlabs, MemoryPages
<1>3. /\ SlabPoolReady(slabPool) /\ PagePoolReady(pagePool)
      /\ MemoryPoolReady(memoryPool)
  <2>1. NoArray.length = 0 /\ PagesPerSlab * 0 = 0 /\ 0 \in 0 .. MaxSlabs
    BY NoArrayIsEmpty, PoolsAssumption
  <2>2. SlabPoolReady(slabPool)
    BY <1>1, <2>1 DEF SlabPoolReady, IsSlabPool
  <2>3. PagePoolReady(pagePool)
    BY <1>1, <2>1 DEF PagePoolReady, IsPagePool
  <2>4. MemoryPoolReady(memoryPool)
    BY <1>1, <2>1 DEF MemoryPoolReady, IsMemoryPool
  <2> QED
    BY <2>2, <2>3, <2>4
<1>4. Owned(<< >>, << >>, {}, {})
  BY <1>0 DEF Owned, Distinct, Apart
<1>5. SlabsOwned
  <2>1. 1 .. slabPool.numSlabsAlloc = {} /\ slabPool.numSlabsInUse = 0
        /\ Items(slabPool.slabStack) = << >>
    BY <1>1, NoArrayIsEmpty
  <2>2. Cardinality({}) + Len(<< >>) = 0
    BY <1>0, FS_EmptySet
  <2>3. Owned(Items(slabPool.slabStack), LentSlabs, slabsHeld,
              1 .. slabPool.numSlabsAlloc)
    BY <1>1, <1>2, <1>4, <2>1
  <2>4. slabPool.numSlabsInUse = Cardinality(slabsHeld) + Len(LentSlabs)
    BY <1>1, <1>2, <2>1, <2>2
  <2> QED
    BY <1>1, <1>3, <2>3, <2>4 DEF SlabsOwned
<1>6. PagesOwned
  <2>1. PagesFrom(<< >>) = {} /\ pagePool.numPagesInUse = 0
        /\ Items(pagePool.pageStack) = << >>
    BY <1>0, <1>1, NoArrayIsEmpty DEF PagesFrom
  <2>2. Cardinality({}) + Len(<< >>) = 0
    BY <1>0, FS_EmptySet
  <2>3. Owned(Items(pagePool.pageStack), MemoryPages, pagesHeld,
              PagesFrom(LentSlabs))
    BY <1>1, <1>2, <1>4, <2>1
  <2>4. pagePool.numPagesInUse = Cardinality(pagesHeld) + Len(MemoryPages)
    BY <1>1, <1>2, <2>1, <2>2
  <2> QED
    BY <1>1, <1>3, <2>3, <2>4 DEF PagesOwned
<1>7. TypeOK
  <2>1. SlabTypes(slabPool) /\ PageTypes(pagePool) /\ MemoryTypes(memoryPool)
    BY <1>3, ReadyTypes
  <2> QED
    BY <1>0, <1>1, <2>1, TypeOKIs
<1>8. BlocksBelow /\ BlocksDisjoint
  BY <1>0, <1>1, <1>3 DEF BlocksBelow, BlocksDisjoint
<1>9. SlabsFreedOnce /\ InOrder
  BY <1>0, <1>1 DEF SlabsFreedOnce, InOrder, IsInjective
<1>10. IsFiniteSet(slabsHeld) /\ IsFiniteSet(pagesHeld) /\ blocks \in Seq(Block)
  BY <1>0, <1>1, FS_EmptySet
<1> QED
  BY <1>5, <1>6, <1>7, <1>8, <1>9, <1>10 DEF IInv

\* Every step of the pools and of the program keeps the invariant.
LEMMA NextKeeps ==
  ASSUME NullIsNoBlock, IInv, [Next]_vars PROVE IInv'
<1>1. CASE UNCHANGED vars
  BY <1>1 DEF vars, IInv, TypeOK, InOrder, SlabsOwned, PagesOwned, BlocksBelow,
              BlocksDisjoint, SlabsFreedOnce, LentSlabs, MemoryPages
<1>2. CASE acquireSlab
  BY <1>2, AcquireSlabKeeps
<1>3. CASE \E slab \in Slab : releaseSlab(slab)
  BY <1>3, ReleaseSlabKeeps
<1>4. CASE acquirePage
  BY <1>4, AcquirePageKeeps
<1>5. CASE \E page \in Page : releasePage(page)
  BY <1>5, ReleasePageKeeps
<1>6. CASE \E size \in Sizes : acquireMemory(size)
  BY <1>6, AcquireMemoryKeeps
<1>7. CASE destroyMemoryPool
  BY <1>7, DestroyMemoryPoolKeeps
<1>8. CASE destroyPagePool
  BY <1>8, DestroyPagePoolKeeps
<1>9. CASE destroySlabPool
  BY <1>9, DestroySlabPoolKeeps
<1> QED
  BY <1>1, <1>2, <1>3, <1>4, <1>5, <1>6, <1>7, <1>8, <1>9 DEF Next

\* The invariant holds in every state the pools reach.
LEMMA IInvHolds ==
  ASSUME NullIsNoBlock PROVE Spec => []IInv
<1>1. Init => IInv
  BY InitKeeps
<1>2. IInv /\ [Next]_vars => IInv'
  BY NextKeeps
<1> QED
  BY <1>1, <1>2, PTL DEF Spec

\* Two parts that are distinct and apart have no element twice.
LEMMA DistinctParts ==
  ASSUME NEW S, NEW s \in Seq(S), NEW t \in Seq(S), Distinct(s), Distinct(t),
         Apart(s, t)
  PROVE  /\ IsInjective(s \o t)
         /\ \A x : x \in ToSet(s \o t) <=>
              \/ \E i \in 1 .. Len(s) : x = s[i]
              \/ \E i \in 1 .. Len(t) : x = t[i]
<1> DEFINE u == s \o t
<1>1. /\ u \in Seq(S)
      /\ \A i \in 1 .. Len(s) : i \in 1 .. Len(u) /\ u[i] = s[i]
      /\ \A i \in 1 .. Len(t) : Len(s) + i \in 1 .. Len(u) /\ u[Len(s) + i] = t[i]
      /\ \A i \in 1 .. Len(u) :
           \/ i \in 1 .. Len(s) /\ u[i] = s[i]
           \/ i - Len(s) \in 1 .. Len(t) /\ u[i] = t[i - Len(s)]
      /\ Len(s) \in Nat
  BY ConcatIs
<1> HIDE DEF u
<1>2. DOMAIN u = 1 .. Len(u)
  BY <1>1
<1>3. IsInjective(u)
  <2> SUFFICES ASSUME NEW i \in 1 .. Len(u), NEW j \in 1 .. Len(u), u[i] = u[j]
               PROVE  i = j
    BY <1>2 DEF IsInjective
  <2>1. CASE i \in 1 .. Len(s) /\ j \in 1 .. Len(s)
    BY <1>1, <2>1 DEF Distinct
  <2>2. CASE ~(i \in 1 .. Len(s)) /\ ~(j \in 1 .. Len(s))
    <3>1. /\ i - Len(s) \in 1 .. Len(t) /\ u[i] = t[i - Len(s)]
          /\ j - Len(s) \in 1 .. Len(t) /\ u[j] = t[j - Len(s)]
      BY <1>1, <2>2
    <3>2. i - Len(s) = j - Len(s)
      BY <3>1 DEF Distinct
    <3> QED
      BY <1>1, <3>2
  <2>3. CASE i \in 1 .. Len(s) /\ ~(j \in 1 .. Len(s))
    BY <1>1, <2>3 DEF Apart
  <2>4. CASE ~(i \in 1 .. Len(s)) /\ j \in 1 .. Len(s)
    BY <1>1, <2>4 DEF Apart
  <2> QED
    BY <2>1, <2>2, <2>3, <2>4
<1>4. ASSUME NEW x \in ToSet(u)
      PROVE  \/ \E i \in 1 .. Len(s) : x = s[i]
             \/ \E i \in 1 .. Len(t) : x = t[i]
  <2>1. PICK i \in 1 .. Len(u) : x = u[i]
    BY <1>2 DEF ToSet
  <2> QED
    BY <1>1, <2>1
<1>5. ASSUME NEW x, \/ \E i \in 1 .. Len(s) : x = s[i]
                    \/ \E i \in 1 .. Len(t) : x = t[i]
      PROVE  x \in ToSet(u)
  <2>1. \E i \in 1 .. Len(u) : x = u[i]
    BY <1>1, <1>5
  <2> QED
    BY <1>2, <2>1 DEF ToSet
<1> QED
  BY <1>3, <1>4, <1>5 DEF u

\* Owners: nothing free or lent twice, nothing of it with the program, and
\* nothing else.
LEMMA OwnedIs ==
  ASSUME NEW free, NEW lent, NEW held, NEW all, Owned(free, lent, held, all)
  PROVE  /\ IsInjective(free \o lent)
         /\ ToSet(free \o lent) \intersect held = {}
         /\ ToSet(free \o lent) \union held = all
<1>1. /\ free \in Seq(all) /\ lent \in Seq(all) /\ held \subseteq all
      /\ Distinct(free) /\ Distinct(lent) /\ Apart(free, lent)
      /\ \A i \in 1 .. Len(free) : free[i] \notin held /\ free[i] \in all
      /\ \A i \in 1 .. Len(lent) : lent[i] \notin held /\ lent[i] \in all
      /\ \A x \in all : \/ x \in held
                        \/ \E i \in 1 .. Len(free) : x = free[i]
                        \/ \E i \in 1 .. Len(lent) : x = lent[i]
  BY DEF Owned
<1> DEFINE u == free \o lent
<1>2. /\ IsInjective(u)
      /\ \A x : x \in ToSet(u) <=>
           \/ \E i \in 1 .. Len(free) : x = free[i]
           \/ \E i \in 1 .. Len(lent) : x = lent[i]
  BY <1>1, DistinctParts
<1> HIDE DEF u
<1>3. ToSet(u) \intersect held = {}
  BY <1>1, <1>2
<1>4. ToSet(u) \union held = all
  BY <1>1, <1>2
<1> QED
  BY <1>2, <1>3, <1>4 DEF u

\* The invariant says of the owners and the counters what the run checks.
LEMMA IInvAccounts ==
  ASSUME IInv PROVE MemoryAccounted
<1>1. CountersMatchStacks
  BY Zenon DEF IInv, SlabsOwned, PagesOwned, SlabPoolReady, PagePoolReady,
               CountersMatchStacks
<1>2. OwnedOnce
  <2> SUFFICES ASSUME "page" \notin destroyed PROVE OwnedOnce
    BY DEF OwnedOnce
  <2> DEFINE list == Items(pagePool.slabList)
             slabs == Items(slabPool.slabStack) \o list
             pages == Items(pagePool.pageStack) \o MemoryPages
  <2>1. "slab" \notin destroyed
    BY OrderIs DEF IInv
  <2>2. LentSlabs = list
    BY DEF LentSlabs
  <2>3. /\ Owned(Items(slabPool.slabStack), list, slabsHeld,
                 1 .. slabPool.numSlabsAlloc)
        /\ Owned(Items(pagePool.pageStack), MemoryPages, pagesHeld,
                 PagesFrom(list))
    BY <2>1, <2>2 DEF IInv, SlabsOwned, PagesOwned
  <2>4. PagesFrom(list) = ToSet(list) \X (0 .. PagesPerSlab - 1)
    <3>1. list \in Seq(1 .. slabPool.numSlabsAlloc)
      BY <2>3 DEF Owned
    <3> HIDE DEF list
    <3>2. DOMAIN list = 1 .. Len(list)
      BY <3>1
    <3> QED
      BY <3>2 DEF PagesFrom, ToSet
  <2>5. /\ IsInjective(slabs) /\ ToSet(slabs) \intersect slabsHeld = {}
        /\ ToSet(slabs) \union slabsHeld = 1 .. slabPool.numSlabsAlloc
    <3> DEFINE all == 1 .. slabPool.numSlabsAlloc
    <3>1. Owned(Items(slabPool.slabStack), list, slabsHeld, all)
      BY <2>3
    <3> HIDE DEF all, list
    <3>2. /\ IsInjective(slabs) /\ ToSet(slabs) \intersect slabsHeld = {}
          /\ ToSet(slabs) \union slabsHeld = all
      BY <3>1, OwnedIs
    <3> QED
      BY <3>2 DEF all
  <2>6. /\ IsInjective(pages) /\ ToSet(pages) \intersect pagesHeld = {}
        /\ ToSet(pages) \union pagesHeld = PagesFrom(list)
    BY <2>3, OwnedIs
  <2> HIDE DEF slabs, pages, list
  <2> QED
    BY <2>4, <2>5, <2>6, Zenon DEF OwnedOnce, slabs, pages, list
<1> QED
  BY <1>1, <1>2 DEF IInv, MemoryAccounted

\* The pools and their callers agree on who has what, whatever they acquire and
\* release: every slab and every page has one owner, the counters the pools look
\* at say what their stacks hold, and no two blocks overlap, over every growth of
\* the arrays (memorypool.c:72-114, pagepool.c:74-118, slabpool.c:71-113).
THEOREM MemoryAccountedTheorem ==
  ASSUME NullIsNoBlock PROVE Spec => []MemoryAccounted
<1>1. Spec => []IInv
  BY IInvHolds
<1>2. IInv => MemoryAccounted
  BY IInvAccounts
<1> QED
  BY <1>1, <1>2, PTL

\* When the pools are destroyed top down every slab that is not with the program
\* is given back to malloc, and none twice
\* (memorypool.c:67, pagepool.c:69, slabpool.c:66).
THEOREM SlabsFreedOnceTheorem ==
  ASSUME NullIsNoBlock PROVE Spec => []SlabsFreedOnce
<1>1. Spec => []IInv
  BY IInvHolds
<1>2. IInv => SlabsFreedOnce
  BY DEF IInv
<1> QED
  BY <1>1, <1>2, PTL
===============================================================================
