------------------------------- MODULE MCInflate -------------------------------
(* Streams for Inflate, made by an encoder that shares no algorithm with it:   *)
(* a byte has 2 bits, a word 6 bytes and a page 16 bits.                       *)
EXTENDS Inflate

MCCountBits == [lit |-> 2, dist |-> 2, codelen |-> 2]
MCMinCount == [lit |-> 3, dist |-> 1, codelen |-> 5]
MCMaxCount == [lit |-> 6, dist |-> 3, codelen |-> 8]
MCcodelenLengthsOrder == <<5, 6, 7, 0, 2, 1, 3, 4>>
MCRepeat == (5 :> [extraBits |-> 1, min |-> 2])
         @@ (6 :> [extraBits |-> 1, min |-> 2])
         @@ (7 :> [extraBits |-> 2, min |-> 3])
MClitlen_tbl == (3 :> [base |-> 2, extraBits |-> 0]) @@ (4 :> [base |-> 3, extraBits |-> 1])
MCdist_tbl == (0 :> [base |-> 1, extraBits |-> 0]) @@ (1 :> [base |-> 2, extraBits |-> 1])

\* n bits of a number, the least significant first.
Lsb(number, n) == [k \in 1 .. n |-> (number \div 2 ^ (k - 1)) % 2]

\* A token is a symbol with its extra bits.
Sym(s) == [sym |-> s, extra |-> << >>]
With(s, extra) == [sym |-> s, extra |-> extra]
Coded(lengths, t) == CanonicalCode(lengths, t.sym) \o t.extra
Concat(seqs) == FoldLeft(LAMBDA a, b : a \o b, << >>, seqs)

\* Plans: the codelen code, the tokens of the lengths, how many of them are of
\* the litlen code, and how many lengths that is.
CodeA == <<3, 2, 2, 3, 0, 3, 4, 4>>
CodeB == <<2, 3, 3, 3, 4, 0, 4, 0>>
Plans == {
    [code |-> CodeA, lens |-> <<Sym(1), Sym(3), Sym(2), Sym(3), Sym(1), Sym(1)>>,
     lit |-> 4, dist |-> 2],
    [code |-> CodeB, lens |-> <<Sym(2), Sym(2), Sym(2), Sym(3), Sym(4), Sym(4), Sym(1), Sym(2)>>,
     lit |-> 6, dist |-> 2],
    [code |-> CodeA, lens |-> <<Sym(2), With(5, <<0>>), Sym(3), With(6, <<0>>), Sym(1), Sym(2)>>,
     lit |-> 5, dist |-> 3],
    [code |-> CodeA, lens |-> <<Sym(1), Sym(0), Sym(1), With(7, <<1, 0>>)>>,
     lit |-> 5, dist |-> 2]}

\* A code with four words of a length that is counted with two bits.
Uncountable ==
    [code |-> CodeB, lens |-> <<Sym(2), Sym(3), Sym(3), Sym(3), Sym(3), Sym(1)>>,
     lit |-> 5, dist |-> 1]

Expanded(plan) ==
    FoldLeft(LAMBDA out, t :
               IF t.sym <= CODELEN_MAX_LIT THEN Append(out, t.sym)
               ELSE out \o [k \in 1 .. Repeat[t.sym].min + Number(t.extra) |->
                              IF t.sym = CODELEN_COPY THEN out[Len(out)] ELSE 0],
             << >>, plan.lens)

LitLengths(plan) == SubSeq(Expanded(plan), 1, plan.lit)
DistLengths(plan) == SubSeq(Expanded(plan), plan.lit + 1, plan.lit + plan.dist)

Header(plan, final) ==
    LET read == [i \in 1 .. MaxCount.codelen |-> plan.code[codelenLengthsOrder[i] + 1]]
        used == Max({i \in DOMAIN read : read[i] # 0} \cup {MinCount.codelen})
    IN <<final, 0, 1>>
       \o Lsb(plan.lit - MinCount.lit, CountBits.lit)
       \o Lsb(plan.dist - MinCount.dist, CountBits.dist)
       \o Lsb(used - MinCount.codelen, CountBits.codelen)
       \o Concat([i \in 1 .. used |-> Lsb(read[i], CodelenLenBits)])
       \o Concat([i \in DOMAIN plan.lens |-> Coded(plan.code, plan.lens[i])])

\* Items of a block: a literal, or a reference with its two tokens.
Lit(s) == [lit |-> Sym(s), dist |-> Sym(0)]
Ref(lit, dist) == [lit |-> lit, dist |-> dist]
IsRef(item) == item.lit.sym > LITLEN_EOB
Items == {Lit(0), Lit(1), Ref(Sym(3), Sym(0)), Ref(Sym(3), With(1, <<0>>)),
          Ref(With(4, <<1>>), With(1, <<1>>)), Ref(With(4, <<0>>), Sym(0))}

InCode(lengths, s) == s < Len(lengths) /\ LengthOf(lengths, s) # 0
Encodable(plan, item) ==
    /\ InCode(LitLengths(plan), item.lit.sym)
    /\ IsRef(item) => InCode(DistLengths(plan), item.dist.sym)

Bits(plan, item) ==
    Coded(LitLengths(plan), item.lit)
      \o IF IsRef(item) THEN Coded(DistLengths(plan), item.dist) ELSE << >>

\* What the items stand for, up to the first that cannot be.
NumberOf(t, table) == table[t.sym].base + Number(t.extra)
Meaning(items) ==
    LET Add(r, item) ==
          LET n == IF IsRef(item) THEN NumberOf(item.lit, litlen_tbl) ELSE 1
              d == IF IsRef(item) THEN NumberOf(item.dist, dist_tbl) ELSE 0
              output == r.output IN
          IF ~r.whole \/ d > Len(output) \/ Len(output) + n > INFLATE_OUTPUT_LENGTH
          THEN [r EXCEPT !.whole = FALSE]
          ELSE [r EXCEPT !.output =
                  output \o [k \in 1 .. n |->
                    IF d = 0 THEN item.lit.sym
                    ELSE output[Len(output) - d + 1 + ((k - 1) % d)]]]
    IN FoldLeft(Add, [output |-> << >>, whole |-> TRUE], items)

\* A block, and a stream in memory from a byte of the first page.
Block(plan, items, final) ==
    Header(plan, final) \o Concat([i \in DOMAIN items |-> Bits(plan, items[i])])
      \o CanonicalCode(LitLengths(plan), LITLEN_EOB)

Stored(bits, meaning, representable, dataOffset, cut, after) ==
    LET bytes == (Len(bits) + ByteBits - 1) \div ByteBits
        all == [k \in 1 .. bytes * ByteBits |-> IF k <= Len(bits) THEN bits[k] ELSE after]
        start == dataOffset * ByteBits
        pages == (start + Len(all) + PageBits - 1) \div PageBits
        bit(i) == IF i \in start + 1 .. start + Len(all) THEN all[i - start] ELSE after
    IN [chain |-> [pages |-> [p \in 1 .. pages |->
                               [k \in 1 .. PageBits |-> bit((p - 1) * PageBits + k)]],
                   after |-> after],
        dataOffset |-> dataOffset,
        compressSize |-> bytes - cut,
        stream |-> SubSeq(all, 1, (bytes - cut) * ByteBits),
        output |-> meaning.output,
        whole |-> meaning.whole /\ cut = 0,
        representable |-> representable]

Starts == {<<Lit(0)>>, <<Lit(1), Lit(0)>>, <<Lit(0), Lit(0), Lit(1)>>}
ItemSeqs(plan) ==
    {items \in {s \o <<a, b>> : s \in Starts, a \in Items, b \in Items} \cup {<< >>, <<Ref(Sym(3), Sym(0))>>} :
       \A i \in DOMAIN items : Encodable(plan, items[i])}

OneBlock ==
    {Stored(Block(plan, items, 1), Meaning(items), TRUE, dataOffset, 0, 1) :
       <<plan, items, dataOffset>> \in
         UNION {{plan} \X ItemSeqs(plan) \X {0, 3} : plan \in Plans}}

\* A few streams at every place of a page, cut at every byte.
APlan == CHOOSE plan \in Plans : plan.lit = 4
Few == {<<Lit(0), Ref(With(3, << >>), Sym(0)), Lit(1)>>,
        <<Lit(1), Lit(0), Ref(Sym(3), With(1, <<0>>))>>}
Placed ==
    {Stored(Block(APlan, items, 1), Meaning(items), TRUE, dataOffset, cut, after) :
       items \in Few, dataOffset \in 0 .. 7, cut \in {0, 1, 2, 3, 5, 9, 14, 20}, after \in {0, 1}}

\* Two blocks, the second of them absent, stored, invalid, or one that refers to
\* the output of the first.
Second(plan) ==
    {Block(plan, <<Ref(Sym(3), Sym(0))>>, 1), << >>, <<1, 0, 0>>, <<1, 1, 0>>, <<1, 1, 1>>}
Several ==
    {LET whole == Len(second) > 3
         items == <<Lit(0), Lit(1)>> \o IF whole THEN <<Ref(Sym(3), Sym(0))>> ELSE << >>
     IN Stored(Block(APlan, <<Lit(0), Lit(1)>>, 0) \o second,
               [Meaning(items) EXCEPT !.whole = whole],
               second \notin {<<1, 0, 0>>, <<1, 1, 0>>}, dataOffset, 0, 1) :
       second \in Second(APlan), dataOffset \in 0 .. 3}

\* Headers that announce too many lengths or no code for what follows, symbols
\* without a meaning, and a code whose words cannot be counted.
ManySymbols == CHOOSE plan \in Plans : plan.lit = 6
ThreeDistances == CHOOSE plan \in Plans : plan.dist = 3
None == [output |-> << >>, whole |-> FALSE]
Bad ==
    {Stored(bits, None, TRUE, 0, 0, 0) :
       bits \in {<<1, 0, 1>> \o Lsb(0, 2) \o Lsb(3, 2) \o Lsb(0, 2),
                 <<1, 0, 1, 0, 0, 0, 0, 0, 0>> \o [k \in 1 .. 30 |-> 0],
                 Header(ManySymbols, 1) \o CanonicalCode(LitLengths(ManySymbols), 5),
                 Header(ThreeDistances, 1)
                   \o CanonicalCode(LitLengths(ThreeDistances), 3)
                   \o CanonicalCode(DistLengths(ThreeDistances), 2)}}
    \cup {Stored(Header(Uncountable, 1)
                   \o Concat([i \in 1 .. 3 |-> CanonicalCode(LitLengths(Uncountable), 3)]),
                 None, FALSE, 0, 0, 0)}

MCInputs == OneBlock \cup Placed \cup Several \cup Bad
===============================================================================
