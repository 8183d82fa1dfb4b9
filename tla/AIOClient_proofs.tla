--------------------------- MODULE AIOClient_proofs ---------------------------
(***************************************************************************)
(* Proofs, for every size of the queue and of a ticket, every number of    *)
(* AIORequests and every combination of faults, that a program with one    *)
(* AIOFile on its context never has an AIORequest in two places, that the  *)
(* pool counts what it handed out, and that a ticket is cleaned up only    *)
(* when the kernel is done with its requests.                              *)
(***************************************************************************)
EXTENDS AIOClient, SequenceTheorems, TLAPS

\* Nothing in the code keeps the files of a context apart.
OneFile == \E f : File = {f}

\* io_submit takes its whole list.
AllTaken == Faults \cap {"submitError", "shortSubmit"} = {}

Distinct(s) == \A i, j \in 1 .. Len(s) : s[i] = s[j] => i = j

Apart(s, t) == \A i \in 1 .. Len(s), j \in 1 .. Len(t) : s[i] # t[j]

\* The requests a file handed to the kernel and has not cleaned up.
Outstanding(f) ==
    IF phase[f] = "submitted" THEN TicketRequests(aioTicket[f]) ELSE << >>

\* Every address in use was allocated.
AddressesKnown ==
    /\ aioRequestPool.structStack \in Seq(1 .. aioRequestPool.numAlloc)
    /\ requestQueue \in Seq(1 .. aioRequestPool.numAlloc)
    /\ \A f \in File : Outstanding(f) \in Seq(1 .. aioRequestPool.numAlloc)

\* What the pool handed out is queued or outstanding.
PoolSplit ==
    /\ PoolCounts
    /\ \A f \in File :
         aioRequestPool.numInUse = Len(requestQueue) + Len(Outstanding(f))

\* The program has each AIORequest in one place.
OwnedOnce ==
    /\ Distinct(aioRequestPool.structStack)
    /\ Distinct(requestQueue)
    /\ Apart(aioRequestPool.structStack, requestQueue)
    /\ \A f \in File :
         /\ Distinct(Outstanding(f))
         /\ Apart(aioRequestPool.structStack, Outstanding(f))
         /\ Apart(requestQueue, Outstanding(f))

\* The kernel has an AIORequest once.
KernelOnce ==
    /\ \A i, j \in 1 .. Len(inflight) : inflight[i].obj = inflight[j].obj => i = j
    /\ \A i, j \in 1 .. Len(completed) :
         completed[i].obj = completed[j].obj => i = j
    /\ \A i \in 1 .. Len(inflight), j \in 1 .. Len(completed) :
         inflight[i].obj # completed[j].obj

\* The kernel has only what is outstanding.
KernelOwes ==
    \A f \in File :
      /\ \A i \in 1 .. Len(inflight) :
           \E j \in 1 .. Len(Outstanding(f)) : inflight[i].obj = Outstanding(f)[j]
      /\ \A i \in 1 .. Len(completed) :
           \E j \in 1 .. Len(Outstanding(f)) : completed[i].obj = Outstanding(f)[j]

\* A ticket in preparation has no events, a submitted one no more than requests,
\* and as many if io_submit took them all.
TicketCounts ==
    \A f \in File :
      /\ phase[f] = "queueing" => aioTicket[f].numEvents = 0
      /\ phase[f] = "submitted" =>
           /\ aioTicket[f].numEvents + Len(inflight) + Len(completed)
                <= aioTicket[f].numRequests
           /\ AllTaken => aioTicket[f].numEvents + Len(inflight) + Len(completed)
                            = aioTicket[f].numRequests

\* Requests that were queued belong to a file.
RequestsOfFiles ==
    /\ \A r \in 1 .. aioRequestPool.numAlloc : aioRequest[r].fd \in File
    /\ \A i \in 1 .. Len(inflight) : inflight[i].req.fd \in File

\* The inductive invariant.
IInv ==
    /\ TypeOK
    /\ AddressesKnown /\ PoolSplit /\ OwnedOnce
    /\ KernelOnce /\ KernelOwes
    /\ TicketCounts /\ RequestsOfFiles

-------------------------------------------------------------------------------
(* Sequences.                                                              *)

\* The smaller of two numbers.
LEMMA MinOfTwo ==
  ASSUME NEW a \in Int, NEW b \in Int
  PROVE  Min({a, b}) = IF a <= b THEN a ELSE b
<1>1. \E x \in {a, b} : \A y \in {a, b} : x =< y
  OBVIOUS
<1>2. /\ Min({a, b}) \in {a, b}
      /\ \A y \in {a, b} : Min({a, b}) =< y
  BY <1>1 DEF Min
<1> QED
  BY <1>2

\* The larger of two numbers.
LEMMA MaxOfTwo ==
  ASSUME NEW a \in Int, NEW b \in Int
  PROVE  Max({a, b}) = IF a <= b THEN b ELSE a
<1>1. \E x \in {a, b} : \A y \in {a, b} : x >= y
  OBVIOUS
<1>2. /\ Max({a, b}) \in {a, b}
      /\ \A y \in {a, b} : Max({a, b}) >= y
  BY <1>1 DEF Max
<1> QED
  BY <1>2

\* A part of a sequence.
LEMMA SubSeqIs ==
  ASSUME NEW S, NEW s \in Seq(S), NEW m \in 1 .. Len(s) + 1, NEW n \in m - 1 .. Len(s)
  PROVE  /\ SubSeq(s, m, n) \in Seq(S)
         /\ Len(SubSeq(s, m, n)) = n - m + 1
         /\ \A i \in 1 .. n - m + 1 : SubSeq(s, m, n)[i] = s[m + i - 1]
<1>1. \A i \in m .. n : s[i] \in S
  BY ElementOfSeq
<1> QED
  BY <1>1, SubSeqProperties, LenProperties

\* A sequence without one of its elements.
LEMMA RemoveAtIs ==
  ASSUME NEW S, NEW s \in Seq(S), NEW c \in 1 .. Len(s)
  PROVE  /\ RemoveAt(s, c) \in Seq(S)
         /\ Len(RemoveAt(s, c)) = Len(s) - 1
         /\ \A i \in 1 .. Len(s) - 1 :
              RemoveAt(s, c)[i] = IF i < c THEN s[i] ELSE s[i + 1]
<1>0. Len(s) \in Nat
  BY LenProperties
<1> DEFINE before == SubSeq(s, 1, c - 1)
           behind == SubSeq(s, c + 1, Len(s))
<1>1. /\ before \in Seq(S)
      /\ Len(before) = c - 1
      /\ \A i \in 1 .. c - 1 : before[i] = s[i]
  <2>1. 1 \in 1 .. Len(s) + 1 /\ c - 1 \in 1 - 1 .. Len(s)
    BY <1>0
  <2>2. /\ before \in Seq(S)
        /\ Len(before) = (c - 1) - 1 + 1
        /\ \A i \in 1 .. (c - 1) - 1 + 1 : before[i] = s[1 + i - 1]
    BY <1>0, <2>1, SubSeqIs
  <2>3. (c - 1) - 1 + 1 = c - 1 /\ \A i \in 1 .. c - 1 : 1 + i - 1 = i
    BY <1>0
  <2> HIDE DEF before
  <2> QED
    BY <2>2, <2>3
<1>2. /\ behind \in Seq(S)
      /\ Len(behind) = Len(s) - c
      /\ \A i \in 1 .. Len(s) - c : behind[i] = s[c + i]
  <2>1. c + 1 \in 1 .. Len(s) + 1
        /\ Len(s) \in (c + 1) - 1 .. Len(s)
    BY <1>0
  <2>2. /\ behind \in Seq(S)
        /\ Len(behind) = Len(s) - (c + 1) + 1
        /\ \A i \in 1 .. Len(s) - (c + 1) + 1 :
             behind[i] = s[(c + 1) + i - 1]
    BY <1>0, <2>1, SubSeqIs
  <2>3. /\ Len(s) - (c + 1) + 1 = Len(s) - c
        /\ \A i \in 1 .. Len(s) - c : (c + 1) + i - 1 = c + i
    BY <1>0
  <2> HIDE DEF behind
  <2> QED
    BY <2>2, <2>3
<1>3. RemoveAt(s, c) = before \o behind
  BY DEF RemoveAt
<1> HIDE DEF before, behind
<1>4. /\ RemoveAt(s, c) \in Seq(S)
      /\ Len(RemoveAt(s, c)) = (c - 1) + (Len(s) - c)
      /\ \A i \in 1 .. (c - 1) + (Len(s) - c) :
           RemoveAt(s, c)[i] = IF i <= c - 1 THEN before[i] ELSE behind[i - (c - 1)]
  <2>1. /\ before \o behind \in Seq(S)
        /\ Len(before \o behind) = Len(before) + Len(behind)
        /\ \A i \in 1 .. Len(before) + Len(behind) :
             (before \o behind)[i] =
               IF i <= Len(before) THEN before[i] ELSE behind[i - Len(before)]
    BY <1>1, <1>2, ConcatProperties
  <2> QED
    BY <1>1, <1>2, <1>3, <2>1
<1>5. (c - 1) + (Len(s) - c) = Len(s) - 1
  BY <1>0
<1>6. ASSUME NEW i \in 1 .. Len(s) - 1
      PROVE  RemoveAt(s, c)[i] = IF i < c THEN s[i] ELSE s[i + 1]
  <2>1. RemoveAt(s, c)[i] = IF i <= c - 1 THEN before[i] ELSE behind[i - (c - 1)]
    BY <1>4, <1>5
  <2>2. CASE i < c
    <3>1. i <= c - 1 /\ i \in 1 .. c - 1
      BY <1>0, <2>2
    <3> QED
      BY <1>1, <2>1, <2>2, <3>1
  <2>3. CASE ~(i < c)
    <3>1. ~(i <= c - 1) /\ i - (c - 1) \in 1 .. Len(s) - c
          /\ c + (i - (c - 1)) = i + 1
      BY <1>0, <2>3
    <3> QED
      BY <1>2, <2>1, <2>3, <3>1
  <2> QED
    BY <2>2, <2>3
<1> QED
  BY <1>4, <1>5, <1>6

\* A concatenation has each element once if its parts do and share none.
LEMMA ConcatDistinct ==
  ASSUME NEW S, NEW s \in Seq(S), NEW t \in Seq(S),
         Distinct(s), Distinct(t), Apart(s, t)
  PROVE  Distinct(s \o t)
<1> SUFFICES ASSUME NEW i \in 1 .. Len(s \o t), NEW j \in 1 .. Len(s \o t),
                    (s \o t)[i] = (s \o t)[j]
             PROVE  i = j
  BY DEF Distinct
<1>1. Len(s) \in Nat /\ Len(t) \in Nat
  BY LenProperties
<1>2. /\ Len(s \o t) = Len(s) + Len(t)
      /\ \A k \in 1 .. Len(s) + Len(t) :
           (s \o t)[k] = IF k <= Len(s) THEN s[k] ELSE t[k - Len(s)]
  BY ConcatProperties
<1>3. /\ (s \o t)[i] = IF i <= Len(s) THEN s[i] ELSE t[i - Len(s)]
      /\ (s \o t)[j] = IF j <= Len(s) THEN s[j] ELSE t[j - Len(s)]
  BY <1>2
<1>4. CASE i <= Len(s) /\ j <= Len(s)
  <2>1. i \in 1 .. Len(s) /\ j \in 1 .. Len(s)
    BY <1>1, <1>2, <1>4
  <2> QED
    BY <1>3, <1>4, <2>1 DEF Distinct
<1>5. CASE i <= Len(s) /\ ~(j <= Len(s))
  <2>1. i \in 1 .. Len(s) /\ j - Len(s) \in 1 .. Len(t)
    BY <1>1, <1>2, <1>5
  <2> QED
    BY <1>3, <1>5, <2>1 DEF Apart
<1>6. CASE ~(i <= Len(s)) /\ j <= Len(s)
  <2>1. j \in 1 .. Len(s) /\ i - Len(s) \in 1 .. Len(t)
    BY <1>1, <1>2, <1>6
  <2> QED
    BY <1>3, <1>6, <2>1 DEF Apart
<1>7. CASE ~(i <= Len(s)) /\ ~(j <= Len(s))
  <2>1. i - Len(s) \in 1 .. Len(t) /\ j - Len(s) \in 1 .. Len(t)
    BY <1>1, <1>2, <1>7
  <2>2. i - Len(s) = j - Len(s)
    BY <1>3, <1>7, <2>1 DEF Distinct
  <2> QED
    BY <1>1, <2>2
<1> QED
  BY <1>4, <1>5, <1>6, <1>7

\* What shares no element with two sequences shares none with both together.
LEMMA ConcatApart ==
  ASSUME NEW S, NEW s \in Seq(S), NEW t \in Seq(S), NEW u \in Seq(S),
         Apart(s, u), Apart(t, u)
  PROVE  Apart(s \o t, u)
<1> SUFFICES ASSUME NEW i \in 1 .. Len(s \o t), NEW j \in 1 .. Len(u)
             PROVE  (s \o t)[i] # u[j]
  BY DEF Apart
<1>1. Len(s) \in Nat /\ Len(t) \in Nat
  BY LenProperties
<1>2. /\ Len(s \o t) = Len(s) + Len(t)
      /\ (s \o t)[i] = IF i <= Len(s) THEN s[i] ELSE t[i - Len(s)]
  BY ConcatProperties
<1>3. CASE i <= Len(s)
  BY <1>1, <1>2, <1>3 DEF Apart
<1>4. CASE ~(i <= Len(s))
  <2>1. i - Len(s) \in 1 .. Len(t)
    BY <1>1, <1>2, <1>4
  <2> QED
    BY <1>2, <1>4, <2>1 DEF Apart
<1> QED
  BY <1>3, <1>4

-------------------------------------------------------------------------------
(* The invariant, one operation after the other.                           *)

\* A step that changes nothing.
LEMMA StutterInv ==
  ASSUME NEW f, File = {f}, IInv, UNCHANGED vars
  PROVE  IInv'
<1>1. UNCHANGED aioVars /\ UNCHANGED phase
  BY DEF vars
<1>2. Outstanding(f)' = Outstanding(f)
  BY <1>1 DEF Outstanding, aioVars
<1>3. TypeOK'
  BY <1>1 DEF IInv, TypeOK, AIOTypeOK, aioVars
<1>4. /\ (AddressesKnown /\ PoolSplit)'
      /\ OwnedOnce'
      /\ KernelOwes'
  <2>1. (AddressesKnown /\ PoolSplit)'
    BY <1>1, <1>2 DEF IInv, AddressesKnown, PoolSplit, PoolCounts, aioVars
  <2>2. OwnedOnce'
    BY <1>1, <1>2 DEF IInv, OwnedOnce, aioVars
  <2>3. KernelOwes'
    <3>1. inflight' = inflight /\ completed' = completed
      BY <1>1 DEF aioVars
    <3>2. KernelOwes
      BY DEF IInv
    <3> QED
      BY <1>2, <3>1, <3>2 DEF KernelOwes
  <2> QED
    BY <2>1, <2>2, <2>3
<1>5. KernelOnce'
  BY <1>1 DEF IInv, KernelOnce, aioVars
<1>6. TicketCounts' /\ RequestsOfFiles'
  BY <1>1 DEF IInv, TicketCounts, RequestsOfFiles, aioVars
<1> QED
  BY <1>3, <1>4, <1>5, <1>6 DEF IInv

\* Nothing was allocated, queued or submitted yet.
LEMMA InitInv == ASSUME Init PROVE IInv
<1> USE AIOAssumption DEF Init, AIOInit
<1>1. TypeOK
  BY DEF TypeOK, AIOTypeOK, AIORequestPool, AIOTicket, RequestRecord, NoRequest,
         NoEvent, Request, Opcode, TicketIndex, Phase
<1>2. \A f \in File : Outstanding(f) = << >>
  BY DEF Outstanding
<1>3. AddressesKnown
  BY <1>2, EmptySeq DEF AddressesKnown
<1>4. PoolSplit
  BY <1>2, EmptySeq DEF PoolSplit, PoolCounts
<1>5. OwnedOnce
  BY <1>2, EmptySeq DEF OwnedOnce, Distinct, Apart
<1>6. KernelOnce /\ KernelOwes /\ TicketCounts /\ RequestsOfFiles
  BY DEF KernelOnce, KernelOwes, TicketCounts, RequestsOfFiles
<1> QED
  BY <1>1, <1>3, <1>4, <1>5, <1>6 DEF IInv

\* A ticket that is initialized was cleaned up: nothing is outstanding.  The
\* program may set the offset of the file with it.
LEMMA TicketBegun ==
  ASSUME NEW f, File = {f}, IInv,
         phase[f] = "idle", phase' = [phase EXCEPT ![f] = "queueing"],
         aioTicket' = [aioTicket EXCEPT ![f] = InitializedTicket(@)],
         offset' \in [File -> Nat],
         UNCHANGED <<requestQueue, aioRequestPool, aioRequest, inflight, completed>>
  PROVE  IInv'
<1>2. phase \in [File -> Phase] /\ aioTicket \in [File -> AIOTicket]
  BY DEF IInv, TypeOK, AIOTypeOK
<1>3. phase'[f] = "queueing" /\ aioTicket'[f].numEvents = 0
  BY <1>2 DEF InitializedTicket, AIOTicket
<1>4. Outstanding(f) = << >> /\ Outstanding(f)' = << >>
  BY <1>3 DEF Outstanding
<1>5. TypeOK'
  <2>1. InitializedTicket(aioTicket[f]) \in AIOTicket
    <3>1. aioTicket[f] \in AIOTicket /\ 0 \in 0 .. TicketSize
      BY <1>2, AIOAssumption
    <3> QED
      BY <3>1 DEF InitializedTicket, AIOTicket
  <2>2. aioTicket' \in [File -> AIOTicket]
    BY <1>2, <2>1
  <2> QED
    BY <1>2, <2>2 DEF IInv, TypeOK, AIOTypeOK, Phase
<1>6. (AddressesKnown /\ PoolSplit /\ OwnedOnce)'
  <2>1. AddressesKnown'
    BY <1>4 DEF IInv, AddressesKnown
  <2>2. PoolSplit'
    BY <1>4 DEF IInv, PoolSplit, PoolCounts
  <2>3. OwnedOnce'
    BY <1>4 DEF IInv, OwnedOnce
  <2> QED
    BY <2>1, <2>2, <2>3
<1>9. (KernelOnce /\ KernelOwes)'
  BY <1>4 DEF IInv, KernelOnce, KernelOwes
<1>7. TicketCounts'
  BY <1>3 DEF TicketCounts
<1>8. RequestsOfFiles'
  BY DEF IInv, RequestsOfFiles
<1> QED
  BY <1>5, <1>6, <1>7, <1>8, <1>9 DEF IInv

\* The same without the offset.
LEMMA BeginInv ==
  ASSUME NEW f, File = {f}, IInv, Begin(f)
  PROVE  IInv'
<1>1. offset' \in [File -> Nat]
  BY DEF Begin, IInv, TypeOK, AIOTypeOK
<1> QED
  BY <1>1, TicketBegun DEF Begin

\* The offset of a file is no one's address: the program may set it.
LEMMA OffsetSet ==
  ASSUME NEW f, File = {f}, IInv, offset' \in [File -> Nat],
         UNCHANGED <<requestQueue, aioRequestPool, aioRequest, aioTicket,
                     inflight, completed, phase>>
  PROVE  IInv'
<1>1. UNCHANGED <<requestQueue, aioRequestPool, aioRequest, aioTicket,
                  inflight, completed, phase>>
  OBVIOUS
<1>2. Outstanding(f)' = Outstanding(f)
  BY <1>1 DEF Outstanding
<1>3. TypeOK'
  BY <1>1 DEF IInv, TypeOK, AIOTypeOK
<1>4. /\ (AddressesKnown /\ PoolSplit)'
      /\ OwnedOnce'
      /\ KernelOwes'
  <2>1. (AddressesKnown /\ PoolSplit)'
    BY <1>1, <1>2 DEF IInv, AddressesKnown, PoolSplit, PoolCounts
  <2>2. OwnedOnce'
    BY <1>1, <1>2 DEF IInv, OwnedOnce
  <2>3. KernelOwes'
    <3>1. inflight' = inflight /\ completed' = completed
      BY <1>1
    <3>2. KernelOwes
      BY DEF IInv
    <3> QED
      BY <1>2, <3>1, <3>2 DEF KernelOwes
  <2> QED
    BY <2>1, <2>2, <2>3
<1>5. KernelOnce'
  BY <1>1 DEF IInv, KernelOnce
<1>6. TicketCounts' /\ RequestsOfFiles'
  BY <1>1 DEF IInv, TicketCounts, RequestsOfFiles
<1> QED
  BY <1>3, <1>4, <1>5, <1>6 DEF IInv

\* It sets it to the beginning of the file.
LEMMA RewindInv ==
  ASSUME NEW f, File = {f}, IInv, Rewind(f)
  PROVE  IInv'
<1>1. offset' \in [File -> Nat]
  BY DEF Rewind, IInv, TypeOK, AIOTypeOK
<1> QED
  BY <1>1, OffsetSet DEF Rewind

\* The request that is queued comes from the top of the pool's stack, or is new:
\* in neither case has anyone else its address.
LEMMA RequestQueued ==
  ASSUME NEW f, File = {f}, IInv, NEW p \in Page,
         phase[f] = "queueing",
         read(f, p, PageSize) \/ write(f, p, PageSize),
         UNCHANGED <<aioTicket, inflight, completed, memory, phase>>
  PROVE  IInv'
<1> DEFINE pool == aioRequestPool
           stack == aioRequestPool.structStack
           r == NextRequest
<1>1. /\ read(f, p, PageSize) \/ write(f, p, PageSize)
      /\ UNCHANGED <<aioTicket, inflight, completed, memory, phase>>
  OBVIOUS
<1>2. Outstanding(f) = << >> /\ Outstanding(f)' = << >>
  BY <1>1 DEF Outstanding
<1>3. CASE UNCHANGED <<requestQueue, aioRequestPool, aioRequest, offset>>
  BY <1>1, <1>3, StutterInv DEF vars, aioVars
<1>4. CASE /\ Len(requestQueue) < MaxOperations
           /\ acquireAIORequest
           /\ requestQueue' = Append(requestQueue, r)
           /\ \E opcode \in Opcode :
                aioRequest' = [aioRequest EXCEPT ![r] =
                                 [fd |-> f, opcode |-> opcode, buf |-> p,
                                  offset |-> offset[f], nbytes |-> PageSize]]
           /\ offset' = [offset EXCEPT ![f] = @ + PageSize]
  <2>0. Distinct(stack) /\ Distinct(requestQueue) /\ Apart(stack, requestQueue)
    BY DEF IInv, OwnedOnce
  <2>1. /\ pool \in AIORequestPool /\ stack \in Seq(1 .. pool.numAlloc)
        /\ requestQueue \in Seq(1 .. pool.numAlloc)
        /\ pool.numAlloc \in 0 .. MaxRequests /\ pool.numInUse \in 0 .. MaxRequests
        /\ Len(stack) \in Nat /\ Len(requestQueue) \in Nat
        /\ pool.numInUse + Len(stack) = pool.numAlloc
        /\ pool.numInUse = Len(requestQueue)
    BY <1>2, LenProperties, EmptySeq
       DEF IInv, TypeOK, AIOTypeOK, AIORequestPool, AddressesKnown, PoolSplit, PoolCounts
  <2>2. /\ aioRequestPool' \in AIORequestPool
        /\ aioRequestPool'.numAlloc >= pool.numAlloc
        /\ aioRequestPool'.structStack \in Seq(1 .. aioRequestPool'.numAlloc)
        /\ aioRequestPool'.numInUse = pool.numInUse + 1
        /\ aioRequestPool'.numInUse + Len(aioRequestPool'.structStack)
             = aioRequestPool'.numAlloc
        /\ r \in 1 .. aioRequestPool'.numAlloc
        /\ \A k \in 1 .. aioRequestPool'.numAlloc : k = r \/ k \in 1 .. pool.numAlloc
        /\ \A i \in 1 .. Len(requestQueue) : requestQueue[i] # r
        /\ Distinct(aioRequestPool'.structStack)
        /\ Apart(aioRequestPool'.structStack, requestQueue)
        /\ \A i \in 1 .. Len(aioRequestPool'.structStack) :
             aioRequestPool'.structStack[i] # r
    <3>1. CASE stack = << >>
      <4>1. r = pool.numAlloc + 1 /\ r \in Request
        BY <1>4, <3>1 DEF acquireAIORequest, NextRequest
      <4>2. aioRequestPool' = [pool EXCEPT !.numAlloc = @ + 1, !.numInUse = @ + 1]
        BY <1>4, <3>1 DEF acquireAIORequest
      <4>3. /\ aioRequestPool'.structStack = << >>
            /\ aioRequestPool'.numAlloc = pool.numAlloc + 1
            /\ aioRequestPool'.numInUse = pool.numInUse + 1
        BY <2>1, <3>1, <4>2 DEF AIORequestPool
      <4>5. aioRequestPool' \in AIORequestPool
        <5>1. pool.numAlloc + 1 \in 0 .. MaxRequests /\ pool.numInUse + 1 \in 0 .. MaxRequests
          BY <2>1, <3>1, <4>1, EmptySeq, AIOAssumption DEF Request
        <5> QED
          BY <2>1, <4>2, <5>1 DEF AIORequestPool
      <4>4. \A i \in 1 .. Len(requestQueue) : requestQueue[i] # r
        BY <2>1, <4>1, ElementOfSeq
      <4> QED
        BY <2>1, <3>1, <4>1, <4>3, <4>4, <4>5, EmptySeq DEF Distinct, Apart
    <3>2. CASE stack # << >>
      <4>1. Len(stack) >= 1
        BY <2>1, <3>2, EmptySeq
      <4>2. r = stack[Len(stack)] /\ r \in 1 .. pool.numAlloc
        BY <2>1, <3>2, <4>1, ElementOfSeq DEF NextRequest, Last
      <4>3. aioRequestPool' = [pool EXCEPT !.structStack = SubSeq(stack, 1, Len(stack) - 1),
                                           !.numInUse = @ + 1]
        BY <1>4, <3>2 DEF acquireAIORequest, Front
      <4>4. /\ SubSeq(stack, 1, Len(stack) - 1) \in Seq(1 .. pool.numAlloc)
            /\ Len(SubSeq(stack, 1, Len(stack) - 1)) = Len(stack) - 1
            /\ \A i \in 1 .. Len(stack) - 1 :
                 SubSeq(stack, 1, Len(stack) - 1)[i] = stack[i]
        <5>1. 1 \in 1 .. Len(stack) + 1 /\ Len(stack) - 1 \in 1 - 1 .. Len(stack)
          BY <2>1, <4>1
        <5>2. /\ SubSeq(stack, 1, Len(stack) - 1) \in Seq(1 .. pool.numAlloc)
              /\ Len(SubSeq(stack, 1, Len(stack) - 1)) = (Len(stack) - 1) - 1 + 1
              /\ \A i \in 1 .. (Len(stack) - 1) - 1 + 1 :
                   SubSeq(stack, 1, Len(stack) - 1)[i] = stack[1 + i - 1]
          BY <2>1, <5>1, SubSeqIs
        <5>3. /\ (Len(stack) - 1) - 1 + 1 = Len(stack) - 1
              /\ \A i \in 1 .. Len(stack) - 1 : 1 + i - 1 = i
          BY <2>1
        <5> QED
          BY <5>2, <5>3
      <4>5. /\ aioRequestPool'.structStack = SubSeq(stack, 1, Len(stack) - 1)
            /\ aioRequestPool'.numAlloc = pool.numAlloc
            /\ aioRequestPool'.numInUse = pool.numInUse + 1
        BY <2>1, <4>3 DEF AIORequestPool
      <4>6. aioRequestPool' \in AIORequestPool
        <5>1. SubSeq(stack, 1, Len(stack) - 1) \in Seq(Request)
          <6>1. 1 .. pool.numAlloc \subseteq Request
            BY <2>1, AIOAssumption DEF Request
          <6> QED
            BY <4>4, <6>1, SeqMonotonic
        <5>2. pool.numInUse + 1 \in 0 .. MaxRequests
          BY <2>1, <4>1, AIOAssumption
        <5> QED
          BY <2>1, <4>3, <5>1, <5>2 DEF AIORequestPool
      <4>7. /\ \A i \in 1 .. Len(requestQueue) : requestQueue[i] # r
            /\ \A i \in 1 .. Len(stack) - 1 : stack[i] # r
        <5>1. Len(stack) \in 1 .. Len(stack)
          BY <2>1, <4>1
        <5>2. \A i \in 1 .. Len(requestQueue) : stack[Len(stack)] # requestQueue[i]
          BY <2>0, <5>1 DEF Apart
        <5>3. \A i \in 1 .. Len(stack) - 1 : i \in 1 .. Len(stack) /\ i # Len(stack)
          BY <2>1, <4>1
        <5>4. \A i \in 1 .. Len(stack) - 1 : stack[i] # stack[Len(stack)]
          BY <2>0, <5>1, <5>3 DEF Distinct
        <5> QED
          BY <4>2, <5>2, <5>4
      <4>8. /\ Distinct(SubSeq(stack, 1, Len(stack) - 1))
            /\ Apart(SubSeq(stack, 1, Len(stack) - 1), requestQueue)
        <5>1. \A i \in 1 .. Len(stack) - 1 : i \in 1 .. Len(stack)
          BY <2>1, <4>1
        <5> QED
          BY <2>0, <4>4, <5>1 DEF Distinct, Apart
      <4>9. /\ aioRequestPool'.numInUse + Len(aioRequestPool'.structStack)
                 = aioRequestPool'.numAlloc
            /\ \A i \in 1 .. Len(aioRequestPool'.structStack) :
                 aioRequestPool'.structStack[i] # r
        <5>1. Len(aioRequestPool'.structStack) = Len(stack) - 1
          BY <4>4, <4>5
        <5>2. pool.numInUse + 1 + (Len(stack) - 1) = pool.numAlloc
          <6>1. /\ pool.numInUse \in Int /\ Len(stack) \in Int
                /\ pool.numAlloc = pool.numInUse + Len(stack)
            BY <2>1, AIOAssumption
          <6> QED
            BY <6>1
        <5>3. \A i \in 1 .. Len(stack) - 1 : aioRequestPool'.structStack[i] = stack[i]
          BY <4>4, <4>5
        <5> QED
          BY <4>5, <4>7, <5>1, <5>2, <5>3
      <4>10. pool.numAlloc >= pool.numAlloc
        BY <2>1, AIOAssumption
      <4> HIDE DEF r
      <4> QED
        BY <4>2, <4>4, <4>5, <4>6, <4>7, <4>8, <4>9, <4>10
    <3> QED
      BY <3>1, <3>2
  <2>3. /\ requestQueue' \in Seq(1 .. aioRequestPool'.numAlloc)
        /\ Len(requestQueue') = Len(requestQueue) + 1
        /\ \A i \in 1 .. Len(requestQueue) : requestQueue'[i] = requestQueue[i]
        /\ requestQueue'[Len(requestQueue) + 1] = r
    <3>1. 1 .. pool.numAlloc \subseteq 1 .. aioRequestPool'.numAlloc
      BY <2>1, <2>2 DEF AIORequestPool
    <3>2. requestQueue \in Seq(1 .. aioRequestPool'.numAlloc)
      BY <2>1, <3>1, SeqMonotonic
    <3> QED
      BY <1>4, <2>1, <2>2, <3>2, AppendProperties
  <2>4. AddressesKnown'
    BY <1>2, <2>2, <2>3, EmptySeq DEF AddressesKnown
  <2>5. PoolSplit'
    <3>1. Len(<< >>) = 0
      OBVIOUS
    <3>2. aioRequestPool'.numInUse = Len(requestQueue') + 0
      BY <2>1, <2>2, <2>3
    <3> QED
      BY <1>2, <2>2, <3>1, <3>2 DEF PoolSplit, PoolCounts
  <2>6. OwnedOnce'
    <3>1. Distinct(requestQueue')
      <4> SUFFICES ASSUME NEW i \in 1 .. Len(requestQueue) + 1,
                          NEW j \in 1 .. Len(requestQueue) + 1,
                          requestQueue'[i] = requestQueue'[j]
                   PROVE  i = j
        BY <2>3 DEF Distinct
      <4>1. /\ i \in 1 .. Len(requestQueue) \/ i = Len(requestQueue) + 1
            /\ j \in 1 .. Len(requestQueue) \/ j = Len(requestQueue) + 1
        BY <2>1
      <4> QED
        BY <2>0, <2>2, <2>3, <4>1 DEF Distinct
    <3>2. Apart(aioRequestPool'.structStack, requestQueue')
      <4> SUFFICES ASSUME NEW i \in 1 .. Len(aioRequestPool'.structStack),
                          NEW j \in 1 .. Len(requestQueue) + 1
                   PROVE  aioRequestPool'.structStack[i] # requestQueue'[j]
        BY <2>3 DEF Apart
      <4>1. j \in 1 .. Len(requestQueue) \/ j = Len(requestQueue) + 1
        BY <2>1
      <4> QED
        BY <2>2, <2>3, <4>1 DEF Apart
    <3> QED
      BY <1>2, <2>2, <3>1, <3>2, EmptySeq DEF OwnedOnce, Distinct, Apart
  <2>7. /\ aioRequest' \in [Request -> RequestRecord]
        /\ \A k \in 1 .. aioRequestPool'.numAlloc : aioRequest'[k].fd \in File
    <3>1. /\ aioRequest \in [Request -> RequestRecord] /\ offset[f] \in Nat
          /\ \A k \in 1 .. pool.numAlloc : aioRequest[k].fd \in File
      BY DEF IInv, TypeOK, AIOTypeOK, RequestsOfFiles
    <3>2. PICK opcode \in Opcode :
            aioRequest' = [aioRequest EXCEPT ![r] =
                             [fd |-> f, opcode |-> opcode, buf |-> p,
                              offset |-> offset[f], nbytes |-> PageSize]]
      BY <1>4
    <3>3. [fd |-> f, opcode |-> opcode, buf |-> p, offset |-> offset[f],
           nbytes |-> PageSize] \in RequestRecord
      BY <3>1, AIOAssumption DEF RequestRecord
    <3>4. r \in Request /\ 1 .. pool.numAlloc \subseteq Request
      BY <2>1, <2>2, AIOAssumption DEF Request, AIORequestPool
    <3> QED
      BY <2>2, <3>1, <3>2, <3>3, <3>4
  <2>8. TypeOK'
    <3>1. requestQueue' \in Seq(Request) /\ Len(requestQueue') <= MaxOperations
      <4>1. 1 .. aioRequestPool'.numAlloc \subseteq Request
        BY <2>2, AIOAssumption DEF AIORequestPool, Request
      <4>2. Len(requestQueue') <= MaxOperations
        BY <1>4, <2>1, <2>3, AIOAssumption
      <4> QED
        BY <2>3, <4>1, <4>2, SeqMonotonic
    <3>2. offset' \in [File -> Nat]
      BY <1>4, AIOAssumption DEF IInv, TypeOK, AIOTypeOK
    <3> QED
      BY <1>1, <2>2, <2>7, <3>1, <3>2 DEF IInv, TypeOK, AIOTypeOK
  <2>9. (KernelOnce /\ KernelOwes /\ TicketCounts)'
    BY <1>1, <1>2 DEF IInv, KernelOnce, KernelOwes, TicketCounts
  <2>10. RequestsOfFiles'
    BY <1>1, <2>7 DEF IInv, RequestsOfFiles
  <2> QED
    BY <2>4, <2>5, <2>6, <2>8, <2>9, <2>10 DEF IInv
<1> QED
  BY <1>1, <1>3, <1>4 DEF read, write, queueRequest, Opcode

\* The bound on offsets plays no part in it.
LEMMA QueueInv ==
  ASSUME NEW f, File = {f}, IInv, NEW p \in Page, Queue(f, p)
  PROVE  IInv'
BY RequestQueued DEF Queue

\* The oldest requests leave the queue for the ticket; the kernel takes some.
LEMMA SubmitInv ==
  ASSUME NEW f, File = {f}, IInv, Submit(f)
  PROVE  IInv'
<1> DEFINE n == Min({Len(requestQueue), TicketSize})
           pool == aioRequestPool
<1>1. /\ phase[f] = "queueing" /\ submit(f)
      /\ phase' = IF requestQueue = << >> THEN phase
                  ELSE [phase EXCEPT ![f] = "submitted"]
      /\ UNCHANGED <<aioRequestPool, aioRequest, offset, completed, memory>>
  BY DEF Submit
<1>2. CASE requestQueue = << >>
  <2>1. UNCHANGED <<requestQueue, aioTicket, inflight, phase>>
    BY <1>1, <1>2 DEF submit
  <2> QED
    BY <1>1, <2>1, StutterInv DEF vars, aioVars
<1>3. CASE requestQueue # << >>
  <2>1. /\ requestQueue' = SubSeq(requestQueue, n + 1, Len(requestQueue))
        /\ aioTicket' =
             [aioTicket EXCEPT
                ![f].requestList = [i \in TicketIndex |->
                                      IF i < n THEN requestQueue[i + 1] ELSE @[i]],
                ![f].numRequests = n]
        /\ \E k \in Accepted(n) :
             inflight' = inflight \o [i \in 1 .. k |-> Iocb(requestQueue[i])]
        /\ phase' = [phase EXCEPT ![f] = "submitted"]
    BY <1>1, <1>3 DEF submit
  <2>2. /\ requestQueue \in Seq(1 .. pool.numAlloc) /\ pool.numAlloc \in 0 .. MaxRequests
        /\ Len(requestQueue) \in Nat /\ Len(requestQueue) >= 1
        /\ Len(requestQueue) <= MaxOperations
        /\ Distinct(requestQueue) /\ Apart(pool.structStack, requestQueue)
        /\ pool.structStack \in Seq(1 .. pool.numAlloc)
        /\ \A i \in 1 .. Len(requestQueue) :
             requestQueue[i] \in 1 .. pool.numAlloc /\ requestQueue[i] \in Request
    <3>1. /\ requestQueue \in Seq(1 .. pool.numAlloc) /\ pool.numAlloc \in 0 .. MaxRequests
          /\ pool.structStack \in Seq(1 .. pool.numAlloc)
          /\ Len(requestQueue) <= MaxOperations
      BY DEF IInv, TypeOK, AIOTypeOK, AIORequestPool, AddressesKnown
    <3>2. Len(requestQueue) \in Nat /\ Len(requestQueue) >= 1
      BY <1>3, <3>1, EmptySeq, LenProperties
    <3>3. 1 .. pool.numAlloc \subseteq Request
      BY <3>1, AIOAssumption DEF Request
    <3>4. \A i \in 1 .. Len(requestQueue) : requestQueue[i] \in 1 .. pool.numAlloc
      BY <3>1, ElementOfSeq
    <3>5. Distinct(requestQueue) /\ Apart(pool.structStack, requestQueue)
      BY DEF IInv, OwnedOnce
    <3> QED
      BY <3>1, <3>2, <3>3, <3>4, <3>5
  <2>3. n \in 1 .. Len(requestQueue) /\ n <= TicketSize
    <3>1. Len(requestQueue) \in Int /\ TicketSize \in Int /\ TicketSize >= 1
      BY <2>2, AIOAssumption
    <3>2. n = IF Len(requestQueue) <= TicketSize THEN Len(requestQueue) ELSE TicketSize
      BY <3>1, MinOfTwo
    <3> HIDE DEF n
    <3> QED
      BY <2>2, <3>1, <3>2
  <2> HIDE DEF n
  <2>4. Outstanding(f) = << >> /\ inflight = << >> /\ completed = << >>
    <3>1. Outstanding(f) = << >>
      BY <1>1 DEF Outstanding
    <3>2. /\ \A i \in 1 .. Len(inflight) : FALSE
          /\ \A i \in 1 .. Len(completed) : FALSE
      BY <3>1 DEF IInv, KernelOwes
    <3>3. /\ inflight \in Seq([obj : Request, req : RequestRecord])
          /\ completed \in Seq([obj : Request, res : Nat])
      BY DEF IInv, TypeOK, AIOTypeOK
    <3>4. Len(inflight) = 0 /\ Len(completed) = 0
      BY <3>2, <3>3, LenProperties
    <3> QED
      BY <3>1, <3>3, <3>4, EmptySeq
  <2>5. /\ requestQueue' \in Seq(1 .. pool.numAlloc)
        /\ Len(requestQueue') = Len(requestQueue) - n
        /\ \A i \in 1 .. Len(requestQueue) - n : requestQueue'[i] = requestQueue[n + i]
    <3>1. n + 1 \in 1 .. Len(requestQueue) + 1
          /\ Len(requestQueue) \in (n + 1) - 1 .. Len(requestQueue)
      BY <2>2, <2>3
    <3>2. /\ requestQueue' \in Seq(1 .. pool.numAlloc)
          /\ Len(requestQueue') = Len(requestQueue) - (n + 1) + 1
          /\ \A i \in 1 .. Len(requestQueue) - (n + 1) + 1 :
               requestQueue'[i] = requestQueue[(n + 1) + i - 1]
      BY <2>1, <2>2, <3>1, SubSeqIs
    <3>3. /\ Len(requestQueue) - (n + 1) + 1 = Len(requestQueue) - n
          /\ \A i \in 1 .. Len(requestQueue) - n : (n + 1) + i - 1 = n + i
      BY <2>2, <2>3
    <3> QED
      BY <3>2, <3>3
  <2>6. /\ aioTicket'[f].numRequests = n
        /\ aioTicket'[f].numEvents = 0
        /\ \A i \in 0 .. n - 1 : aioTicket'[f].requestList[i] = requestQueue[i + 1]
        /\ aioTicket' \in [File -> AIOTicket]
    <3>1. aioTicket \in [File -> AIOTicket] /\ aioTicket[f].numEvents = 0
      BY <1>1 DEF IInv, TypeOK, AIOTypeOK, TicketCounts
    <3> DEFINE list == [i \in TicketIndex |->
                          IF i < n THEN requestQueue[i + 1] ELSE aioTicket[f].requestList[i]]
               ticket == [aioTicket[f] EXCEPT !.requestList = list, !.numRequests = n]
    <3>2. aioTicket' = [aioTicket EXCEPT ![f] = ticket]
      BY <2>1
    <3>3. list \in [TicketIndex -> Request \union {NULL}]
      <4> SUFFICES ASSUME NEW i \in TicketIndex PROVE list[i] \in Request \union {NULL}
        OBVIOUS
      <4>1. CASE i < n
        <5>1. i + 1 \in 1 .. Len(requestQueue)
          BY <2>2, <2>3, <4>1, AIOAssumption DEF TicketIndex
        <5> QED
          BY <2>2, <4>1, <5>1
      <4>2. CASE ~(i < n)
        BY <3>1, <4>2 DEF AIOTicket
      <4> QED
        BY <4>1, <4>2
    <3>4. \A i \in 0 .. n - 1 : list[i] = requestQueue[i + 1]
      BY <2>2, <2>3, AIOAssumption DEF TicketIndex
    <3>5. n \in 0 .. TicketSize
      BY <2>2, <2>3, AIOAssumption
    <3> HIDE DEF list
    <3>6. ticket \in AIOTicket /\ ticket.numRequests = n /\ ticket.numEvents = 0
          /\ ticket.requestList = list
      BY <3>1, <3>3, <3>5 DEF AIOTicket
    <3> HIDE DEF ticket
    <3> QED
      BY <3>1, <3>2, <3>4, <3>6
  <2>7. /\ Outstanding(f)' \in Seq(1 .. pool.numAlloc)
        /\ Len(Outstanding(f)') = n
        /\ \A i \in 1 .. n : Outstanding(f)'[i] = requestQueue[i]
    <3>1. Outstanding(f)' = [i \in 1 .. n |-> aioTicket'[f].requestList[i - 1]]
      <4>1. phase'[f] = "submitted"
        BY <2>1 DEF IInv, TypeOK
      <4> QED
        BY <2>6, <4>1 DEF Outstanding, TicketRequests
    <3>2. \A i \in 1 .. n : i - 1 \in 0 .. n - 1 /\ (i - 1) + 1 = i
      BY <2>2, <2>3
    <3>3. \A i \in 1 .. n : aioTicket'[f].requestList[i - 1] = requestQueue[i]
      BY <2>6, <3>2
    <3>4. n \in Nat /\ \A i \in 1 .. n : i \in 1 .. Len(requestQueue)
      BY <2>2, <2>3
    <3>5. Outstanding(f)' = [i \in 1 .. n |-> requestQueue[i]]
      BY <3>1, <3>3
    <3>6. Outstanding(f)' \in [1 .. n -> 1 .. pool.numAlloc]
      BY <2>2, <3>4, <3>5
    <3>7. Outstanding(f)' \in Seq(1 .. pool.numAlloc)
      BY <3>4, <3>6, SeqDef
    <3>8. Len(Outstanding(f)') = n
      BY <3>4, <3>6, <3>7, LenProperties
    <3> QED
      BY <3>5, <3>7, <3>8
  <2>8. PICK k \in Accepted(n) :
          inflight' = inflight \o [i \in 1 .. k |-> Iocb(requestQueue[i])]
    BY <2>1
  <2>9. k \in 0 .. n
    BY <2>2, <2>3 DEF Accepted
  <2>10. /\ inflight' \in Seq([obj : Request, req : RequestRecord])
         /\ Len(inflight') = k
         /\ \A i \in 1 .. k : /\ inflight'[i].obj = requestQueue[i]
                              /\ inflight'[i].req = aioRequest[requestQueue[i]]
    <3> DEFINE taken == [i \in 1 .. k |-> Iocb(requestQueue[i])]
    <3>1. \A i \in 1 .. k : requestQueue[i] \in Request
      BY <2>2, <2>3, <2>9
    <3>2. aioRequest \in [Request -> RequestRecord]
      BY DEF IInv, TypeOK, AIOTypeOK
    <3>3. taken \in [1 .. k -> [obj : Request, req : RequestRecord]]
      BY <3>1, <3>2 DEF Iocb
    <3>4. k \in Nat
      BY <2>2, <2>3, <2>9
    <3>5. taken \in Seq([obj : Request, req : RequestRecord])
      BY <3>3, <3>4, SeqDef
    <3>6. Len(taken) = k
      BY <3>3, <3>4, <3>5, LenProperties
    <3>7. inflight' = taken
      BY <2>4, <2>8, <3>5, ConcatEmptySeq
    <3>8. \A i \in 1 .. k : /\ taken[i].obj = requestQueue[i]
                            /\ taken[i].req = aioRequest[requestQueue[i]]
      BY DEF Iocb
    <3> QED
      BY <3>5, <3>6, <3>7, <3>8
  <2>11. TypeOK'
    <3>1. 1 .. pool.numAlloc \subseteq Request
      BY <2>2, AIOAssumption DEF Request
    <3>2. requestQueue' \in Seq(Request)
      BY <2>5, <3>1, SeqMonotonic
    <3>3. Len(requestQueue') <= MaxOperations
      BY <2>2, <2>3, <2>5, AIOAssumption
    <3> QED
      BY <1>1, <2>1, <2>6, <2>10, <3>2, <3>3 DEF IInv, TypeOK, AIOTypeOK, Phase
  <2>12. AddressesKnown'
    BY <1>1, <2>2, <2>5, <2>7 DEF AddressesKnown
  <2>13. PoolSplit'
    <3>1. PoolCounts /\ pool.numInUse = Len(requestQueue) + Len(<< >>)
      BY <2>4 DEF IInv, PoolSplit
    <3>2. Len(requestQueue) + Len(<< >>) = (Len(requestQueue) - n) + n
      BY <2>2, <2>3
    <3> QED
      BY <1>1, <2>5, <2>7, <3>1, <3>2 DEF PoolSplit, PoolCounts
  <2>14. OwnedOnce'
    <3>1. \A i \in 1 .. Len(requestQueue) - n :
            n + i \in 1 .. Len(requestQueue) /\ n + i > n
      BY <2>2, <2>3
    <3>2. \A i \in 1 .. n : i \in 1 .. Len(requestQueue) /\ i <= n
      BY <2>2, <2>3
    <3>3. Distinct(requestQueue')
      <4> SUFFICES ASSUME NEW i \in 1 .. Len(requestQueue) - n,
                          NEW j \in 1 .. Len(requestQueue) - n,
                          requestQueue'[i] = requestQueue'[j]
                   PROVE  i = j
        BY <2>5 DEF Distinct
      <4>1. n + i = n + j
        BY <2>2, <2>5, <3>1 DEF Distinct
      <4> QED
        BY <2>2, <2>3, <4>1
    <3>4. Distinct(Outstanding(f)')
      BY <2>2, <2>7, <3>2 DEF Distinct
    <3>5. Apart(aioRequestPool'.structStack, requestQueue')
      BY <1>1, <2>2, <2>5, <3>1 DEF Apart
    <3>6. Apart(aioRequestPool'.structStack, Outstanding(f)')
      <4>1. \A i \in 1 .. Len(pool.structStack), j \in 1 .. Len(requestQueue) :
              pool.structStack[i] # requestQueue[j]
        BY <2>2 DEF Apart
      <4>2. \A i \in 1 .. Len(pool.structStack), j \in 1 .. n :
              pool.structStack[i] # Outstanding(f)'[j]
        BY <2>7, <3>2, <4>1
      <4> QED
        BY <1>1, <2>7, <4>2 DEF Apart
    <3>7. Apart(requestQueue', Outstanding(f)')
      <4> SUFFICES ASSUME NEW i \in 1 .. Len(requestQueue) - n, NEW j \in 1 .. n
                   PROVE  requestQueue[n + i] # requestQueue[j]
        <5>1. /\ \A i \in 1 .. Len(requestQueue) - n : requestQueue'[i] = requestQueue[n + i]
              /\ \A j \in 1 .. n : Outstanding(f)'[j] = requestQueue[j]
              /\ Len(requestQueue') = Len(requestQueue) - n /\ Len(Outstanding(f)') = n
          BY <2>5, <2>7
        <5> QED
          BY <5>1 DEF Apart
      <4>1. n + i # j
        BY <2>2, <2>3
      <4> QED
        BY <2>2, <3>1, <3>2, <4>1 DEF Distinct
    <3>8. Distinct(aioRequestPool'.structStack)
      BY <1>1 DEF IInv, OwnedOnce
    <3> QED
      BY <3>3, <3>4, <3>5, <3>6, <3>7, <3>8 DEF OwnedOnce
  <2>15. completed' = << >> /\ Len(completed') = 0
    BY <1>1, <2>4
  <2>16. \A i \in 1 .. k : i \in 1 .. n /\ i \in 1 .. Len(requestQueue)
    BY <2>2, <2>3, <2>9
  <2>17. KernelOnce'
    BY <2>2, <2>10, <2>15, <2>16 DEF KernelOnce, Distinct
  <2>18. KernelOwes'
    BY <2>7, <2>10, <2>15, <2>16 DEF KernelOwes
  <2>19. TicketCounts'
    <3>1. phase'[f] = "submitted"
      BY <2>1 DEF IInv, TypeOK
    <3>2. 0 + k + 0 <= n
      BY <2>2, <2>3, <2>9
    <3>3. AllTaken => 0 + k + 0 = n
      BY <2>2, <2>3, <2>8 DEF AllTaken, Accepted
    <3> QED
      BY <2>6, <2>10, <2>15, <3>1, <3>2, <3>3 DEF TicketCounts
  <2>20. RequestsOfFiles'
    <3>1. \A i \in 1 .. k : aioRequest[requestQueue[i]].fd \in File
      BY <2>2, <2>16 DEF IInv, RequestsOfFiles
    <3> QED
      BY <1>1, <2>10, <3>1 DEF IInv, RequestsOfFiles
  <2> QED
    BY <2>11, <2>12, <2>13, <2>14, <2>17, <2>18, <2>19, <2>20 DEF IInv
<1> QED
  BY <1>2, <1>3

\* Events that are delivered are no longer owed, and counted.
LEMMA GetEventsInv ==
  ASSUME NEW f, File = {f}, IInv, GetEvents(f)
  PROVE  IInv'
<1>1. /\ phase[f] = "submitted"
      /\ \E n \in -1 .. TicketSize : getEvents(f, n)
      /\ UNCHANGED <<requestQueue, aioRequestPool, aioRequest, offset, inflight,
                     memory, phase>>
  BY DEF GetEvents
<1>2. CASE UNCHANGED <<aioTicket, completed>>
  BY <1>1, <1>2, StutterInv DEF vars, aioVars
<1>3. ASSUME NEW n,
             completed # << >>,
             n = Min({Len(completed), aioTicket[f].numRequests}),
             aioTicket' =
               [aioTicket EXCEPT
                  ![f].eventList = [i \in TicketIndex |->
                                      IF i < n THEN completed[i + 1] ELSE @[i]],
                  ![f].numEvents = @ + n],
             completed' = SubSeq(completed, n + 1, Len(completed))
      PROVE  IInv'
  <2>1. /\ aioTicket \in [File -> AIOTicket] /\ aioTicket[f] \in AIOTicket
        /\ completed \in Seq([obj : Request, res : Nat])
        /\ Len(completed) \in Nat /\ Len(inflight) \in Nat
        /\ aioTicket[f].numRequests \in Nat /\ aioTicket[f].numEvents \in Nat
        /\ aioTicket[f].numEvents + Len(inflight) + Len(completed)
             <= aioTicket[f].numRequests
    <3>1. /\ aioTicket \in [File -> AIOTicket]
          /\ completed \in Seq([obj : Request, res : Nat])
          /\ inflight \in Seq([obj : Request, req : RequestRecord])
          /\ aioTicket[f].numEvents + Len(inflight) + Len(completed)
               <= aioTicket[f].numRequests
      BY <1>1 DEF IInv, TypeOK, AIOTypeOK, TicketCounts
    <3>2. aioTicket[f] \in AIOTicket
      BY <3>1
    <3>3. aioTicket[f].numRequests \in Nat /\ aioTicket[f].numEvents \in Nat
      BY <3>2, AIOAssumption DEF AIOTicket
    <3> QED
      BY <3>1, <3>2, <3>3, LenProperties
  <2>2. n \in 0 .. Len(completed)
    <3>1. Len(completed) \in Int /\ aioTicket[f].numRequests \in Int
      BY <2>1
    <3>2. n = IF Len(completed) <= aioTicket[f].numRequests
              THEN Len(completed) ELSE aioTicket[f].numRequests
      BY <1>3, <3>1, MinOfTwo
    <3> QED
      BY <2>1, <3>2
  <2>3. /\ completed' \in Seq([obj : Request, res : Nat])
        /\ Len(completed') = Len(completed) - n
        /\ \A i \in 1 .. Len(completed) - n : completed'[i] = completed[n + i]
    <3>1. n + 1 \in 1 .. Len(completed) + 1
          /\ Len(completed) \in (n + 1) - 1 .. Len(completed)
      BY <2>1, <2>2
    <3>2. /\ completed' \in Seq([obj : Request, res : Nat])
          /\ Len(completed') = Len(completed) - (n + 1) + 1
          /\ \A i \in 1 .. Len(completed) - (n + 1) + 1 :
               completed'[i] = completed[(n + 1) + i - 1]
      <4>1. completed' = SubSeq(completed, n + 1, Len(completed))
        BY <1>3
      <4>2. completed \in Seq([obj : Request, res : Nat])
        BY <2>1
      <4> QED
        BY <3>1, <4>1, <4>2, SubSeqIs
    <3>3. \A i \in 1 .. Len(completed) - n : (n + 1) + i - 1 = n + i
      BY <2>1, <2>2
    <3>4. Len(completed) - (n + 1) + 1 = Len(completed) - n
      BY <2>1, <2>2
    <3> QED
      BY <3>2, <3>3, <3>4
  <2>4. /\ aioTicket' \in [File -> AIOTicket]
        /\ aioTicket'[f].requestList = aioTicket[f].requestList
        /\ aioTicket'[f].numRequests = aioTicket[f].numRequests
        /\ aioTicket'[f].numEvents = aioTicket[f].numEvents + n
    <3> DEFINE list == [i \in TicketIndex |->
                          IF i < n THEN completed[i + 1] ELSE aioTicket[f].eventList[i]]
               ticket == [aioTicket[f] EXCEPT !.eventList = list, !.numEvents = @ + n]
    <3>1. aioTicket' = [aioTicket EXCEPT ![f] = ticket]
      BY <1>3
    <3>2. list \in [TicketIndex -> [obj : Request \union {NULL}, res : Nat]]
      <4> SUFFICES ASSUME NEW i \in TicketIndex
                   PROVE  list[i] \in [obj : Request \union {NULL}, res : Nat]
        OBVIOUS
      <4>1. CASE i < n
        <5>1. i + 1 \in 1 .. Len(completed)
          BY <2>1, <2>2, <4>1, AIOAssumption DEF TicketIndex
        <5>2. completed[i + 1] \in [obj : Request, res : Nat]
          BY <2>1, <5>1, ElementOfSeq
        <5> QED
          BY <4>1, <5>2
      <4>2. CASE ~(i < n)
        BY <2>1, <4>2 DEF AIOTicket
      <4> QED
        BY <4>1, <4>2
    <3>3. aioTicket[f].numEvents + n \in Nat
      BY <2>1, <2>2
    <3> HIDE DEF list
    <3>4. /\ ticket \in AIOTicket
          /\ ticket.requestList = aioTicket[f].requestList
          /\ ticket.numRequests = aioTicket[f].numRequests
          /\ ticket.numEvents = aioTicket[f].numEvents + n
      BY <2>1, <3>2, <3>3 DEF AIOTicket
    <3> HIDE DEF ticket
    <3> QED
      BY <2>1, <3>1, <3>4
  <2>5. Outstanding(f)' = Outstanding(f)
    BY <1>1, <2>4 DEF Outstanding, TicketRequests
  <2>6. TypeOK'
    BY <1>1, <2>3, <2>4 DEF IInv, TypeOK, AIOTypeOK
  <2>7. (AddressesKnown /\ PoolSplit)'
    BY <1>1, <2>5 DEF IInv, AddressesKnown, PoolSplit, PoolCounts
  <2>8. OwnedOnce'
    BY <1>1, <2>5 DEF IInv, OwnedOnce
  <2>9. \A i \in 1 .. Len(completed) - n : n + i \in 1 .. Len(completed)
    BY <2>1, <2>2
  <2>10. KernelOnce'
    <3>1. \A i, j \in 1 .. Len(completed) - n :
            completed[n + i].obj = completed[n + j].obj => i = j
      <4> SUFFICES ASSUME NEW i \in 1 .. Len(completed) - n,
                          NEW j \in 1 .. Len(completed) - n,
                          completed[n + i].obj = completed[n + j].obj
                   PROVE  i = j
        OBVIOUS
      <4>1. n + i = n + j
        BY <2>9 DEF IInv, KernelOnce
      <4> QED
        BY <2>1, <2>2, <4>1
    <3>2. \A i \in 1 .. Len(inflight), j \in 1 .. Len(completed) - n :
            inflight[i].obj # completed[n + j].obj
      BY <2>9 DEF IInv, KernelOnce
    <3>3. \A i, j \in 1 .. Len(inflight) : inflight[i].obj = inflight[j].obj => i = j
      BY DEF IInv, KernelOnce
    <3>4. /\ Len(completed') = Len(completed) - n /\ inflight' = inflight
          /\ \A i \in 1 .. Len(completed) - n : completed'[i] = completed[n + i]
      BY <1>1, <2>3
    <3>5. \A i, j \in 1 .. Len(completed') : completed'[i].obj = completed'[j].obj => i = j
      BY <3>1, <3>4
    <3>6. \A i \in 1 .. Len(inflight'), j \in 1 .. Len(completed') :
            inflight'[i].obj # completed'[j].obj
      BY <3>2, <3>4
    <3> QED
      BY <3>3, <3>4, <3>5, <3>6 DEF KernelOnce
  <2>11. KernelOwes'
    <3>1. \A i \in 1 .. Len(completed) - n :
            \E j \in 1 .. Len(Outstanding(f)) : completed[n + i].obj = Outstanding(f)[j]
      BY <2>9 DEF IInv, KernelOwes
    <3>2. \A i \in 1 .. Len(inflight) :
            \E j \in 1 .. Len(Outstanding(f)) : inflight[i].obj = Outstanding(f)[j]
      BY DEF IInv, KernelOwes
    <3>3. /\ Len(completed') = Len(completed) - n /\ inflight' = inflight
          /\ \A i \in 1 .. Len(completed) - n : completed'[i] = completed[n + i]
      BY <1>1, <2>3
    <3>4. \A i \in 1 .. Len(completed') :
            \E j \in 1 .. Len(Outstanding(f)) : completed'[i].obj = Outstanding(f)[j]
      BY <3>1, <3>3
    <3>5. \A i \in 1 .. Len(inflight') :
            \E j \in 1 .. Len(Outstanding(f)) : inflight'[i].obj = Outstanding(f)[j]
      BY <3>2, <3>3
    <3> DEFINE owed == Outstanding(f)
    <3>6. Outstanding(f)' = owed
      BY <2>5
    <3>7. /\ \A i \in 1 .. Len(inflight') :
               \E j \in 1 .. Len(owed) : inflight'[i].obj = owed[j]
          /\ \A i \in 1 .. Len(completed') :
               \E j \in 1 .. Len(owed) : completed'[i].obj = owed[j]
      BY <3>4, <3>5
    <3> HIDE DEF owed
    <3> QED
      BY <3>6, <3>7 DEF KernelOwes
  <2>12. TicketCounts'
    <3>1. aioTicket[f].numEvents + n + Len(inflight) + (Len(completed) - n)
            <= aioTicket[f].numRequests
      BY <2>1, <2>2
    <3>2. AllTaken => aioTicket[f].numEvents + n + Len(inflight) + (Len(completed) - n)
                        = aioTicket[f].numRequests
      <4>1. AllTaken => aioTicket[f].numEvents + Len(inflight) + Len(completed)
                          = aioTicket[f].numRequests
        BY <1>1 DEF IInv, TicketCounts
      <4> QED
        BY <2>1, <2>2, <4>1
    <3> QED
      BY <1>1, <2>3, <2>4, <3>1, <3>2 DEF TicketCounts
  <2>13. RequestsOfFiles'
    BY <1>1 DEF IInv, RequestsOfFiles
  <2> QED
    BY <2>6, <2>7, <2>8, <2>10, <2>11, <2>12, <2>13 DEF IInv
<1> QED
  BY <1>1, <1>2, <1>3 DEF getEvents

\* A ticket is cleaned up when the kernel owes nothing, so that the requests
\* that go back to the pool are with nobody else.
LEMMA CleanUpInv ==
  ASSUME NEW f, File = {f}, IInv, CleanUp(f)
  PROVE  IInv'
<1> DEFINE pool == aioRequestPool
           stack == aioRequestPool.structStack
           requests == TicketRequests(aioTicket[f])
<1>1. /\ phase[f] = "submitted"
      /\ aioTicket[f].numEvents >= aioTicket[f].numRequests
      /\ cleanUpAIOTicket(f)
      /\ phase' = [phase EXCEPT ![f] = "idle"]
      /\ UNCHANGED <<requestQueue, aioRequest, aioTicket, offset, inflight,
                     completed, memory>>
  BY DEF CleanUp
<1>2. /\ aioTicket[f].numEvents \in Nat /\ aioTicket[f].numRequests \in Nat
      /\ inflight \in Seq([obj : Request, req : RequestRecord])
      /\ completed \in Seq([obj : Request, res : Nat])
      /\ Len(inflight) \in Nat /\ Len(completed) \in Nat
      /\ aioTicket[f].numEvents + Len(inflight) + Len(completed)
           <= aioTicket[f].numRequests
  <2>1. /\ aioTicket \in [File -> AIOTicket]
        /\ completed \in Seq([obj : Request, res : Nat])
        /\ inflight \in Seq([obj : Request, req : RequestRecord])
        /\ aioTicket[f].numEvents + Len(inflight) + Len(completed)
             <= aioTicket[f].numRequests
    BY <1>1 DEF IInv, TypeOK, AIOTypeOK, TicketCounts
  <2>2. aioTicket[f] \in AIOTicket
    BY <2>1
  <2> QED
    BY <2>1, <2>2, LenProperties, AIOAssumption DEF AIOTicket
<1>3. /\ aioTicket[f].numEvents = aioTicket[f].numRequests
      /\ Len(inflight) = 0 /\ Len(completed) = 0
  BY <1>1, <1>2
<1>4. aioRequestPool' = Released(pool, requests)
  BY <1>1, <1>3 DEF cleanUpAIOTicket
<1>5. phase'[f] = "idle"
  BY <1>1 DEF IInv, TypeOK
<1>6. Outstanding(f) = requests /\ Outstanding(f)' = << >>
  BY <1>1, <1>5 DEF Outstanding
<1>7. /\ pool \in AIORequestPool
      /\ stack \in Seq(1 .. pool.numAlloc) /\ requests \in Seq(1 .. pool.numAlloc)
      /\ requestQueue \in Seq(1 .. pool.numAlloc)
      /\ Len(stack) \in Nat /\ Len(requests) \in Nat /\ Len(requestQueue) \in Nat
      /\ pool.numInUse + Len(stack) = pool.numAlloc
      /\ pool.numInUse = Len(requestQueue) + Len(requests)
  BY <1>6, LenProperties
     DEF IInv, TypeOK, AIOTypeOK, AddressesKnown, PoolSplit, PoolCounts
<1>8. pool.numAlloc \in 0 .. MaxRequests /\ pool.numInUse \in 0 .. MaxRequests
  BY <1>7 DEF AIORequestPool
<1>9. /\ Distinct(stack) /\ Distinct(requestQueue) /\ Distinct(requests)
      /\ Apart(stack, requestQueue) /\ Apart(stack, requests)
      /\ Apart(requestQueue, requests)
  BY <1>6 DEF IInv, OwnedOnce
<1> HIDE DEF requests
<1>10. /\ stack \o requests \in Seq(1 .. pool.numAlloc)
       /\ Len(stack \o requests) = Len(stack) + Len(requests)
  BY <1>7, ConcatProperties
<1>11. /\ aioRequestPool'.structStack = stack \o requests
       /\ aioRequestPool'.numAlloc = pool.numAlloc
       /\ aioRequestPool'.numInUse = pool.numInUse - Len(requests)
       /\ aioRequestPool' \in AIORequestPool
  <2>1. 1 .. pool.numAlloc \subseteq Request
    BY <1>8, AIOAssumption DEF Request
  <2>2. stack \o requests \in Seq(Request)
    BY <1>10, <2>1, SeqMonotonic
  <2>3. pool.numInUse - Len(requests) \in 0 .. MaxRequests
    <3>1. /\ pool.numInUse \in Int /\ Len(requests) \in Nat /\ Len(requestQueue) \in Nat
          /\ pool.numInUse = Len(requestQueue) + Len(requests)
          /\ pool.numInUse <= MaxRequests /\ MaxRequests \in Int
      <4>1. MaxRequests \in Nat
        BY AIOAssumption
      <4>2. pool.numInUse \in Int /\ pool.numInUse <= MaxRequests
        BY <1>8, <4>1
      <4> QED
        BY <1>7, <4>1, <4>2
    <3> HIDE DEF pool
    <3> QED
      BY <3>1
  <2>4. aioRequestPool' = [pool EXCEPT !.structStack = stack \o requests,
                                       !.numInUse = pool.numInUse - Len(requests)]
    BY <1>4 DEF Released
  <2> QED
    BY <1>7, <2>2, <2>3, <2>4 DEF AIORequestPool
<1>12. TypeOK'
  BY <1>1, <1>11 DEF IInv, TypeOK, AIOTypeOK, Phase
<1>13. AddressesKnown'
  BY <1>1, <1>6, <1>7, <1>10, <1>11, EmptySeq DEF AddressesKnown
<1>14. PoolSplit'
  <2>1. /\ (pool.numInUse - Len(requests)) + (Len(stack) + Len(requests)) = pool.numAlloc
        /\ pool.numInUse - Len(requests) = Len(requestQueue) + 0
    <3>1. /\ pool.numInUse \in Int /\ Len(requests) \in Nat /\ Len(requestQueue) \in Nat
          /\ Len(stack) \in Nat /\ pool.numAlloc = pool.numInUse + Len(stack)
          /\ pool.numInUse = Len(requestQueue) + Len(requests)
      <4>1. MaxRequests \in Nat
        BY AIOAssumption
      <4>2. pool.numInUse \in Int
        BY <1>8, <4>1
      <4> QED
        BY <1>7, <4>2
    <3> DEFINE used == pool.numInUse
               free == Len(stack)
               owed == Len(requests)
    <3>2. /\ used \in Int /\ owed \in Nat /\ Len(requestQueue) \in Nat /\ free \in Nat
          /\ pool.numAlloc = used + free
          /\ used = Len(requestQueue) + owed
      BY <3>1
    <3> HIDE DEF used, free, owed
    <3>3. (used - owed) + (free + owed) = pool.numAlloc /\ used - owed = Len(requestQueue) + 0
      BY <3>2
    <3> QED
      BY <3>3 DEF used, free, owed
  <2>2. Len(<< >>) = 0
    OBVIOUS
  <2> QED
    BY <1>1, <1>6, <1>10, <1>11, <2>1, <2>2 DEF PoolSplit, PoolCounts
<1>15. OwnedOnce'
  <2>1. Distinct(stack \o requests)
    BY <1>7, <1>9, ConcatDistinct
  <2>2. Apart(requests, requestQueue)
    BY <1>9 DEF Apart
  <2>3. Apart(stack \o requests, requestQueue)
    BY <1>7, <1>9, <2>2, ConcatApart
  <2>4. /\ Distinct(<< >>)
        /\ \A s : Apart(s, << >>)
    BY DEF Distinct, Apart
  <2> QED
    BY <1>1, <1>6, <1>9, <1>11, <2>1, <2>3, <2>4 DEF OwnedOnce
<1>16. (KernelOnce /\ KernelOwes)'
  BY <1>1, <1>2, <1>3 DEF KernelOnce, KernelOwes
<1>17. TicketCounts'
  BY <1>5 DEF TicketCounts
<1>18. RequestsOfFiles'
  BY <1>1, <1>11 DEF IInv, RequestsOfFiles
<1> QED
  BY <1>12, <1>13, <1>14, <1>15, <1>16, <1>17, <1>18 DEF IInv

\* What a request transfers is a number of sectors.
LEMMA TransferredIsNat ==
  ASSUME NEW req \in RequestRecord, req.fd \in File
  PROVE  Transferred(req) \in Nat
<1>1. /\ req.nbytes \in Nat /\ req.offset \in Nat /\ FileSize[req.fd] \in Nat
  BY AIOAssumption DEF RequestRecord
<1> DEFINE rest == FileSize[req.fd] - req.offset
<1>2. Min({req.nbytes, rest}) \in Int
  <2>1. req.nbytes \in Int /\ rest \in Int
    BY <1>1
  <2> HIDE DEF rest
  <2> QED
    BY <2>1, MinOfTwo
<1>3. Max({0, Min({req.nbytes, rest})}) \in Nat
  <2> DEFINE part == Min({req.nbytes, rest})
  <2>1. part \in Int
    BY <1>2
  <2> HIDE DEF part
  <2>2. Max({0, part}) \in Nat
    BY <2>1, MaxOfTwo
  <2> QED
    BY <2>2 DEF part
<1> QED
  BY <1>1, <1>3 DEF Transferred

\* A completion moves one request from the ones in flight to the events.
LEMMA KernelInv ==
  ASSUME NEW f, File = {f}, IInv, Kernel
  PROVE  IInv'
<1>1. PICK c \in 1 .. Len(inflight) : Complete(c)
  BY DEF Kernel, KernelNext
<1> DEFINE event == [obj |-> inflight[c].obj, res |-> Transferred(inflight[c].req)]
<1>2. /\ inflight' = RemoveAt(inflight, c)
      /\ completed' = Append(completed, event)
      /\ UNCHANGED <<requestQueue, aioRequestPool, aioRequest, aioTicket, offset, phase>>
  BY <1>1 DEF Complete, Kernel
<1>3. /\ inflight \in Seq([obj : Request, req : RequestRecord])
      /\ completed \in Seq([obj : Request, res : Nat])
      /\ Len(inflight) \in Nat /\ Len(completed) \in Nat
  BY LenProperties DEF IInv, TypeOK, AIOTypeOK
<1>4. event \in [obj : Request, res : Nat] /\ event.obj = inflight[c].obj
  <2>1. inflight[c] \in [obj : Request, req : RequestRecord]
    BY <1>3, ElementOfSeq
  <2>2. inflight[c].req.fd \in File
    BY DEF IInv, RequestsOfFiles
  <2> QED
    BY <2>1, <2>2, TransferredIsNat
<1> HIDE DEF event
<1>5. /\ completed' \in Seq([obj : Request, res : Nat])
      /\ Len(completed') = Len(completed) + 1
      /\ \A i \in 1 .. Len(completed) : completed'[i] = completed[i]
      /\ completed'[Len(completed) + 1] = event
  BY <1>2, <1>3, <1>4, AppendProperties
<1>6. /\ inflight' \in Seq([obj : Request, req : RequestRecord])
      /\ Len(inflight') = Len(inflight) - 1
      /\ \A i \in 1 .. Len(inflight) - 1 :
           inflight'[i] = IF i < c THEN inflight[i] ELSE inflight[i + 1]
  BY <1>2, <1>3, RemoveAtIs
<1> DEFINE from(i) == IF i < c THEN i ELSE i + 1
<1>7. /\ \A i \in 1 .. Len(inflight') :
           from(i) \in 1 .. Len(inflight) /\ from(i) # c /\ inflight'[i] = inflight[from(i)]
      /\ \A i, j \in 1 .. Len(inflight') : from(i) = from(j) => i = j
  BY <1>3, <1>6
<1> HIDE DEF from
<1>8. \A i \in 1 .. Len(completed') :
        \/ i \in 1 .. Len(completed) /\ completed'[i] = completed[i]
        \/ i = Len(completed) + 1 /\ completed'[i] = event
  BY <1>3, <1>5
<1>9. Outstanding(f)' = Outstanding(f)
  BY <1>2 DEF Outstanding
<1>10. TypeOK'
  BY <1>2, <1>5, <1>6 DEF IInv, TypeOK, AIOTypeOK
<1>11. (AddressesKnown /\ PoolSplit)'
  BY <1>2, <1>9 DEF IInv, AddressesKnown, PoolSplit, PoolCounts
<1>12. OwnedOnce'
  BY <1>2, <1>9 DEF IInv, OwnedOnce
<1>13. KernelOnce'
  <2>1. \A i, j \in 1 .. Len(inflight') : inflight'[i].obj = inflight'[j].obj => i = j
    BY <1>7 DEF IInv, KernelOnce
  <2>2. \A i, j \in 1 .. Len(completed') : completed'[i].obj = completed'[j].obj => i = j
    <3>1. \A i \in 1 .. Len(completed) : completed[i].obj # event.obj
      BY <1>4 DEF IInv, KernelOnce
    <3>2. \A i, j \in 1 .. Len(completed) : completed[i].obj = completed[j].obj => i = j
      BY DEF IInv, KernelOnce
    <3> SUFFICES ASSUME NEW i \in 1 .. Len(completed'), NEW j \in 1 .. Len(completed'),
                        completed'[i].obj = completed'[j].obj
                 PROVE  i = j
      OBVIOUS
    <3> QED
      BY <1>8, <3>1, <3>2
  <2>3. \A i \in 1 .. Len(inflight'), j \in 1 .. Len(completed') :
          inflight'[i].obj # completed'[j].obj
    <3> SUFFICES ASSUME NEW i \in 1 .. Len(inflight'), NEW j \in 1 .. Len(completed')
                 PROVE  inflight'[i].obj # completed'[j].obj
      OBVIOUS
    <3>1. /\ from(i) \in 1 .. Len(inflight) /\ from(i) # c
          /\ inflight'[i].obj = inflight[from(i)].obj
      BY <1>7
    <3>2. CASE j \in 1 .. Len(completed) /\ completed'[j] = completed[j]
      BY <3>1, <3>2 DEF IInv, KernelOnce
    <3>3. CASE completed'[j] = event
      <4>1. inflight[from(i)].obj # inflight[c].obj
        BY <3>1 DEF IInv, KernelOnce
      <4> QED
        BY <1>4, <3>1, <3>3, <4>1
    <3> QED
      BY <1>8, <3>2, <3>3
  <2> QED
    BY <2>1, <2>2, <2>3 DEF KernelOnce
<1>14. KernelOwes'
  <2> DEFINE owed == Outstanding(f)
  <2>1. /\ \A i \in 1 .. Len(inflight) :
             \E j \in 1 .. Len(owed) : inflight[i].obj = owed[j]
        /\ \A i \in 1 .. Len(completed) :
             \E j \in 1 .. Len(owed) : completed[i].obj = owed[j]
    BY DEF IInv, KernelOwes
  <2>2. Outstanding(f)' = owed
    BY <1>9
  <2> HIDE DEF owed
  <2>3. \A i \in 1 .. Len(inflight') : \E j \in 1 .. Len(owed) : inflight'[i].obj = owed[j]
    <3> SUFFICES ASSUME NEW i \in 1 .. Len(inflight')
                 PROVE  \E j \in 1 .. Len(owed) : inflight'[i].obj = owed[j]
      OBVIOUS
    <3>1. from(i) \in 1 .. Len(inflight) /\ inflight'[i] = inflight[from(i)]
      BY <1>7
    <3>2. PICK j \in 1 .. Len(owed) : inflight[from(i)].obj = owed[j]
      BY <2>1, <3>1
    <3> QED
      BY <3>1, <3>2
  <2>4. \A i \in 1 .. Len(completed') : \E j \in 1 .. Len(owed) : completed'[i].obj = owed[j]
    BY <1>4, <1>8, <2>1
  <2> QED
    BY <2>2, <2>3, <2>4 DEF KernelOwes
<1>15. TicketCounts'
  <2>1. Len(inflight') + Len(completed') = Len(inflight) + Len(completed)
    BY <1>3, <1>5, <1>6
  <2>2. ASSUME phase[f] = "submitted"
        PROVE  /\ aioTicket[f].numEvents + Len(inflight') + Len(completed')
                    <= aioTicket[f].numRequests
               /\ AllTaken => aioTicket[f].numEvents + Len(inflight') + Len(completed')
                                = aioTicket[f].numRequests
    <3>1. aioTicket[f].numEvents \in Nat
      BY AIOAssumption DEF IInv, TypeOK, AIOTypeOK, AIOTicket
    <3>2. /\ aioTicket[f].numEvents + Len(inflight) + Len(completed)
               <= aioTicket[f].numRequests
          /\ AllTaken => aioTicket[f].numEvents + Len(inflight) + Len(completed)
                           = aioTicket[f].numRequests
      BY <2>2 DEF IInv, TicketCounts
    <3> QED
      BY <1>3, <1>5, <1>6, <3>1, <3>2
  <2> QED
    BY <1>2, <2>2 DEF IInv, TicketCounts
<1>16. RequestsOfFiles'
  BY <1>2, <1>7 DEF IInv, RequestsOfFiles
<1> QED
  BY <1>10, <1>11, <1>12, <1>13, <1>14, <1>15, <1>16 DEF IInv

\* Every step preserves the inductive invariant.
LEMMA NextInv ==
  ASSUME NEW f, File = {f}, IInv, [Next]_vars
  PROVE  IInv'
<1>1. CASE \E g \in File : Begin(g)
  BY <1>1, BeginInv
<1>2. CASE \E g \in File : Rewind(g)
  BY <1>2, RewindInv
<1>3. CASE \E g \in File : Submit(g)
  BY <1>3, SubmitInv
<1>4. CASE \E g \in File : GetEvents(g)
  BY <1>4, GetEventsInv
<1>5. CASE \E g \in File : CleanUp(g)
  BY <1>5, CleanUpInv
<1>6. CASE \E g \in File, p \in Page : Queue(g, p)
  BY <1>6, QueueInv
<1>7. CASE Kernel
  BY <1>7, KernelInv
<1>8. CASE UNCHANGED vars
  BY <1>8, StutterInv
<1> QED
  BY <1>1, <1>2, <1>3, <1>4, <1>5, <1>6, <1>7, <1>8 DEF Next

-------------------------------------------------------------------------------
(* The theorems.                                                           *)

\* A sequence without repetitions is injective.
LEMMA DistinctIsInjective ==
  ASSUME NEW S, NEW s \in Seq(S), Distinct(s)
  PROVE  IsInjective(s)
<1>1. DOMAIN s = 1 .. Len(s)
  BY LenProperties
<1> QED
  BY <1>1 DEF Distinct, IsInjective

\* What the kernel has, in flight and in the completion ring.
LEMMA InKernelIs ==
  ASSUME IInv
  PROVE  /\ InKernel \in Seq(Request)
         /\ Len(InKernel) = Len(inflight) + Len(completed)
         /\ Distinct(InKernel)
         /\ \A i \in 1 .. Len(InKernel) :
              \/ \E j \in 1 .. Len(inflight) : InKernel[i] = inflight[j].obj
              \/ \E j \in 1 .. Len(completed) : InKernel[i] = completed[j].obj
         /\ \A j \in 1 .. Len(inflight) :
              \E i \in 1 .. Len(InKernel) : InKernel[i] = inflight[j].obj
         /\ \A j \in 1 .. Len(completed) :
              \E i \in 1 .. Len(InKernel) : InKernel[i] = completed[j].obj
<1> DEFINE flying == [i \in 1 .. Len(inflight) |-> inflight[i].obj]
           arrived == [i \in 1 .. Len(completed) |-> completed[i].obj]
<1>1. /\ inflight \in Seq([obj : Request, req : RequestRecord])
      /\ completed \in Seq([obj : Request, res : Nat])
      /\ Len(inflight) \in Nat /\ Len(completed) \in Nat
  BY LenProperties DEF IInv, TypeOK, AIOTypeOK
<1>2. /\ flying \in Seq(Request) /\ Len(flying) = Len(inflight)
      /\ \A i \in 1 .. Len(inflight) : flying[i] = inflight[i].obj
  <2>1. ASSUME NEW i \in 1 .. Len(inflight)
        PROVE  inflight[i].obj \in Request
    <3>1. inflight[i] \in [obj : Request, req : RequestRecord]
      BY <1>1, ElementOfSeq
    <3> QED
      BY <3>1
  <2>2. flying \in [1 .. Len(inflight) -> Request]
    BY <2>1
  <2>3. flying \in Seq(Request)
    BY <1>1, <2>2, SeqDef
  <2> QED
    BY <1>1, <2>2, <2>3, LenProperties
<1>3. /\ arrived \in Seq(Request) /\ Len(arrived) = Len(completed)
      /\ \A i \in 1 .. Len(completed) : arrived[i] = completed[i].obj
  <2>1. ASSUME NEW i \in 1 .. Len(completed)
        PROVE  completed[i].obj \in Request
    <3>1. completed[i] \in [obj : Request, res : Nat]
      BY <1>1, ElementOfSeq
    <3> QED
      BY <3>1
  <2>2. arrived \in [1 .. Len(completed) -> Request]
    BY <2>1
  <2>3. arrived \in Seq(Request)
    BY <1>1, <2>2, SeqDef
  <2> QED
    BY <1>1, <2>2, <2>3, LenProperties
<1>4. InKernel = flying \o arrived
  BY DEF InKernel
<1> HIDE DEF flying, arrived
<1>5. Distinct(flying) /\ Distinct(arrived) /\ Apart(flying, arrived)
  BY <1>2, <1>3 DEF IInv, KernelOnce, Distinct, Apart
<1>6. /\ flying \o arrived \in Seq(Request)
      /\ Len(flying \o arrived) = Len(flying) + Len(arrived)
      /\ \A i \in 1 .. Len(flying) + Len(arrived) :
           (flying \o arrived)[i] =
             IF i <= Len(flying) THEN flying[i] ELSE arrived[i - Len(flying)]
  <2>1. flying \in Seq(Request) /\ arrived \in Seq(Request)
    BY <1>2, <1>3
  <2> QED
    BY <2>1, ConcatProperties
<1>7. ASSUME NEW i \in 1 .. Len(InKernel)
      PROVE  \/ \E j \in 1 .. Len(inflight) : InKernel[i] = inflight[j].obj
             \/ \E j \in 1 .. Len(completed) : InKernel[i] = completed[j].obj
  <2>1. /\ i \in 1 .. Len(inflight) + Len(completed)
        /\ InKernel[i] = IF i <= Len(inflight) THEN flying[i]
                         ELSE arrived[i - Len(inflight)]
    BY <1>2, <1>3, <1>4, <1>6
  <2>2. CASE i <= Len(inflight)
    <3>1. i \in 1 .. Len(inflight)
      BY <1>1, <2>1, <2>2
    <3> QED
      BY <1>2, <2>1, <2>2, <3>1
  <2>3. CASE ~(i <= Len(inflight))
    <3>1. i - Len(inflight) \in 1 .. Len(completed)
      BY <1>1, <2>1, <2>3
    <3> QED
      BY <1>3, <2>1, <2>3, <3>1
  <2> QED
    BY <2>2, <2>3
<1>8. Distinct(InKernel)
  BY <1>2, <1>3, <1>4, <1>5, ConcatDistinct
<1>9. ASSUME NEW j \in 1 .. Len(inflight)
      PROVE  \E i \in 1 .. Len(InKernel) : InKernel[i] = inflight[j].obj
  <2>1. j \in 1 .. Len(flying) + Len(arrived) /\ j <= Len(flying)
    BY <1>1, <1>2, <1>3
  <2>2. j \in 1 .. Len(InKernel) /\ InKernel[j] = inflight[j].obj
    BY <1>2, <1>4, <1>6, <2>1
  <2> QED
    BY <2>2
<1>10. ASSUME NEW j \in 1 .. Len(completed)
       PROVE  \E i \in 1 .. Len(InKernel) : InKernel[i] = completed[j].obj
  <2> DEFINE i == Len(flying) + j
  <2>1. /\ i \in 1 .. Len(flying) + Len(arrived)
        /\ ~ (i <= Len(flying)) /\ i - Len(flying) = j
    BY <1>1, <1>2, <1>3
  <2>2. i \in 1 .. Len(InKernel) /\ InKernel[i] = completed[j].obj
    BY <1>3, <1>4, <1>6, <2>1
  <2> QED
    BY <2>2
<1> QED
  BY <1>2, <1>3, <1>4, <1>6, <1>7, <1>8, <1>9, <1>10

\* The invariant keeps every AIORequest in one place.
LEMMA InOnePlace ==
  ASSUME NEW f, File = {f}, IInv
  PROVE  RequestInOnePlace
<1> DEFINE stack == aioRequestPool.structStack
<1>1. /\ stack \in Seq(Request) /\ requestQueue \in Seq(Request)
      /\ InKernel \in Seq(Request)
  BY InKernelIs DEF IInv, TypeOK, AIOTypeOK, AIORequestPool
<1>2. Distinct(stack) /\ Distinct(requestQueue) /\ Apart(stack, requestQueue)
  BY DEF IInv, OwnedOnce
<1>3. ASSUME NEW i \in 1 .. Len(InKernel)
      PROVE  \E j \in 1 .. Len(Outstanding(f)) : InKernel[i] = Outstanding(f)[j]
  <2>1. \/ \E j \in 1 .. Len(inflight) : InKernel[i] = inflight[j].obj
        \/ \E j \in 1 .. Len(completed) : InKernel[i] = completed[j].obj
    BY InKernelIs
  <2> QED
    BY <2>1 DEF IInv, KernelOwes
<1>4. /\ Apart(stack, Outstanding(f))
      /\ Apart(requestQueue, Outstanding(f))
  BY DEF IInv, OwnedOnce
<1>5. Apart(stack, InKernel) /\ Apart(requestQueue, InKernel)
  BY <1>3, <1>4 DEF Apart
<1>6. /\ stack \o requestQueue \in Seq(Request)
      /\ Distinct(stack \o requestQueue)
      /\ Apart(stack \o requestQueue, InKernel)
  BY <1>1, <1>2, <1>5, ConcatDistinct, ConcatApart, ConcatProperties
<1>7. /\ (stack \o requestQueue) \o InKernel \in Seq(Request)
      /\ Distinct((stack \o requestQueue) \o InKernel)
  BY <1>1, <1>6, InKernelIs, ConcatDistinct, ConcatProperties
<1> QED
  BY <1>7, DistinctIsInjective DEF RequestInOnePlace

\* One AIOFile on its context: over every fault an AIORequest is free, queued or
\* with the kernel, and the pool's counters say how many it handed out
\* (async.c:85-107, 220-226, 340-372).
THEOREM RequestsAccountedTheorem ==
  ASSUME OneFile
  PROVE  Spec => []RequestsAccounted
<1> PICK f : File = {f}
  BY DEF OneFile
<1>1. Init => IInv
  BY InitInv
<1>2. IInv /\ [Next]_vars => IInv'
  BY NextInv
<1>3. IInv => RequestsAccounted
  BY InOnePlace DEF IInv, RequestsAccounted, PoolSplit
<1> QED
  BY <1>1, <1>2, <1>3, PTL DEF Spec

\* One AIOFile on its context: whatever part of a list io_submit takes, a request
\* goes back to the pool only when the kernel is done with it (async.c:221).
THEOREM NothingRecycledTooSoonTheorem ==
  ASSUME OneFile
  PROVE  Spec => []NothingRecycledTooSoon
<1> PICK f : File = {f}
  BY DEF OneFile
<1>1. Init => IInv
  BY InitInv
<1>2. IInv /\ [Next]_vars => IInv'
  BY NextInv
<1>3. IInv => TicketNeverOverpaid
  <2> SUFFICES ASSUME IInv, phase[f] = "submitted"
               PROVE  aioTicket[f].numEvents + Len(InKernel) <= aioTicket[f].numRequests
    BY DEF TicketNeverOverpaid
  <2>1. aioTicket[f].numEvents \in Nat /\ Len(inflight) \in Nat /\ Len(completed) \in Nat
    BY LenProperties DEF IInv, TypeOK, AIOTypeOK, AIOTicket
  <2>2. aioTicket[f].numEvents + Len(inflight) + Len(completed)
          <= aioTicket[f].numRequests
    BY DEF IInv, TicketCounts
  <2>3. Len(InKernel) = Len(inflight) + Len(completed)
    BY InKernelIs
  <2> QED
    BY <2>1, <2>2, <2>3
<1>4. IInv => NothingRecycledTooSoon
  BY <1>3, InOnePlace DEF NothingRecycledTooSoon
<1> QED
  BY <1>1, <1>2, <1>4, PTL DEF Spec

\* One AIOFile on its context, and io_submit takes its whole list: what a ticket has
\* not received is with the kernel (async.c:362, 392).
THEOREM TicketMatchesKernelTheorem ==
  ASSUME OneFile, AllTaken
  PROVE  Spec => []TicketMatchesKernel
<1> PICK f : File = {f}
  BY DEF OneFile
<1>1. Init => IInv
  BY InitInv
<1>2. IInv /\ [Next]_vars => IInv'
  BY NextInv
<1>3. IInv => TicketMatchesKernel
  <2> SUFFICES ASSUME IInv, phase[f] = "submitted"
               PROVE  aioTicket[f].numEvents + Len(InKernel) = aioTicket[f].numRequests
    BY DEF TicketMatchesKernel
  <2>1. aioTicket[f].numEvents \in Nat /\ Len(inflight) \in Nat /\ Len(completed) \in Nat
    BY LenProperties DEF IInv, TypeOK, AIOTypeOK, AIOTicket
  <2>2. aioTicket[f].numEvents + Len(inflight) + Len(completed)
          = aioTicket[f].numRequests
    BY AllTaken DEF IInv, TicketCounts
  <2>3. Len(InKernel) = Len(inflight) + Len(completed)
    BY InKernelIs
  <2> QED
    BY <2>1, <2>2, <2>3
<1> QED
  BY <1>1, <1>2, <1>3, PTL DEF Spec
===============================================================================
