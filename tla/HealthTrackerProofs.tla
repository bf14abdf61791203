-------------------------- MODULE HealthTrackerProofs --------------------------
(***************************************************************************)
(* TLAPS proofs about the health tracker's gauges.  HealthTracker: the     *)
(* error rate is exact and a burst is counted once, for every window,      *)
(* threshold, number of tools and length of session.  TestLoop: the streak *)
(* of failures is exact for any suite and any number of overlapping test   *)
(* runs.                                                                   *)
(***************************************************************************)
EXTENDS HealthTracker, TestLoop, FiniteSetTheorems, TLAPS

--------------------------------------------------------------------------------
(* The error rate.  ErrorRateIsExact is about the last calls; the tracker  *)
(* only has a ring, a write index and a running count.  The inductive      *)
(* invariant ties both: the count is that of the errors in the slots in    *)
(* use, and slot by slot those hold the last outcomes.                     *)

\* The slots that hold an outcome, and those that hold an error.
Size   == IF errBufFull THEN ErrorRateWindow ELSE errBufIdx
Filled == IF errBufFull THEN Slots ELSE 0 .. errBufIdx - 1
Errors == {i \in Filled : ~errBuf[i]}

\* Where the j-th oldest outcome is: the ring starts at the write index once
\* it is full, at slot 0 before.
SlotOf(j) ==
    IF ~errBufFull THEN j - 1
    ELSE IF errBufIdx + j - 1 < ErrorRateWindow THEN errBufIdx + j - 1
    ELSE errBufIdx + j - 1 - ErrorRateWindow

ErrType ==
    /\ errBuf \in [Slots -> BOOLEAN]
    /\ errBufIdx \in Slots
    /\ errBufFull \in BOOLEAN
    /\ errCount \in Nat
    /\ recent \in Seq(BOOLEAN)

RingHoldsRecent ==
    /\ Len(recent) = Size
    /\ \A j \in 1 .. Len(recent) : recent[j] = errBuf[SlotOf(j)]

CountMatchesRing == errCount = Cardinality(Errors)

IInv ==
    /\ ErrType
    /\ RingHoldsRecent
    /\ CountMatchesRing
    /\ errorRate = <<errCount, Size>>

--------------------------------------------------------------------------------
\* There are finitely many error slots.
LEMMA ErrorsFinite == ASSUME ErrType PROVE IsFiniteSet(Errors) /\ Cardinality(Errors) \in Nat
<1>1. Errors \subseteq 0 .. ErrorRateWindow - 1
  BY ConfigAssumption DEF Errors, Filled, Slots, ErrType
<1>2. IsFiniteSet(0 .. ErrorRateWindow - 1)
  BY FS_Interval, ConfigAssumption
<1>. QED  BY <1>1, <1>2, FS_Subset, FS_CardinalityType

\* The invariant holds initially: the ring is empty.
LEMMA InitIInv == Init => IInv
<1>. SUFFICES ASSUME Init PROVE IInv  OBVIOUS
<1>1. ErrType
  <2>1. errBuf \in [Slots -> BOOLEAN] /\ errBufFull \in BOOLEAN
    BY Zenon DEF Init
  <2>2. errBufIdx \in Slots /\ errCount \in Nat /\ recent \in Seq(BOOLEAN)
    BY ConfigAssumption DEF Init, Slots
  <2>. QED  BY <2>1, <2>2 DEF ErrType
<1>2. Errors = {}  BY DEF Init, Errors, Filled
<1>3. RingHoldsRecent  BY DEF Init, RingHoldsRecent, Size
<1>. QED
  BY <1>1, <1>2, <1>3, FS_EmptySet DEF IInv, CountMatchesRing, Init, Size

\* The write index moves on by one and starts again at 0.
LEMMA NextIndex ==
    ASSUME NEW i \in Slots
    PROVE  (i + 1) % ErrorRateWindow = IF i + 1 = ErrorRateWindow THEN 0 ELSE i + 1
BY ConfigAssumption DEF Slots

\* Writing one outcome keeps the ring, the history and the count together.
LEMMA OutcomeIInv == ASSUME IInv, NEW ok \in BOOLEAN, recordErrorOutcome(ok) PROVE IInv'
<1>w. ErrorRateWindow \in Nat \ {0}  BY ConfigAssumption
<1>. USE <1>w
<1>t. ErrType  BY DEF IInv
<1>idx. errBufIdx' = IF errBufIdx + 1 = ErrorRateWindow THEN 0 ELSE errBufIdx + 1
  BY <1>t, NextIndex DEF ErrType, recordErrorOutcome
<1>full. errBufFull' \in BOOLEAN /\ (errBufFull' <=> errBufFull \/ errBufIdx' = 0)
  BY DEF recordErrorOutcome
<1>buf. /\ errBuf' \in [Slots -> BOOLEAN]
        /\ errBuf'[errBufIdx] = ok
        /\ \A i \in Slots \ {errBufIdx} : errBuf'[i] = errBuf[i]
  BY <1>t DEF ErrType, recordErrorOutcome
<1>cnt. errCount' = CountAfter(ok)  BY DEF recordErrorOutcome
<1>rec. recent' = Remember(ok)  BY DEF recordErrorOutcome
<1>1. RingHoldsRecent /\ errCount = Cardinality(Errors)  BY DEF IInv, CountMatchesRing
<1>2. errCount' = Cardinality(Errors') /\ errCount' \in Nat
  <2>. DEFINE Kept == Errors \ {errBufIdx}
  <2>1. IsFiniteSet(Errors) /\ Cardinality(Errors) \in Nat  BY <1>t, ErrorsFinite
  <2>2. errBufIdx \in Errors <=> errBufFull /\ ~errBuf[errBufIdx]
    BY <1>t DEF Errors, Filled, ErrType, Slots
  <2>3. /\ IsFiniteSet(Kept)
        /\ Cardinality(Kept) = Cardinality(Errors) - (IF errBufFull /\ ~errBuf[errBufIdx] THEN 1 ELSE 0)
    <3>1. CASE errBufIdx \in Errors  BY <3>1, <2>1, <2>2, FS_RemoveElement
    <3>2. CASE errBufIdx \notin Errors
      <4>1. Kept = Errors  BY <3>2
      <4>2. IsFiniteSet(Kept) /\ Cardinality(Kept) = Cardinality(Errors)  BY <4>1, <2>1, Zenon
      <4>. HIDE DEF Kept
      <4>. QED  BY <4>2, <3>2, <2>1, <2>2
    <3>. QED  BY <3>1, <3>2
  <2>4. Errors' = IF ok THEN Kept ELSE Kept \cup {errBufIdx}
    <3>1. Filled' = Filled \cup {errBufIdx}
      <4>1. CASE errBufFull
        BY <4>1, <1>t, <1>full DEF Filled, Slots, ErrType
      <4>2. CASE ~errBufFull /\ errBufIdx + 1 = ErrorRateWindow
        BY <4>2, <1>t, <1>full, <1>idx DEF Filled, Slots, ErrType
      <4>3. CASE ~errBufFull /\ errBufIdx + 1 # ErrorRateWindow
        BY <4>3, <1>t, <1>full, <1>idx DEF Filled, Slots, ErrType
      <4>. QED  BY <4>1, <4>2, <4>3
    <3>2. Filled \subseteq Slots  BY <1>t DEF Filled, Slots, ErrType
    <3>3. errBufIdx \in Slots  BY <1>t DEF ErrType
    <3>. QED  BY <3>1, <3>2, <3>3, <1>buf DEF Errors
  <2>5. errBufIdx \notin Kept  OBVIOUS
  <2>6. Cardinality(Kept \cup {errBufIdx}) = Cardinality(Kept) + 1
    BY <2>3, <2>5, FS_AddElement
  <2>7. Cardinality(Kept) \in Nat  BY <2>3, FS_CardinalityType
  <2>. HIDE DEF Kept
  <2>. QED  BY <1>cnt, <1>1, <2>1, <2>3, <2>4, <2>6, <2>7 DEF CountAfter
<1>3. /\ recent' \in Seq(BOOLEAN)
      /\ Len(recent') = IF Len(recent) = ErrorRateWindow THEN Len(recent) ELSE Len(recent) + 1
      /\ \A j \in 1 .. Len(recent') :
            recent'[j] = IF j = Len(recent') THEN ok
                         ELSE IF Len(recent) = ErrorRateWindow THEN recent[j + 1] ELSE recent[j]
  <2>1. Len(recent) \in 0 .. ErrorRateWindow
    BY <1>1, <1>t DEF RingHoldsRecent, Size, ErrType, Slots
  <2>. DEFINE all == Append(recent, ok)
  <2>2. all \in Seq(BOOLEAN) /\ Len(all) = Len(recent) + 1
    BY <1>t DEF ErrType
  <2>3. \A j \in 1 .. Len(recent) + 1 : all[j] = IF j = Len(recent) + 1 THEN ok ELSE recent[j]
    BY <1>t DEF ErrType
  <2>4. recent' = IF Len(all) > ErrorRateWindow THEN Tail(all) ELSE all
    BY <1>rec DEF Remember
  <2>5. /\ Tail(all) \in Seq(BOOLEAN) /\ Len(Tail(all)) = Len(recent)
        /\ \A j \in 1 .. Len(recent) : Tail(all)[j] = all[j + 1]
    BY <2>2, <1>t DEF ErrType
  <2>. HIDE DEF all
  <2>6. CASE Len(recent) = ErrorRateWindow
    <3>1. recent' = Tail(all)  BY <2>6, <2>2, <2>4
    <3>. QED  BY <3>1, <2>6, <2>1, <2>3, <2>5
  <2>7. CASE Len(recent) # ErrorRateWindow
    <3>1. recent' = all  BY <2>7, <2>1, <2>2, <2>4
    <3>. QED  BY <3>1, <2>7, <2>1, <2>2, <2>3
  <2>. QED  BY <2>6, <2>7
<1>4. RingHoldsRecent'
  <2>1. Len(recent') = Size'
    BY <1>1, <1>3, <1>t, <1>idx, <1>full DEF RingHoldsRecent, Size, ErrType, Slots
  <2>2. ASSUME NEW j \in 1 .. Len(recent') PROVE recent'[j] = errBuf'[SlotOf(j)']
    <3>1. CASE j = Len(recent')
      <4>1. SlotOf(j)' = errBufIdx
        BY <3>1, <2>1, <1>t, <1>idx, <1>full DEF Size, SlotOf, ErrType, Slots
      <4>. QED  BY <4>1, <3>1, <1>3, <1>buf
    <3>2. CASE j # Len(recent')
      <4>. DEFINE k == IF Len(recent) = ErrorRateWindow THEN j + 1 ELSE j
      <4>1. k \in 1 .. Len(recent) /\ recent'[j] = recent[k]
        BY <3>2, <1>3, <1>t DEF ErrType
      <4>2. Len(recent) = Size  BY <1>1 DEF RingHoldsRecent
      <4>3. SlotOf(j)' = SlotOf(k) /\ SlotOf(k) \in Slots \ {errBufIdx}
        <5>1. CASE errBufFull
          BY <5>1, <3>2, <4>1, <4>2, <2>1, <1>t, <1>idx, <1>full DEF Size, SlotOf, ErrType, Slots
        <5>2. CASE ~errBufFull
          BY <5>2, <3>2, <4>1, <4>2, <2>1, <1>t, <1>idx, <1>full DEF Size, SlotOf, ErrType, Slots
        <5>. QED  BY <5>1, <5>2
      <4>. HIDE DEF k
      <4>4. recent[k] = errBuf[SlotOf(k)]  BY <4>1, <1>1 DEF RingHoldsRecent
      <4>. QED  BY <4>1, <4>3, <4>4, <1>buf
    <3>. QED  BY <3>1, <3>2
  <2>. QED  BY <2>1, <2>2 DEF RingHoldsRecent
<1>5. ErrType'
  BY <1>2, <1>3, <1>buf, <1>full, <1>idx, <1>t DEF ErrType, Slots
<1>6. errorRate' = <<errCount', Size'>>
  BY DEF recordErrorOutcome, SizeAfter, Size
<1>. QED  BY <1>2, <1>4, <1>5, <1>6 DEF IInv, CountMatchesRing

\* Every step keeps the invariant; only an observed call touches the ring.
LEMMA StepIInv == IInv /\ [Next]_vars => IInv'
<1>. SUFFICES ASSUME IInv, [Next]_vars PROVE IInv'  OBVIOUS
<1>1. ASSUME NEW t \in Tools, NEW ok \in BOOLEAN, NEW h \in Hashes \cup {NoHash},
             Observe(t, ok, h)
      PROVE  IInv'
  BY <1>1, OutcomeIInv DEF Observe
<1>2. ASSUME UNCHANGED errVars PROVE IInv'
  BY <1>2 DEF errVars, IInv, ErrType, RingHoldsRecent, CountMatchesRing, Size, Errors, Filled, SlotOf
<1>3. CASE Tick  BY <1>3, <1>2 DEF Tick
<1>4. CASE UNCHANGED vars  BY <1>4, <1>2 DEF vars
<1>. QED  BY <1>1, <1>3, <1>4 DEF Next

\* Counting the failed calls of the history is counting the error slots: the
\* slots are a renumbering of the positions.
LEMMA CountsAgree ==
    ASSUME ErrType, RingHoldsRecent
    PROVE  Cardinality({j \in 1 .. Len(recent) : ~recent[j]}) = Cardinality(Errors)
<1>w. ErrorRateWindow \in Nat \ {0}  BY ConfigAssumption
<1>. USE <1>w
<1>. DEFINE Bad == {j \in 1 .. Len(recent) : ~recent[j]}
            f == [j \in Bad |-> SlotOf(j)]
<1>1. Len(recent) = Size  BY DEF RingHoldsRecent
<1>2. \A j \in 1 .. Len(recent) : SlotOf(j) \in Filled
  BY <1>1 DEF ErrType, SlotOf, Size, Filled, Slots
<1>3. \A j \in Bad : SlotOf(j) \in Errors
  BY <1>2 DEF RingHoldsRecent, Errors
<1>4. f \in [Bad -> Errors]  BY <1>3
<1>5. \A j, k \in Bad : f[j] = f[k] => j = k
  <2>1. \A j, k \in 1 .. Len(recent) : SlotOf(j) = SlotOf(k) => j = k
    BY <1>1 DEF ErrType, SlotOf, Size, Slots
  <2>. QED  BY <2>1
<1>6. \A i \in Errors : \E j \in Bad : f[j] = i
  <2>. SUFFICES ASSUME NEW i \in Errors PROVE \E j \in Bad : SlotOf(j) = i  OBVIOUS
  <2>. DEFINE j == IF ~errBufFull THEN i + 1
                   ELSE IF i >= errBufIdx THEN i - errBufIdx + 1
                   ELSE i - errBufIdx + 1 + ErrorRateWindow
  <2>1. i \in Filled /\ ~errBuf[i]  BY DEF Errors
  <2>2. j \in 1 .. Len(recent) /\ SlotOf(j) = i
    BY <1>1, <2>1 DEF ErrType, SlotOf, Size, Filled, Slots
  <2>. HIDE DEF j
  <2>3. ~recent[j]  BY <2>1, <2>2 DEF RingHoldsRecent
  <2>. QED  BY <2>2, <2>3
<1>7. IsFiniteSet(Errors)  BY ErrorsFinite
<1>8. f \in Bijection(Bad, Errors)
  BY <1>4, <1>5, <1>6 DEF Bijection, Injection, Surjection, IsInjective
<1>9. IsFiniteSet(Bad)
  <2>1. IsFiniteSet(1 .. Len(recent))  BY FS_Interval DEF ErrType
  <2>. QED  BY <2>1, FS_Subset
<1>. HIDE DEF Bad, f
<1>10. Cardinality(Bad) = Cardinality(Errors)
  BY <1>7, <1>8, <1>9, FS_Bijection DEF ExistsBijection
<1>. QED  BY <1>10 DEF Bad

\* The gauge Observe publishes is the exact error share of the last
\* ErrorRateWindow calls, whatever the window and the session
\* (tracker.go recordErrorOutcome).
THEOREM GaugeIsExact == Spec => []ErrorRateIsExact
<1>1. IInv => ErrorRateIsExact
  BY CountsAgree DEF IInv, ErrorRateIsExact, CountMatchesRing, RingHoldsRecent
<1>. QED  BY <1>1, InitIInv, StepIInv, PTL DEF Spec

--------------------------------------------------------------------------------
(* Bursts.  BurstCountedOnce is about a tool's last calls, the tracker has *)
(* a ring that it overwrites and ages in place.  The inductive invariant   *)
(* says that, going back from the write index, the ring shows the last     *)
(* calls; that the window covers a suffix of them; and that the history    *)
(* is long enough to see an overrun.                                       *)

RingSlots == 0 .. BufSize - 1

\* Where the k-th last call is, when the next one goes to slot i.
Back(i, k) == IF k <= i THEN i - k ELSE i + BufSize - k

HoldsLast(ring, i, cs) ==
    \A k \in 1 .. BufSize :
       ring[Back(i, k)] = IF k <= Len(cs) THEN cs[Len(cs) + 1 - k] ELSE None

\* A call inside the window is followed only by such calls.
ExpiresInOrder(cs) ==
    \A a, b \in 1 .. Len(cs) :
       a < b /\ cs[a] # None => cs[b] # None /\ cs[b].age <= cs[a].age

Shows(ring, i, cs) ==
    /\ ring \in [RingSlots -> Entry \cup {None}]
    /\ i \in RingSlots
    /\ cs \in Seq(Entry \cup {None})
    /\ Len(cs) <= BufSize + 1
    /\ HoldsLast(ring, i, cs)
    /\ ExpiresInOrder(cs)

RepTypes ==
    /\ repBuf \in [Tools -> [RingSlots -> Entry \cup {None}]]
    /\ repBufIdx \in [Tools -> RingSlots]
    /\ repCounted \in [Tools -> SUBSET Hashes]
    /\ calls \in [Tools -> Seq(Entry \cup {None})]

RepInv == RepTypes /\ \A t \in Tools : Shows(repBuf[t], repBufIdx[t], calls[t])

\* What a ring keeps of a tool's calls, with h called next.
Shifted(cs, h) ==
    LET all == Append(cs, [hash |-> h, age |-> 0])
    IN  IF Len(all) > BufSize + 1 THEN Tail(all) ELSE all

\* The ring has at least four slots.
LEMMA RingSize == BufSize \in Nat /\ BufSize >= 4
BY ConfigAssumption DEF BufSize

\* An empty slot is no entry.
LEMMA NoneIsNoEntry == None \notin Entry /\ \A t \in Tools, h \in Hashes : <<t, h>> # None
BY ConfigAssumption DEF Entry

\* The ring's index moves on by one and starts again at 0.
LEMMA NextSlot ==
    ASSUME NEW i \in RingSlots
    PROVE  (i + 1) % BufSize = IF i + 1 = BufSize THEN 0 ELSE i + 1
<1>. HIDE DEF BufSize
<1>. QED  BY RingSize DEF RingSlots

\* Going back from the new index: the slot just written first, then the slots
\* in the order they had before.
LEMMA BackFromNext ==
    ASSUME NEW i \in RingSlots, NEW j, j = IF i + 1 = BufSize THEN 0 ELSE i + 1,
           NEW k \in 1 .. BufSize
    PROVE  /\ Back(j, k) \in RingSlots
           /\ Back(i, k) \in RingSlots
           /\ k = 1 => Back(j, k) = i
           /\ k # 1 => Back(j, k) = Back(i, k - 1) /\ Back(j, k) # i
BY RingSize DEF Back, RingSlots

\* The history after one more call, position by position.
LEMMA ShiftedIs ==
    ASSUME NEW cs \in Seq(Entry \cup {None}), Len(cs) <= BufSize + 1, NEW h \in Hashes
    PROVE  LET s == Shifted(cs, h)
               n == IF Len(cs) = BufSize + 1 THEN 1 ELSE 0
           IN  /\ s \in Seq(Entry \cup {None})
               /\ Len(s) = Len(cs) + 1 - n /\ Len(s) <= BufSize + 1
               /\ \A j \in 1 .. Len(s) :
                     s[j] = IF j = Len(s) THEN [hash |-> h, age |-> 0] ELSE cs[j + n]
<1>. DEFINE e == [hash |-> h, age |-> 0]
            all == Append(cs, e)
<1>1. e \in Entry  BY ConfigAssumption DEF Entry
<1>. HIDE DEF e
<1>2. /\ all \in Seq(Entry \cup {None}) /\ Len(all) = Len(cs) + 1
      /\ \A j \in 1 .. Len(cs) + 1 : all[j] = IF j = Len(cs) + 1 THEN e ELSE cs[j]
  BY <1>1
<1>3. Len(cs) \in Nat /\ BufSize \in Nat  BY RingSize
<1>4. Shifted(cs, h) = IF Len(all) > BufSize + 1 THEN Tail(all) ELSE all
  BY DEF Shifted, e
<1>. HIDE DEF all
<1>5. /\ Tail(all) \in Seq(Entry \cup {None}) /\ Len(Tail(all)) = Len(cs)
      /\ \A j \in 1 .. Len(cs) : Tail(all)[j] = all[j + 1]
  <2>1. all # <<>>  BY <1>2, <1>3
  <2>. QED  BY <2>1, <1>2, <1>3
<1>6. CASE Len(cs) = BufSize + 1
  <2>1. Shifted(cs, h) = Tail(all)  BY <1>2, <1>3, <1>4, <1>6
  <2>. QED  BY <2>1, <1>2, <1>3, <1>5, <1>6 DEF e
<1>7. CASE Len(cs) # BufSize + 1
  <2>1. Shifted(cs, h) = all  BY <1>2, <1>3, <1>4, <1>7
  <2>. QED  BY <2>1, <1>2, <1>3, <1>7 DEF e
<1>. QED  BY <1>6, <1>7

\* A recorded call keeps the ring in step with the history.
LEMMA ShowsOneMore ==
    ASSUME NEW ring, NEW i, NEW cs, Shows(ring, i, cs), NEW h \in Hashes
    PROVE  Shows([ring EXCEPT ![i] = [hash |-> h, age |-> 0]], (i + 1) % BufSize, Shifted(cs, h))
<1>. DEFINE e == [hash |-> h, age |-> 0]
            r == [ring EXCEPT ![i] = e]
            j == IF i + 1 = BufSize THEN 0 ELSE i + 1
            s == Shifted(cs, h)
            n == IF Len(cs) = BufSize + 1 THEN 1 ELSE 0
<1>1. e \in Entry /\ e.age = 0 /\ e # None  BY ConfigAssumption, NoneIsNoEntry DEF Entry
<1>2. i \in RingSlots /\ cs \in Seq(Entry \cup {None}) /\ Len(cs) <= BufSize + 1
      /\ ring \in [RingSlots -> Entry \cup {None}]
  BY DEF Shows
<1>3. (i + 1) % BufSize = j /\ j \in RingSlots  BY <1>2, NextSlot, RingSize DEF RingSlots
<1>4. /\ s \in Seq(Entry \cup {None})
      /\ Len(s) = Len(cs) + 1 - n /\ Len(s) <= BufSize + 1
      /\ \A k \in 1 .. Len(s) : s[k] = IF k = Len(s) THEN e ELSE cs[k + n]
  BY <1>2, ShiftedIs
<1>. HIDE DEF e
<1>5. r \in [RingSlots -> Entry \cup {None}] /\ r[i] = e
      /\ \A a \in RingSlots \ {i} : r[a] = ring[a]
  BY <1>1, <1>2
<1>6. Len(cs) \in Nat /\ BufSize \in Nat /\ BufSize >= 4 /\ n \in {0, 1}  BY <1>2, RingSize
<1>. HIDE DEF s, r
<1>7. HoldsLast(r, j, s)
  <2>. SUFFICES ASSUME NEW k \in 1 .. BufSize
                PROVE  r[Back(j, k)] = IF k <= Len(s) THEN s[Len(s) + 1 - k] ELSE None
    BY DEF HoldsLast
  <2>1. CASE k = 1
    <3>1. Back(j, k) = i  BY <1>2, <2>1, BackFromNext
    <3>2. 1 <= Len(s) /\ s[Len(s) + 1 - 1] = e  BY <1>4, <1>6
    <3>. QED  BY <2>1, <3>1, <3>2, <1>5
  <2>2. CASE k # 1
    <3>1. Back(j, k) = Back(i, k - 1) /\ Back(j, k) \in RingSlots \ {i}
      BY <1>2, <2>2, BackFromNext
    <3>2. k - 1 \in 1 .. BufSize  BY <1>6, <2>2
    <3>3. r[Back(j, k)] = IF k - 1 <= Len(cs) THEN cs[Len(cs) + 1 - (k - 1)] ELSE None
      <4>1. HoldsLast(ring, i, cs)  BY DEF Shows
      <4>2. ring[Back(i, k - 1)] = IF k - 1 <= Len(cs) THEN cs[Len(cs) + 1 - (k - 1)] ELSE None
        BY <3>2, <4>1 DEF HoldsLast
      <4>. QED  BY <3>1, <4>2, <1>5
    <3>4. CASE k <= Len(s)
      <4>1. k - 1 <= Len(cs) /\ Len(s) + 1 - k \in 1 .. Len(s) /\ Len(s) + 1 - k # Len(s)
        BY <3>4, <2>2, <1>4, <1>6
      <4>2. s[Len(s) + 1 - k] = cs[Len(s) + 1 - k + n]  BY <4>1, <1>4
      <4>3. Len(s) + 1 - k + n = Len(cs) + 1 - (k - 1)  BY <1>4, <1>6
      <4>. QED  BY <3>3, <3>4, <4>1, <4>2, <4>3
    <3>5. CASE ~(k <= Len(s))
      <4>1. ~(k - 1 <= Len(cs))  BY <3>5, <1>4, <1>6
      <4>. QED  BY <3>3, <3>5, <4>1
    <3>. QED  BY <3>4, <3>5
  <2>. QED  BY <2>1, <2>2
<1>8. ExpiresInOrder(s)
  <2>. SUFFICES ASSUME NEW a \in 1 .. Len(s), NEW b \in 1 .. Len(s), a < b, s[a] # None
                PROVE  s[b] # None /\ s[b].age <= s[a].age
    BY DEF ExpiresInOrder
  <2>1. a # Len(s) /\ a + n \in 1 .. Len(cs) /\ s[a] = cs[a + n]  BY <1>4, <1>6
  <2>2. s[a] \in Entry  BY <2>1, <1>2
  <2>3. CASE b = Len(s)
    <3>1. s[b] = e  BY <2>3, <1>4
    <3>2. s[a].age >= 0  BY <2>2 DEF Entry
    <3>. QED  BY <3>1, <3>2, <1>1
  <2>4. CASE b # Len(s)
    <3>1. s[b] = cs[b + n]  BY <2>4, <1>4
    <3>2. b + n \in 1 .. Len(cs) /\ a + n < b + n
      <4>. HIDE DEF n
      <4>. QED  BY <2>4, <1>4, <1>6
    <3>. HIDE DEF n
    <3>. QED  BY <2>1, <3>1, <3>2 DEF Shows, ExpiresInOrder
  <2>. QED  BY <2>3, <2>4
<1>. HIDE DEF j
<1>9. Shows(r, j, s)  BY <1>3, <1>4, <1>5, <1>7, <1>8 DEF Shows
<1>. QED  BY <1>3, <1>9 DEF r, s, e

\* An entry that ages stays an entry, or leaves the window.
LEMMA AgedType ==
    ASSUME NEW e \in Entry \cup {None}
    PROVE  /\ Aged(e) \in Entry \cup {None}
           /\ Aged(e) # None <=> e # None /\ e.age # RepetitionWindow
           /\ Aged(e) # None => Aged(e).age = e.age + 1
<1>1. CASE e = None \/ e.age = RepetitionWindow  BY <1>1 DEF Aged
<1>2. CASE e # None /\ e.age # RepetitionWindow
  <2>1. e \in Entry  BY <1>2
  <2>2. Aged(e) = [e EXCEPT !.age = e.age + 1]  BY <1>2 DEF Aged
  <2>3. Aged(e) \in Entry /\ Aged(e).age = e.age + 1
    BY <1>2, <2>1, <2>2, ConfigAssumption DEF Entry
  <2>. QED  BY <1>2, <2>3, NoneIsNoEntry
<1>. QED  BY <1>1, <1>2

\* Time keeps the ring in step with the history: both age alike.
LEMMA ShowsAged ==
    ASSUME NEW ring, NEW i, NEW cs, Shows(ring, i, cs)
    PROVE  Shows([a \in 0 .. BufSize - 1 |-> Aged(ring[a])], i,
                 [j \in 1 .. Len(cs) |-> Aged(cs[j])])
<1>. DEFINE r == [a \in 0 .. BufSize - 1 |-> Aged(ring[a])]
            s == [j \in 1 .. Len(cs) |-> Aged(cs[j])]
<1>2. i \in RingSlots /\ cs \in Seq(Entry \cup {None}) /\ Len(cs) <= BufSize + 1
      /\ ring \in [RingSlots -> Entry \cup {None}]
  BY DEF Shows
<1>3. Len(cs) \in Nat /\ \A j \in 1 .. Len(cs) : cs[j] \in Entry \cup {None}  BY <1>2
<1>4. /\ s \in Seq(Entry \cup {None}) /\ Len(s) = Len(cs)
      /\ \A j \in 1 .. Len(cs) : s[j] = Aged(cs[j])
  BY <1>3, AgedType
<1>5. r \in [RingSlots -> Entry \cup {None}] /\ \A a \in RingSlots : r[a] = Aged(ring[a])
  BY <1>2, AgedType DEF RingSlots
<1>6. Aged(None) = None  BY DEF Aged
<1>. HIDE DEF s, r
<1>7. HoldsLast(r, i, s)
  <2>. SUFFICES ASSUME NEW k \in 1 .. BufSize
                PROVE  r[Back(i, k)] = IF k <= Len(s) THEN s[Len(s) + 1 - k] ELSE None
    BY DEF HoldsLast
  <2>1. Back(i, k) \in RingSlots  BY <1>2, BackFromNext
  <2>2. ring[Back(i, k)] = IF k <= Len(cs) THEN cs[Len(cs) + 1 - k] ELSE None
    BY DEF Shows, HoldsLast
  <2>3. k <= Len(cs) => Len(cs) + 1 - k \in 1 .. Len(cs)  BY <1>3
  <2>. QED  BY <2>1, <2>2, <2>3, <1>4, <1>5, <1>6
<1>8. ExpiresInOrder(s)
  <2>. SUFFICES ASSUME NEW a \in 1 .. Len(cs), NEW b \in 1 .. Len(cs), a < b, s[a] # None
                PROVE  s[b] # None /\ s[b].age <= s[a].age
    BY <1>4 DEF ExpiresInOrder
  <2>1. cs[a] \in Entry \cup {None} /\ cs[b] \in Entry \cup {None}  BY <1>3
  <2>2. cs[a] # None /\ cs[a].age # RepetitionWindow /\ s[a].age = cs[a].age + 1
    BY <2>1, <1>4, AgedType
  <2>3. cs[b] # None /\ cs[b].age <= cs[a].age  BY <2>2 DEF Shows, ExpiresInOrder
  <2>4. cs[a].age \in 0 .. RepetitionWindow /\ cs[b].age \in 0 .. RepetitionWindow
    BY <2>1, <2>2, <2>3 DEF Entry
  <2>5. cs[b].age # RepetitionWindow  BY <2>2, <2>3, <2>4, ConfigAssumption
  <2>6. s[b] # None /\ s[b].age = cs[b].age + 1  BY <2>1, <2>3, <2>5, <1>4, AgedType
  <2>. QED  BY <2>2, <2>3, <2>4, <2>6, ConfigAssumption
<1>9. Shows(r, i, s)  BY <1>2, <1>4, <1>5, <1>7, <1>8 DEF Shows
<1>. QED  BY <1>9 DEF r, s

\* The repeats the ring counts are calls inside the window, and as long as the
\* tool has made no more calls there than the ring holds, they are all of them.
LEMMA RingCountsRepeats ==
    ASSUME NEW ring, NEW i, NEW cs, Shows(ring, i, cs), NEW h
    PROVE  /\ RingCount(ring, h) \in Nat /\ Cardinality(HitsIn(cs, h)) \in Nat
           /\ RingCount(ring, h) <= Cardinality(HitsIn(cs, h))
           /\ Cardinality(LiveIn(cs)) <= BufSize
                => RingCount(ring, h) = Cardinality(HitsIn(cs, h))
<1>. DEFINE R == {a \in 0 .. BufSize - 1 : ring[a] # None /\ ring[a].hash = h}
            H == HitsIn(cs, h)
            Ago(a) == IF a < i THEN i - a ELSE i + BufSize - a
            f == [a \in R |-> Len(cs) + 1 - Ago(a)]
<1>1. i \in RingSlots /\ cs \in Seq(Entry \cup {None}) /\ Len(cs) \in Nat
      /\ Len(cs) <= BufSize + 1 /\ HoldsLast(ring, i, cs)
  BY DEF Shows
<1>2. IsFiniteSet(H) /\ IsFiniteSet(R) /\ Cardinality(H) \in Nat /\ Cardinality(R) \in Nat
  <2>1. IsFiniteSet(1 .. Len(cs)) /\ IsFiniteSet(0 .. BufSize - 1)
    BY <1>1, RingSize, FS_Interval
  <2>2. H \subseteq 1 .. Len(cs) /\ R \subseteq 0 .. BufSize - 1  BY DEF HitsIn
  <2>. QED  BY <2>1, <2>2, FS_Subset, FS_CardinalityType
<1>3. \A a \in RingSlots : Ago(a) \in 1 .. BufSize /\ Back(i, Ago(a)) = a
  BY <1>1, RingSize DEF RingSlots, Back
<1>4. \A k \in 1 .. BufSize : Back(i, k) \in RingSlots /\ Ago(Back(i, k)) = k
  BY <1>1, RingSize DEF RingSlots, Back
<1>. HIDE DEF Ago
<1>5. ASSUME NEW a \in R
      PROVE  /\ Len(cs) + 1 - Ago(a) \in H
  <2>1. a \in RingSlots  BY DEF RingSlots
  <2>2. ring[a] = IF Ago(a) <= Len(cs) THEN cs[Len(cs) + 1 - Ago(a)] ELSE None
    BY <2>1, <1>1, <1>3 DEF HoldsLast
  <2>3. Ago(a) <= Len(cs) /\ ring[a] = cs[Len(cs) + 1 - Ago(a)]  BY <2>2
  <2>4. Len(cs) + 1 - Ago(a) \in 1 .. Len(cs)  BY <2>1, <2>3, <1>1, <1>3
  <2>. QED  BY <2>3, <2>4 DEF HitsIn
<1>6. f \in Injection(R, H)
  <2>1. f \in [R -> H]  BY <1>5
  <2>2. ASSUME NEW a \in R, NEW b \in R, f[a] = f[b] PROVE a = b
    <3>1. a \in RingSlots /\ b \in RingSlots  BY DEF RingSlots
    <3>2. Len(cs) + 1 - Ago(a) = Len(cs) + 1 - Ago(b)  BY <2>2
    <3>3. Ago(a) = Ago(b)
      <4>1. Ago(a) \in 1 .. BufSize /\ Ago(b) \in 1 .. BufSize  BY <3>1, <1>3
      <4>. QED  BY <4>1, <3>2, <1>1, RingSize
    <3>. QED  BY <3>1, <3>3, <1>3
  <2>. HIDE DEF f, R, H
  <2>. QED  BY <2>1, <2>2 DEF Injection, IsInjective
<1>7. ASSUME Cardinality(LiveIn(cs)) <= BufSize, NEW j \in H PROVE \E a \in R : f[a] = j
  <2>1. j \in 1 .. Len(cs) /\ cs[j] # None /\ cs[j].hash = h  BY DEF HitsIn
  <2>2. Len(cs) + 1 - j <= BufSize
    <3>1. SUFFICES ASSUME Len(cs) + 1 - j > BufSize PROVE FALSE
      BY <1>1, <2>1, RingSize
    <3>2. j = 1 /\ Len(cs) = BufSize + 1  BY <3>1, <2>1, <1>1, RingSize
    <3>3. \A b \in 1 .. Len(cs) : cs[b] # None
      <4>1. ASSUME NEW b \in 1 .. Len(cs), b # 1 PROVE cs[b] # None
        <5>1. 1 < b /\ 1 \in 1 .. Len(cs) /\ cs[1] # None  BY <4>1, <2>1, <3>2
        <5>. QED  BY <5>1 DEF Shows, ExpiresInOrder
      <4>. QED  BY <4>1, <2>1, <3>2
    <3>4. LiveIn(cs) = 1 .. Len(cs)  BY <3>3 DEF LiveIn
    <3>5. \A m \in Nat : m >= 1 => Cardinality(1 .. m) = m  BY FS_Interval
    <3>6. Cardinality(LiveIn(cs)) = BufSize + 1  BY <3>2, <3>4, <3>5, RingSize
    <3>. QED  BY <3>6, <1>7, RingSize
  <2>. DEFINE k == Len(cs) + 1 - j
              a == Back(i, k)
  <2>3. k \in 1 .. BufSize /\ k <= Len(cs) /\ Len(cs) + 1 - k = j  BY <1>1, <2>1, <2>2, RingSize
  <2>. HIDE DEF k
  <2>4. ring[a] = cs[j]  BY <2>3, <1>1 DEF HoldsLast
  <2>5. a \in RingSlots /\ Ago(a) = k  BY <2>3, <1>4
  <2>. HIDE DEF a
  <2>6. a \in R  BY <2>1, <2>4, <2>5 DEF RingSlots
  <2>7. f[a] = j  BY <2>3, <2>5, <2>6
  <2>. QED  BY <2>6, <2>7
<1>8. ASSUME Cardinality(LiveIn(cs)) <= BufSize PROVE f \in Surjection(R, H)
  <2>1. f \in [R -> H]  BY <1>5
  <2>2. \A j \in H : \E a \in R : f[a] = j  BY <1>7, <1>8
  <2>. HIDE DEF f, R, H
  <2>. QED  BY <2>1, <2>2 DEF Surjection
<1>. HIDE DEF f, H, R
<1>9. Cardinality(R) <= Cardinality(H) /\ (Cardinality(R) = Cardinality(H) <=> f \in Surjection(R, H))
  BY <1>2, <1>6, FS_Injection
<1>10. RingCount(ring, h) = Cardinality(R)  BY DEF RingCount, R
<1>. QED  BY <1>2, <1>8, <1>9, <1>10 DEF H

\* Initially no tool has made a call.
LEMMA InitRepInv == Init => RepInv
<1>. SUFFICES ASSUME Init PROVE RepInv  OBVIOUS
<1>1. RepTypes
  BY RingSize DEF Init, RepTypes, RingSlots
<1>2. ASSUME NEW t \in Tools PROVE Shows(repBuf[t], repBufIdx[t], calls[t])
  <2>1. repBuf[t] = [a \in RingSlots |-> None] /\ repBufIdx[t] = 0 /\ calls[t] = <<>>
    BY DEF Init, RingSlots
  <2>2. \A k \in 1 .. BufSize : Back(0, k) \in RingSlots
    BY RingSize, BackFromNext DEF RingSlots
  <2>3. <<>> \in Seq(Entry \cup {None}) /\ Len(<<>>) = 0  OBVIOUS
  <2>4. Shows([a \in RingSlots |-> None], 0, <<>>)
    BY <2>2, <2>3, RingSize DEF Shows, HoldsLast, ExpiresInOrder, RingSlots
  <2>. QED  BY <2>1, <2>4
<1>. QED  BY <1>1, <1>2 DEF RepInv

\* What recordRepetition does to the one tool that was called, and to others.
LEMMA RecordedCall ==
    ASSUME RepInv, NEW t \in Tools, NEW h \in Hashes, recordRepetition(t, h)
    PROVE  /\ RepInv'
           /\ Shows(repBuf'[t], repBufIdx'[t], calls'[t])
           /\ calls'[t][Len(calls'[t])].hash = h
           /\ repCounted'[t] = CountedAfter(t, h, RingCount(repBuf'[t], h))
           /\ burst' = IF RingCount(repBuf'[t], h) >= RepetitionThreshold /\ h \notin repCounted[t]
                       THEN <<t, h>> ELSE None
           /\ \A u \in Tools \ {t} : repBufIdx'[u] = repBufIdx[u]
<1>. DEFINE ring == [repBuf[t] EXCEPT ![repBufIdx[t]] = [hash |-> h, age |-> 0]]
            cs   == Shifted(calls[t], h)
            j    == (repBufIdx[t] + 1) % BufSize
            n    == RingCount(ring, h)
            cnt  == CountedAfter(t, h, n)
<1>1. RepTypes /\ \A u \in Tools : Shows(repBuf[u], repBufIdx[u], calls[u])  BY DEF RepInv
<1>2. /\ repBuf' = [repBuf EXCEPT ![t] = ring]
      /\ repBufIdx' = [repBufIdx EXCEPT ![t] = j]
      /\ repCounted' = [repCounted EXCEPT ![t] = cnt]
      /\ burst' = IF n >= RepetitionThreshold /\ h \notin repCounted[t] THEN <<t, h>> ELSE None
      /\ calls' = [calls EXCEPT ![t] = cs]
  BY DEF recordRepetition, RememberCall, Shifted
<1>3. Shows(ring, j, cs)  BY <1>1, ShowsOneMore
<1>4. cnt \in SUBSET Hashes  BY <1>1 DEF CountedAfter, RepTypes
<1>5. cs[Len(cs)].hash = h
  <2>1. calls[t] \in Seq(Entry \cup {None}) /\ Len(calls[t]) <= BufSize + 1  BY <1>1 DEF Shows
  <2>2. Len(calls[t]) \in Nat  BY <2>1
  <2>3. Len(cs) \in 1 .. Len(cs) /\ cs[Len(cs)] = [hash |-> h, age |-> 0]
    <3>1. Len(cs) = Len(calls[t]) + 1 - (IF Len(calls[t]) = BufSize + 1 THEN 1 ELSE 0)
      BY <2>1, ShiftedIs
    <3>2. Len(cs) \in 1 .. Len(cs)  BY <3>1, <2>2, RingSize
    <3>. HIDE DEF cs
    <3>3. \A a \in 1 .. Len(cs) : a = Len(cs) => cs[a] = [hash |-> h, age |-> 0]
      BY <2>1, ShiftedIs DEF cs
    <3>. QED  BY <3>2, <3>3
  <2>. HIDE DEF cs
  <2>. QED  BY <2>3
<1>6. ring \in [RingSlots -> Entry \cup {None}] /\ j \in RingSlots /\ cs \in Seq(Entry \cup {None})
  BY <1>3 DEF Shows
<1>. HIDE DEF ring, j, cs, cnt
<1>7. RepTypes'
  BY <1>1, <1>2, <1>4, <1>6 DEF RepTypes, RingSlots
<1>8. /\ repBuf'[t] = ring /\ repBufIdx'[t] = j /\ calls'[t] = cs /\ repCounted'[t] = cnt
      /\ \A u \in Tools \ {t} :
            repBuf'[u] = repBuf[u] /\ repBufIdx'[u] = repBufIdx[u] /\ calls'[u] = calls[u]
  BY <1>1, <1>2 DEF RepTypes
<1>9. \A u \in Tools : Shows(repBuf'[u], repBufIdx'[u], calls'[u])
  <2>1. ASSUME NEW u \in Tools, u # t PROVE Shows(repBuf'[u], repBufIdx'[u], calls'[u])
    <3>1. repBuf'[u] = repBuf[u] /\ repBufIdx'[u] = repBufIdx[u] /\ calls'[u] = calls[u]
      BY <1>8, <2>1
    <3>. QED  BY <1>1, <3>1
  <2>2. Shows(repBuf'[t], repBufIdx'[t], calls'[t])  BY <1>3, <1>8
  <2>. QED  BY <2>1, <2>2
<1>10. RepInv'  BY <1>7, <1>9 DEF RepInv, Shows, HoldsLast, ExpiresInOrder
<1>. QED  BY <1>2, <1>5, <1>8, <1>9, <1>10 DEF cnt

\* Time passes for every ring and every history alike.
LEMMA TickRepInv == ASSUME RepInv, Tick PROVE RepInv'
<1>1. RepTypes /\ \A t \in Tools : Shows(repBuf[t], repBufIdx[t], calls[t])  BY DEF RepInv
<1>2. ASSUME NEW t \in Tools PROVE Shows(repBuf'[t], repBufIdx'[t], calls'[t])
  <2>1. repBuf'[t] = [a \in 0 .. BufSize - 1 |-> Aged(repBuf[t][a])]
        /\ calls'[t] = [j \in 1 .. Len(calls[t]) |-> Aged(calls[t][j])]
        /\ repBufIdx'[t] = repBufIdx[t]
    BY DEF Tick
  <2>. QED  BY <1>1, <2>1, ShowsAged
<1>3. RepTypes'
  <2>1. \A t \in Tools : repBuf'[t] \in [RingSlots -> Entry \cup {None}]
                         /\ calls'[t] \in Seq(Entry \cup {None})
    BY <1>2 DEF Shows
  <2>2. /\ repBuf' = [t \in Tools |-> repBuf'[t]] /\ calls' = [t \in Tools |-> calls'[t]]
    BY DEF Tick
  <2>3. UNCHANGED <<repBufIdx, repCounted>>  BY DEF Tick
  <2>. QED  BY <1>1, <2>1, <2>2, <2>3 DEF RepTypes, RingSlots
<1>. QED  BY <1>2, <1>3 DEF RepInv, Shows, HoldsLast, ExpiresInOrder

\* Every step preserves it.
LEMMA StepRepInv == RepInv /\ [Next]_vars => RepInv'
<1>. SUFFICES ASSUME RepInv, [Next]_vars PROVE RepInv'  OBVIOUS
<1>1. ASSUME UNCHANGED repVars PROVE RepInv'
  BY <1>1 DEF repVars, RepInv, RepTypes, Shows, HoldsLast, ExpiresInOrder
<1>2. ASSUME NEW t \in Tools, NEW ok \in BOOLEAN, NEW h \in Hashes \cup {NoHash},
             Observe(t, ok, h)
      PROVE  RepInv'
  <2>1. CASE h = NoHash  BY <1>1, <1>2, <2>1 DEF Observe
  <2>2. CASE h # NoHash
    <3>1. h \in Hashes /\ recordRepetition(t, h)  BY <1>2, <2>2 DEF Observe
    <3>. QED  BY <3>1, RecordedCall
  <2>. QED  BY <2>1, <2>2
<1>3. CASE Tick  BY <1>3, TickRepInv
<1>4. CASE UNCHANGED vars  BY <1>1, <1>4 DEF vars
<1>. QED  BY <1>2, <1>3, <1>4 DEF Next

\* What BurstCountedOnce asks of a step.
BurstStep ==
    /\ burst' # None => Repeats(burst[1], burst[2])' >= RepetitionThreshold
    /\ \A t \in Tools, h \in Hashes :
         (repBufIdx'[t] # repBufIdx[t] /\ calls'[t][Len(calls'[t])].hash = h
            /\ Cardinality(LiveIn(calls'[t])) <= BufSize)
         => /\ (burst' = <<t, h>>) <=> (Repeats(t, h)' >= RepetitionThreshold
                                        /\ h \notin repCounted[t])
            /\ (h \in repCounted'[t]) <=> (Repeats(t, h)' >= RepetitionThreshold)

\* A recorded call decides by the repeats in its ring, which are the repeats
\* of the history unless the ring was overrun.
LEMMA RecordedBurst ==
    ASSUME RepInv, NEW t \in Tools, NEW h \in Hashes, recordRepetition(t, h)
    PROVE  BurstStep
<1>. DEFINE n == RingCount(repBuf'[t], h)
            m == Cardinality(HitsIn(calls'[t], h))
<1>1. /\ Shows(repBuf'[t], repBufIdx'[t], calls'[t])
      /\ calls'[t][Len(calls'[t])].hash = h
      /\ repCounted'[t] = CountedAfter(t, h, n)
      /\ burst' = IF n >= RepetitionThreshold /\ h \notin repCounted[t] THEN <<t, h>> ELSE None
      /\ \A u \in Tools \ {t} : repBufIdx'[u] = repBufIdx[u]
  BY RecordedCall
<1>2. n \in Nat /\ m \in Nat /\ n <= m /\ (Cardinality(LiveIn(calls'[t])) <= BufSize => n = m)
  BY <1>1, RingCountsRepeats
<1>3. <<t, h>> # None /\ RepetitionThreshold \in Nat  BY NoneIsNoEntry, ConfigAssumption
<1>4. \A u \in Tools, g \in Hashes : Repeats(u, g)' = Cardinality(HitsIn(calls'[u], g))
  BY DEF Repeats, HitsIn
<1>. HIDE DEF n, m
<1>5. ASSUME burst' # None PROVE Repeats(burst[1], burst[2])' >= RepetitionThreshold
  <2>1. burst' = <<t, h>> /\ n >= RepetitionThreshold  BY <1>1, <1>5
  <2>2. burst'[1] = t /\ burst'[2] = h  BY <2>1
  <2>3. Repeats(burst[1], burst[2])' = m  BY <2>2 DEF Repeats, HitsIn, m
  <2>. QED  BY <2>1, <2>3, <1>2, <1>3
<1>6. ASSUME NEW u \in Tools, NEW g \in Hashes,
             repBufIdx'[u] # repBufIdx[u], calls'[u][Len(calls'[u])].hash = g,
             Cardinality(LiveIn(calls'[u])) <= BufSize
      PROVE  /\ (burst' = <<u, g>>) <=> (Repeats(u, g)' >= RepetitionThreshold /\ g \notin repCounted[u])
             /\ (g \in repCounted'[u]) <=> (Repeats(u, g)' >= RepetitionThreshold)
  <2>1. u = t /\ g = h  BY <1>1, <1>6
  <2>2. Repeats(u, g)' = n  BY <1>2, <1>4, <1>6, <2>1 DEF m
  <2>3. burst' = <<t, h>> <=> n >= RepetitionThreshold /\ h \notin repCounted[t]  BY <1>1, <1>3
  <2>4. h \in repCounted'[t] <=> n >= RepetitionThreshold  BY <1>1 DEF CountedAfter
  <2>. QED  BY <2>1, <2>2, <2>3, <2>4
<1>. QED  BY <1>5, <1>6 DEF BurstStep

\* A burst is counted when it starts and not again while it lasts, whatever
\* the threshold, the window, the tools and the traffic (tracker.go
\* recordRepetition).
THEOREM BurstsAreRight == Spec => BurstCountedOnce
<1>1. RepInv /\ [Next]_vars => [BurstStep]_vars
  <2>. SUFFICES ASSUME RepInv, Next PROVE BurstStep  OBVIOUS
  <2>1. ASSUME burst' = None, UNCHANGED repBufIdx PROVE BurstStep  BY <2>1 DEF BurstStep
  <2>2. ASSUME NEW t \in Tools, NEW ok \in BOOLEAN, NEW h \in Hashes \cup {NoHash},
               Observe(t, ok, h)
        PROVE  BurstStep
    <3>1. CASE h = NoHash  BY <2>1, <2>2, <3>1 DEF Observe, repVars
    <3>2. CASE h # NoHash
      <4>1. h \in Hashes /\ recordRepetition(t, h)  BY <2>2, <3>2 DEF Observe
      <4>. QED  BY <4>1, RecordedBurst
    <3>. QED  BY <3>1, <3>2
  <2>3. CASE Tick  BY <2>1, <2>3 DEF Tick
  <2>. QED  BY <2>2, <2>3 DEF Next
<1>. QED  BY <1>1, InitRepInv, StepRepInv, PTL DEF Spec, BurstCountedOnce, BurstStep

\* A counted burst names a tool and a fingerprint.
BurstType == burst \in (Tools \X Hashes) \cup {None}

\* Every variable of the tracker keeps its type; in particular the error count
\* never leaves 0 .. ErrorRateWindow, so the gauge stays a share (tracker.go
\* recordErrorOutcome, recordRepetition).
THEOREM TrackerTypes == Spec => []TypeOK
<1>1. Init => BurstType  BY DEF Init, BurstType
<1>2. BurstType /\ [Next]_vars => BurstType'
  <2>. SUFFICES ASSUME BurstType, [Next]_vars PROVE BurstType'  OBVIOUS
  <2>1. ASSUME NEW t \in Tools, NEW ok \in BOOLEAN, NEW h \in Hashes \cup {NoHash},
               Observe(t, ok, h)
        PROVE  BurstType'
    <3>1. CASE h = NoHash  BY <2>1, <3>1 DEF Observe, BurstType
    <3>2. CASE h # NoHash
      <4>1. burst' \in {<<t, h>>, None} /\ h \in Hashes
        BY <2>1, <3>2 DEF Observe, recordRepetition
      <4>. QED  BY <4>1 DEF BurstType
    <3>. QED  BY <3>1, <3>2
  <2>2. CASE Tick  BY <2>2 DEF Tick, BurstType
  <2>3. CASE UNCHANGED vars  BY <2>3 DEF vars, BurstType
  <2>. QED  BY <2>1, <2>2, <2>3 DEF Next
<1>3. IInv /\ RepInv /\ BurstType => TypeOK
  <2>. SUFFICES ASSUME IInv, RepInv, BurstType PROVE TypeOK  OBVIOUS
  <2>w. ErrorRateWindow \in Nat \ {0}  BY ConfigAssumption
  <2>1. Size \in 0 .. ErrorRateWindow  BY <2>w DEF IInv, ErrType, Size, Slots
  <2>2. errCount \in 0 .. ErrorRateWindow
    <3>1. Errors \in SUBSET (0 .. ErrorRateWindow - 1)
      BY <2>w DEF IInv, ErrType, Errors, Filled, Slots
    <3>2. IsFiniteSet(0 .. ErrorRateWindow - 1) /\ Cardinality(0 .. ErrorRateWindow - 1) = ErrorRateWindow
      BY <2>w, FS_Interval
    <3>3. Cardinality(Errors) <= ErrorRateWindow  BY <3>1, <3>2, FS_Subset
    <3>. QED  BY <3>3, <2>w DEF IInv, ErrType, CountMatchesRing
  <2>3. errorRate \in (0 .. ErrorRateWindow) \X (0 .. ErrorRateWindow)
    BY <2>1, <2>2 DEF IInv
  <2>. QED  BY <2>2, <2>3 DEF IInv, ErrType, RepInv, RepTypes, RingSlots, BurstType, TypeOK
<1>. QED  BY <1>1, <1>2, <1>3, InitIInv, StepIInv, InitRepInv, StepRepInv, PTL DEF Spec

--------------------------------------------------------------------------------
(* The failure streak.  The tracker keeps the last failure count and the   *)
(* streak, the property is about all results: the invariant says where in  *)
(* them the streak starts, and that the result before it was better.  It   *)
(* also carries every handler's values from the command's end to the       *)
(* tracker, since other handlers' updates come in between.                 *)

FailureNames == {FailureName(t) : t \in Suite}

Argvs ==
    [names : SUBSET {Parent(SplitQualified(n).leaf) : n \in FailureNames},
     pkgs  : SUBSET UNION {SplitQualified(n).pkgs : n \in FailureNames}]

Calls ==
    [pc : {"idle", "run", "record", "ingest", "streak", "green"},
     tool : {"none", "run_tests", "run_failing_tests", "run_check"},
     lang : Langs, argv : Argvs, snapshot : SUBSET FailureNames,
     res : [exit : {0, 1}, seen : SUBSET Suite, failed : SUBSET Suite]]

LoopTypes ==
    /\ call \in [Handlers -> Calls]
    /\ store.failures \subseteq FailureNames

StreakTypes ==
    /\ results \in Seq(Nat)
    /\ lastFailures \in Nat /\ haveLast \in BOOLEAN /\ streak \in 0 .. Len(results)

\* What the tracker remembers is the last result.
RemembersLast ==
    /\ haveLast <=> results # <<>>
    /\ haveLast => lastFailures = results[Len(results)]

\* The last streak results were no better than the one before each, and the
\* result before those, if there is one, was.
StreakStart ==
    /\ \A i \in Len(results) - streak + 1 .. Len(results) : NotBetter(results, i)
    /\ streak < Len(results) => ~NotBetter(results, Len(results) - streak)

StreakInv == LoopTypes /\ StreakTypes /\ RemembersLast /\ StreakStart

\* A failure count is a number: the suite is finite.
LEMMA CountIsNat == ASSUME NEW S \in SUBSET Suite PROVE Cardinality(S) \in Nat
BY LoopAssumption, FS_Subset, FS_CardinalityType

\* Of all trailing runs of results that never got better, the streak is the
\* longest: the result before it ends every longer one.
LEMMA StreakIsLongest == ASSUME StreakInv PROVE StreakIsTrailing
<1>. DEFINE n == Len(results)
            S == {k \in 0 .. n : \A i \in n - k + 1 .. n : NotBetter(results, i)}
<1>1. n \in Nat /\ streak \in 0 .. n  BY DEF StreakInv, StreakTypes
<1>2. streak \in S  BY <1>1 DEF StreakInv, StreakStart
<1>3. ASSUME NEW k \in S PROVE streak >= k
  <2>1. SUFFICES ASSUME k > streak PROVE FALSE  BY <1>1
  <2>2. n - streak \in n - k + 1 .. n /\ streak < n  BY <1>1, <2>1
  <2>3. NotBetter(results, n - streak)  BY <1>3, <2>2
  <2>. QED  BY <2>2, <2>3 DEF StreakInv, StreakStart
<1>4. \A x \in S : (\A y \in S : x >= y) => x = streak
  BY <1>1, <1>2, <1>3
<1>5. Max(S) = streak
  <2>. HIDE DEF S
  <2>. QED  BY <1>2, <1>3, <1>4 DEF Max
<1>. QED  BY <1>5 DEF StreakIsTrailing

\* The invariant holds initially: no run has ended.
LEMMA InitStreakInv == TestInit => StreakInv
<1>. SUFFICES ASSUME TestInit PROVE StreakInv  OBVIOUS
<1>1. Idle \in Calls  BY DEF Idle, Calls, Argvs, AllTests, NoRes, Langs
<1>2. LoopTypes  BY <1>1 DEF TestInit, LoopTypes
<1>3. results = <<>> /\ Len(results) = 0 /\ streak = 0 /\ lastFailures = 0 /\ haveLast = FALSE
  BY DEF TestInit
<1>4. StreakTypes /\ RemembersLast
  <2>1. results \in Seq(Nat)  BY DEF TestInit
  <2>2. lastFailures \in Nat /\ streak \in 0 .. Len(results)  BY <1>3
  <2>4. haveLast \in BOOLEAN  BY <1>3, Zenon
  <2>3. RemembersLast  BY <1>3, Zenon DEF RemembersLast
  <2>. QED  BY <2>1, <2>2, <2>3, <2>4 DEF StreakTypes
<1>5. StreakStart
  BY <1>3 DEF StreakStart
<1>. QED  BY <1>2, <1>4, <1>5 DEF StreakInv

\* A step that leaves the tracker alone has only the types to keep.
LEMMA NoResultStep ==
    ASSUME StreakInv, LoopTypes', UNCHANGED streakVars PROVE StreakInv'
BY DEF StreakInv, streakVars, StreakTypes, RemembersLast, StreakStart, NotBetter

\* What run_failing_tests composes is made of names and packages that failed.
LEMMA RerunArgvType ==
    ASSUME NEW F \in SUBSET FailureNames, NEW limit, NEW a \in ComposeRerun(F, limit)
    PROVE  a \in Argvs
<1>1. RerunNames(F) \subseteq {Parent(SplitQualified(n).leaf) : n \in FailureNames}
  BY DEF RerunNames
<1>2. RerunPkgs(F) \subseteq UNION {SplitQualified(n).pkgs : n \in FailureNames}
  BY DEF RerunPkgs
<1>3. PICK s \in SUBSET RerunNames(F) :
         a = [names |-> s, pkgs |-> IF Cardinality(RerunPkgs(F)) <= MaxPositional THEN RerunPkgs(F) ELSE {}]
  BY DEF ComposeRerun, kSubset
<1>. QED  BY <1>1, <1>2, <1>3 DEF Argvs

\* A tool call that arrives.
LEMMA ArrivalStep ==
    ASSUME LoopTypes, NEW h \in Handlers, NEW c \in Calls, Call(h, c)
    PROVE  LoopTypes' /\ UNCHANGED streakVars
BY DEF LoopTypes, Call

\* A handler that goes to its next step.
LEMMA GotoType ==
    ASSUME LoopTypes, NEW h \in Handlers, NEW pc \in {"idle", "ingest", "streak", "green"}, Goto(h, pc)
    PROVE  call' \in [Handlers -> Calls]
<1>1. Idle \in Calls  BY DEF Idle, Calls, Argvs, AllTests, NoRes, Langs
<1>2. call[h] \in Calls  BY DEF LoopTypes
<1>3. [call[h] EXCEPT !.pc = pc] \in Calls  BY <1>2 DEF Calls
<1>. QED  BY <1>1, <1>3 DEF Goto, LoopTypes

\* Every step preserves it.
LEMMA StepStreakInv == StreakInv /\ [TestNext]_testVars => StreakInv'
<1>. SUFFICES ASSUME StreakInv, [TestNext]_testVars PROVE StreakInv'
  OBVIOUS
<1>t. LoopTypes /\ StreakTypes /\ RemembersLast /\ StreakStart  BY DEF StreakInv
<1>i. Idle \in Calls  BY DEF Idle, Calls, Argvs, AllTests, NoRes, Langs
<1>1. ASSUME NEW h \in Handlers,
             \/ \E l \in Langs : RunCommand(h, "run_tests", l) \/ NothingToRerun(h, l)
             \/ RunCheck(h)
      PROVE  StreakInv'
  <2>1. \A l \in Langs : [Idle EXCEPT !.pc = "run", !.tool = "run_tests", !.lang = l] \in Calls
    BY <1>i DEF Calls
  <2>2. [Idle EXCEPT !.pc = "run", !.tool = "run_check", !.lang = "go"] \in Calls
    BY <1>i DEF Calls, Langs
  <2>. QED  BY <1>1, <1>t, <1>i, <2>1, <2>2, ArrivalStep, NoResultStep DEF RunCommand, RunCheck, NothingToRerun
<1>2. ASSUME NEW h \in Handlers, NEW limit \in Limits, RunFailingTests(h, limit) PROVE StreakInv'
  <2>1. PICK a \in ComposeRerun(store.failures, limit) :
           Call(h, [Idle EXCEPT !.pc = "run", !.tool = "run_failing_tests", !.argv = a,
                                !.snapshot = store.failures])
    BY <1>2 DEF RunFailingTests
  <2>2. a \in Argvs  BY <1>t, RerunArgvType DEF LoopTypes
  <2>3. [Idle EXCEPT !.pc = "run", !.tool = "run_failing_tests", !.argv = a,
                     !.snapshot = store.failures] \in Calls
    BY <1>i, <1>t, <2>2 DEF Calls, LoopTypes
  <2>. QED  BY <1>t, <2>1, <2>3, ArrivalStep, NoResultStep
<1>3. ASSUME NEW h \in Handlers, CommandErrors(h) \/ IngestCoverage(h) \/ ObserveGreen(h)
      PROVE  StreakInv'
  <2>1. call' \in [Handlers -> Calls]
    BY <1>3, <1>t, GotoType DEF CommandErrors, IngestCoverage, ObserveGreen
  <2>. QED  BY <1>3, <1>t, <2>1, NoResultStep DEF CommandErrors, IngestCoverage, ObserveGreen, LoopTypes
<1>4. ASSUME NEW h \in Handlers, CommandEnds(h) PROVE StreakInv'
  <2>1. PICK seen \in SUBSET Selected(call[h].argv), failing \in FailingSets, exit \in {0, 1} :
           LET p == Parsed(call[h], seen, failing)
           IN  call' = [call EXCEPT
                   ![h].res = [exit |-> exit, seen |-> p.seen, failed |-> p.failed],
                   ![h].pc = IF call[h].tool = "run_check" THEN "green" ELSE "record"]
    BY <1>4 DEF CommandEnds
  <2>2. seen \subseteq Suite  BY DEF Selected
  <2>. DEFINE r == [exit |-> exit, seen |-> Parsed(call[h], seen, failing).seen,
                    failed |-> Parsed(call[h], seen, failing).failed]
              c == IF call[h].tool = "run_check" THEN "green" ELSE "record"
  <2>3. r \in [exit : {0, 1}, seen : SUBSET Suite, failed : SUBSET Suite]
    BY <2>2 DEF Parsed
  <2>4. c \in {"green", "record"}  OBVIOUS
  <2>5. call' = [call EXCEPT ![h].res = r, ![h].pc = c]  BY <2>1
  <2>6. call[h] \in Calls  BY <1>t DEF LoopTypes
  <2>. HIDE DEF r, c
  <2>7. [call[h] EXCEPT !.res = r, !.pc = c] \in Calls
    BY <2>3, <2>4, <2>6 DEF Calls
  <2>8. call' = [call EXCEPT ![h] = [call[h] EXCEPT !.res = r, !.pc = c]]
    BY <2>5, <1>t DEF LoopTypes
  <2>9. call' \in [Handlers -> Calls]
    BY <2>7, <2>8, <1>t DEF LoopTypes
  <2>. QED  BY <1>4, <1>t, <2>9, NoResultStep DEF CommandEnds, LoopTypes
<1>5. ASSUME NEW h \in Handlers, RecordTestResult(h) PROVE StreakInv'
  <2>1. call' \in [Handlers -> Calls]
    BY <1>5, <1>t, GotoType DEF RecordTestResult
  <2>2. call[h].res.failed \subseteq Suite  BY <1>t DEF LoopTypes, Calls
  <2>3. store'.failures = {FailureName(t) : t \in call[h].res.failed}  BY <1>5 DEF RecordTestResult
  <2>4. store'.failures \subseteq FailureNames  BY <2>2, <2>3 DEF FailureNames
  <2>. QED  BY <1>5, <1>t, <2>1, <2>4, NoResultStep DEF RecordTestResult, LoopTypes
<1>6. ASSUME NEW h \in Handlers, ObserveTestResult(h) PROVE StreakInv'
  <2>1. LoopTypes'
    BY <1>6, <1>t, GotoType DEF ObserveTestResult, LoopTypes
  <2>. DEFINE n == Cardinality(call[h].res.failed)
  <2>2. n \in Nat  BY <1>t, CountIsNat DEF LoopTypes, Calls
  <2>3. /\ streak' = NextStreak(n) /\ lastFailures' = n /\ results' = Append(results, n) /\ haveLast' = TRUE
    BY <1>6 DEF ObserveTestResult
  <2>. HIDE DEF n
  <2>4. /\ results' \in Seq(Nat) /\ Len(results') = Len(results) + 1 /\ results'[Len(results) + 1] = n
        /\ \A i \in 1 .. Len(results) : results'[i] = results[i]
    BY <1>t, <2>2, <2>3 DEF StreakTypes
  <2>l. Len(results) \in Nat /\ (results # <<>> <=> Len(results) # 0)  BY <1>t DEF StreakTypes
  <2>5. ASSUME NEW i \in 1 .. Len(results) PROVE NotBetter(results', i) <=> NotBetter(results, i)
    <3>1. results'[i] = results[i] /\ (i # 1 => results'[i - 1] = results[i - 1])
      BY <2>4, <2>l
    <3>. QED  BY <3>1 DEF NotBetter
  <2>6. NotBetter(results', Len(results) + 1) <=> ~(n = 0 \/ (haveLast /\ n < lastFailures))
    <3>1. Len(results) # 0 => results'[Len(results)] = results[Len(results)]  BY <2>4, <2>l
    <3>2. NotBetter(results', Len(results) + 1)
            <=> n # 0 /\ (Len(results) = 0 \/ n >= results'[Len(results)])
      BY <2>4, <2>l DEF NotBetter
    <3>. QED  BY <1>t, <2>2, <2>l, <3>1, <3>2 DEF RemembersLast, StreakTypes
  <2>7. CASE n = 0 \/ (haveLast /\ n < lastFailures)
    <3>1. streak' = 0  BY <2>3, <2>7 DEF NextStreak
    <3>2. StreakTypes' /\ RemembersLast'
      BY <1>t, <2>2, <2>3, <2>4, <2>l, <3>1 DEF StreakTypes, RemembersLast
    <3>3. StreakStart'  BY <2>4, <2>6, <2>7, <2>l, <3>1 DEF StreakStart
    <3>. QED  BY <2>1, <3>2, <3>3 DEF StreakInv
  <2>8. CASE ~(n = 0 \/ (haveLast /\ n < lastFailures))
    <3>1. streak' = streak + 1 /\ Len(results') - streak' = Len(results) - streak
      BY <1>t, <2>3, <2>4, <2>8 DEF NextStreak, StreakTypes
    <3>2. StreakTypes' /\ RemembersLast'
      BY <1>t, <2>2, <2>3, <2>4, <3>1 DEF StreakTypes, RemembersLast
    <3>3. \A i \in Len(results) - streak + 1 .. Len(results) + 1 : NotBetter(results', i)
      <4>1. SUFFICES ASSUME NEW i \in Len(results) - streak + 1 .. Len(results) + 1 PROVE NotBetter(results', i)
        OBVIOUS
      <4>2. CASE i = Len(results) + 1  BY <2>6, <2>8, <4>2
      <4>3. CASE i # Len(results) + 1
        <5>1. i \in 1 .. Len(results) /\ i \in Len(results) - streak + 1 .. Len(results)
          BY <1>t, <4>3 DEF StreakTypes
        <5>. QED  BY <1>t, <2>5, <5>1 DEF StreakStart
      <4>. QED  BY <4>2, <4>3
    <3>4. ASSUME streak' < Len(results') PROVE ~NotBetter(results', Len(results) - streak)
      <4>1. Len(results) - streak \in 1 .. Len(results) /\ streak < Len(results)
        BY <1>t, <2>4, <3>1, <3>4 DEF StreakTypes
      <4>. QED  BY <1>t, <2>5, <4>1 DEF StreakStart
    <3>5. StreakStart'
      BY <2>4, <3>1, <3>3, <3>4 DEF StreakStart
    <3>. QED  BY <2>1, <3>2, <3>5 DEF StreakInv
  <2>. QED  BY <2>7, <2>8
<1>7. CASE UNCHANGED testVars
  BY <1>7, <1>t, NoResultStep DEF testVars, LoopTypes
<1>. QED  BY <1>1, <1>2, <1>3, <1>4, <1>5, <1>6, <1>7 DEF TestNext

\* The failure-streak gauge is exact for every suite, however many runs
\* overlap and in whatever order their results reach the tracker
\* (tracker.go ObserveTestResult).
THEOREM StreakIsExact == TestSpec => []StreakIsTrailing
<1>. QED  BY InitStreakInv, StepStreakInv, StreakIsLongest, PTL DEF TestSpec
================================================================================
