-------------------------- MODULE MergeJoinProofs --------------------------
(***************************************************************************)
(* MergeJoin for lists of every length over every set of keys: IInv is     *)
(* inductive, and what the merge returns is a maximal pairing.             *)
(*                                                                         *)
(* The argument is that of every merge: what is left over is smaller than  *)
(* the other list's head, hence than all of the rest of that list.         *)
(***************************************************************************)
EXTENDS MergeJoin, TLAPS

USE ConstantsAssumption

\* Nothing is taken.
LEMMA InitIInv == Init => IInv
<1> SUFFICES ASSUME Init PROVE IInv
  OBVIOUS
<1> USE DEF Init
<1>1. TypeOK /\ InputsSorted
  BY DEF TypeOK, InputsSorted
<1>2. Taken /\ PairsSound /\ LeftOverSound /\ OldestFirst
  BY DEF Taken, PairsSound, LeftOverSound, OldestFirst
<1> QED
  BY <1>1, <1>2 DEF IInv

\* Lengths and keys are integers.
LEMMA Numbers ==
  ASSUME TypeOK
  PROVE  /\ m \in Nat /\ n \in Nat /\ i \in Nat \ {0} /\ j \in Nat \ {0}
         /\ i <= m + 1 /\ j <= n + 1
         /\ \A t \in 1 .. m : tkey[t] \in Int
         /\ \A d \in 1 .. n : dkey[d] \in Int
<1>1. m \in Nat /\ n \in Nat
  BY DEF TypeOK
<1>2. i \in 1 .. m + 1 /\ j \in 1 .. n + 1
  BY DEF TypeOK
<1>3. i \in Nat \ {0} /\ j \in Nat \ {0} /\ i <= m + 1 /\ j <= n + 1
  BY <1>1, <1>2
<1>4. Keys \subseteq Int
  BY ConstantsAssumption
<1>5. /\ \A t \in 1 .. m : tkey[t] \in Int
      /\ \A d \in 1 .. n : dkey[d] \in Int
  BY <1>4 DEF TypeOK
<1> QED
  BY <1>1, <1>3, <1>5

\* A transfer without a deposit is below the rest of the deposits.
LEMMA LeftIInv ==
  ASSUME IInv, Left
  PROVE  IInv'
<1> USE DEF Left, TransferFirst
<1>1. /\ m \in Nat /\ n \in Nat /\ i \in Nat \ {0} /\ j \in Nat \ {0} /\ i <= m
      /\ \A t \in 1 .. m : tkey[t] \in Int
      /\ \A d \in 1 .. n : dkey[d] \in Int
  BY Numbers DEF IInv
<1>2. \A d \in j .. n : tkey[i] < dkey[d]
  <2> SUFFICES ASSUME NEW d \in j .. n PROVE tkey[i] < dkey[d]
    OBVIOUS
  <2>1. j \in 1 .. n /\ d \in 1 .. n /\ i \in 1 .. m
    BY <1>1
  <2>2. dkey[j] <= dkey[d] /\ tkey[i] < dkey[j]
    BY <1>1, <2>1 DEF IInv, InputsSorted, Sorted
  <2> QED
    BY <1>1, <2>1, <2>2
<1>3. TypeOK'
  BY <1>1 DEF IInv, TypeOK
<1>4. InputsSorted'
  BY DEF IInv, InputsSorted, Sorted
<1>5. Taken'
  <2>1. ASSUME NEW t \in 1 .. m
        PROVE  t < i' <=> t \in leftOnly' \/ \E p \in matched : p[1] = t
    BY <1>1 DEF IInv, Taken
  <2> QED
    BY <2>1 DEF IInv, Taken
<1>6. PairsSound'
  BY DEF IInv, PairsSound
<1>7. LeftOverSound'
  <2>1. \A t \in leftOnly' : \A d \in j .. n : tkey[t] < dkey[d]
    BY <1>2 DEF IInv, LeftOverSound
  <2>2. \A d \in rightOnly : \A t \in i' .. m : dkey[d] < tkey[t]
    BY <1>1 DEF IInv, LeftOverSound
  <2>3. ASSUME NEW t \in leftOnly', NEW d \in rightOnly
        PROVE  tkey[t] # dkey[d]
    <3>1. CASE t \in leftOnly
      BY <3>1 DEF IInv, LeftOverSound
    <3>2. CASE t = i
      <4>1. i \in i .. m /\ d \in 1 .. n
        BY <1>1 DEF IInv, TypeOK
      <4>2. dkey[d] < tkey[i]
        BY <4>1 DEF IInv, LeftOverSound
      <4> QED
        BY <1>1, <3>2, <4>1, <4>2
    <3> QED
      BY <3>1, <3>2
  <2> QED
    BY <2>1, <2>2, <2>3 DEF LeftOverSound
<1>8. OldestFirst'
  <2>1. \A p \in matched : p[1] < i
    BY DEF IInv, TypeOK, Taken
  <2> QED
    BY <1>1, <2>1 DEF IInv, TypeOK, OldestFirst
<1> QED
  BY <1>3, <1>4, <1>5, <1>6, <1>7, <1>8 DEF IInv

\* The same with the sides exchanged.
LEMMA RightIInv ==
  ASSUME IInv, Right
  PROVE  IInv'
<1> USE DEF Right, DepositFirst
<1>1. /\ m \in Nat /\ n \in Nat /\ i \in Nat \ {0} /\ j \in Nat \ {0} /\ j <= n
      /\ \A t \in 1 .. m : tkey[t] \in Int
      /\ \A d \in 1 .. n : dkey[d] \in Int
  BY Numbers DEF IInv
<1>2. \A t \in i .. m : dkey[j] < tkey[t]
  <2> SUFFICES ASSUME NEW t \in i .. m PROVE dkey[j] < tkey[t]
    OBVIOUS
  <2>1. i \in 1 .. m /\ t \in 1 .. m /\ j \in 1 .. n
    BY <1>1
  <2>2. tkey[i] <= tkey[t] /\ dkey[j] < tkey[i]
    BY <1>1, <2>1 DEF IInv, InputsSorted, Sorted
  <2> QED
    BY <1>1, <2>1, <2>2
<1>3. TypeOK'
  BY <1>1 DEF IInv, TypeOK
<1>4. InputsSorted'
  BY DEF IInv, InputsSorted, Sorted
<1>5. Taken'
  <2>1. ASSUME NEW d \in 1 .. n
        PROVE  d < j' <=> d \in rightOnly' \/ \E p \in matched : p[2] = d
    BY <1>1 DEF IInv, Taken
  <2> QED
    BY <2>1 DEF IInv, Taken
<1>6. PairsSound' /\ OldestFirst'
  BY DEF IInv, PairsSound, OldestFirst
<1>7. LeftOverSound'
  <2>1. \A t \in leftOnly : \A d \in j' .. n : tkey[t] < dkey[d]
    BY <1>1 DEF IInv, LeftOverSound
  <2>2. \A d \in rightOnly' : \A t \in i .. m : dkey[d] < tkey[t]
    BY <1>2 DEF IInv, LeftOverSound
  <2>3. ASSUME NEW t \in leftOnly, NEW d \in rightOnly'
        PROVE  tkey[t] # dkey[d]
    <3>1. CASE d \in rightOnly
      BY <3>1 DEF IInv, LeftOverSound
    <3>2. CASE d = j
      <4>1. j \in j .. n /\ t \in 1 .. m
        BY <1>1 DEF IInv, TypeOK
      <4>2. tkey[t] < dkey[j]
        BY <4>1 DEF IInv, LeftOverSound
      <4> QED
        BY <1>1, <3>2, <4>1, <4>2
    <3> QED
      BY <3>1, <3>2
  <2> QED
    BY <2>1, <2>2, <2>3 DEF LeftOverSound
<1> QED
  BY <1>3, <1>4, <1>5, <1>6, <1>7 DEF IInv

\* Both heads are new to the result.
LEMMA BothIInv ==
  ASSUME IInv, Both
  PROVE  IInv'
<1> USE DEF Both, SameKey
<1>1. /\ m \in Nat /\ n \in Nat /\ i \in Nat \ {0} /\ j \in Nat \ {0}
      /\ i <= m /\ j <= n
      /\ \A t \in 1 .. m : tkey[t] \in Int
      /\ \A d \in 1 .. n : dkey[d] \in Int
  BY Numbers DEF IInv
<1>2. \A p \in matched : p[1] \in 1 .. i - 1 /\ p[2] \in 1 .. j - 1
  BY <1>1 DEF IInv, TypeOK, Taken
<1>3. TypeOK'
  BY <1>1 DEF IInv, TypeOK
<1>4. InputsSorted'
  BY DEF IInv, InputsSorted, Sorted
<1>5. Taken'
  <2>1. ASSUME NEW t \in 1 .. m
        PROVE  t < i' <=> t \in leftOnly \/ \E p \in matched' : p[1] = t
    <3>1. t < i' <=> t < i \/ t = i
      BY <1>1
    <3>2. (\E p \in matched' : p[1] = t) <=> (\E p \in matched : p[1] = t) \/ t = i
      <4>1. <<i, j>>[1] = i
        OBVIOUS
      <4>2. \A p : p \in matched' <=> p \in matched \/ p = <<i, j>>
        OBVIOUS
      <4> HIDE DEF Both, SameKey
      <4> QED
        BY <4>1, <4>2
    <3>3. t < i <=> t \in leftOnly \/ \E p \in matched : p[1] = t
      BY DEF IInv, Taken
    <3> QED
      BY <3>1, <3>2, <3>3
  <2>2. ASSUME NEW d \in 1 .. n
        PROVE  d < j' <=> d \in rightOnly \/ \E p \in matched' : p[2] = d
    <3>1. d < j' <=> d < j \/ d = j
      BY <1>1
    <3>2. (\E p \in matched' : p[2] = d) <=> (\E p \in matched : p[2] = d) \/ d = j
      <4>1. <<i, j>>[2] = j
        OBVIOUS
      <4>2. \A p : p \in matched' <=> p \in matched \/ p = <<i, j>>
        OBVIOUS
      <4> HIDE DEF Both, SameKey
      <4> QED
        BY <4>1, <4>2
    <3>3. d < j <=> d \in rightOnly \/ \E p \in matched : p[2] = d
      BY DEF IInv, Taken
    <3> QED
      BY <3>1, <3>2, <3>3
  <2> QED
    BY <2>1, <2>2 DEF Taken
<1>6. PairsSound'
  BY <1>1, <1>2 DEF IInv, PairsSound
<1>7. LeftOverSound'
  BY <1>1 DEF IInv, LeftOverSound
<1>8. OldestFirst'
  <2>1. ASSUME NEW t \in leftOnly
        PROVE  tkey[t] < tkey[i]
    <3>1. j \in j .. n
      BY <1>1
    <3>2. tkey[t] < dkey[j]
      BY <2>1, <3>1 DEF IInv, LeftOverSound
    <3> QED
      BY <3>2
  <2> QED
    BY <2>1 DEF IInv, OldestFirst
<1> QED
  BY <1>3, <1>4, <1>5, <1>6, <1>7, <1>8 DEF IInv

\* The loop keeps its invariant (merge_join_by in compute_matches).
THEOREM Invariance == Spec => []IInv
<1>1. Init => IInv
  BY InitIInv
<1>2. IInv /\ [Next]_vars => IInv'
  <2> SUFFICES ASSUME IInv, [Next]_vars PROVE IInv'
    OBVIOUS
  <2>1. CASE Left \/ Right \/ Both
    BY <2>1, LeftIInv, RightIInv, BothIInv
  <2>2. CASE UNCHANGED vars
    BY <2>2 DEF vars, IInv, TypeOK, InputsSorted, Sorted, Taken, PairsSound,
                LeftOverSound, OldestFirst
  <2> QED
    BY <2>1, <2>2 DEF Next
<1> QED
  BY <1>1, <1>2, PTL DEF Spec

\* The loop stays inside its lists.
THEOREM TypeCorrect == Spec => []TypeOK
<1>1. IInv => TypeOK
  BY DEF IInv
<1> QED
  BY <1>1, Invariance, PTL

\* Equal keys are what the order book compares.
LEMMA BookKey ==
  ASSUME TypeOK, NEW t \in 1 .. m, NEW d \in 1 .. n
  PROVE  Book!SameKey(TransferAt(t), DepositAt(d)) <=> tkey[t] = dkey[d]
<1>1. TransferAt(t) \in Items /\ DepositAt(d) \in Items
  <2>1. t \in 1 .. MaxItems /\ d \in 1 .. MaxItems
    BY DEF TypeOK
  <2>2. tkey[t] \in Keys /\ dkey[d] \in Keys
    BY DEF TypeOK
  <2> QED
    BY <2>1, <2>2 DEF Items, TransferAt, DepositAt
<1>2. TransferAt(t)[2] = tkey[t] /\ DepositAt(d)[2] = dkey[d] /\ dkey[d] \in Keys
  BY DEF TypeOK, TransferAt, DepositAt
<1> QED
  BY <1>1, <1>2 DEF Book!SameKey, RowOf

\* What compute_matches returns is a pairing the order book's watcher may
\* choose: equal keys one to one, and no key left over on both sides.
THEOREM IsPairingHolds == Spec => []IsPairing
<1>1. IInv => IsPairing
  <2> SUFFICES ASSUME IInv, Done
               PROVE  Book!IsPairing(MatchedItems, TransferItems, DepositItems)
    BY DEF IsPairing
  <2>1. TypeOK /\ matched \subseteq (1 .. m) \X (1 .. n)
    BY DEF IInv, TypeOK
  <2>2. ASSUME NEW x \in MatchedItems
        PROVE  \E p \in matched : /\ p[1] \in 1 .. m /\ p[2] \in 1 .. n
                                  /\ x[1] = TransferAt(p[1]) /\ x[2] = DepositAt(p[2])
                                  /\ x = <<TransferAt(p[1]), DepositAt(p[2])>>
    BY <2>1 DEF MatchedItems
  <2>3. ASSUME NEW x \in MatchedItems
        PROVE  Book!SameKey(x[1], x[2])
    BY <2>1, <2>2, BookKey DEF IInv, PairsSound
  <2>4. ASSUME NEW x \in MatchedItems, NEW y \in MatchedItems,
               x[1] = y[1] \/ x[2] = y[2]
        PROVE  x = y
    <3>1. PICK p \in matched : /\ p[1] \in 1 .. m /\ p[2] \in 1 .. n
                              /\ x[1] = TransferAt(p[1]) /\ x[2] = DepositAt(p[2])
                              /\ x = <<TransferAt(p[1]), DepositAt(p[2])>>
      BY <2>2
    <3>2. PICK q \in matched : /\ q[1] \in 1 .. m /\ q[2] \in 1 .. n
                              /\ y[1] = TransferAt(q[1]) /\ y[2] = DepositAt(q[2])
                              /\ y = <<TransferAt(q[1]), DepositAt(q[2])>>
      BY <2>2
    <3>3. p[1] = q[1] \/ p[2] = q[2]
      BY <2>4, <3>1, <3>2 DEF TransferAt, DepositAt
    <3>4. p = q
      BY <3>3 DEF IInv, PairsSound
    <3> QED
      BY <3>1, <3>2, <3>4
  <2>5. ASSUME NEW t \in 1 .. m, NEW d \in 1 .. n,
               Book!SameKey(TransferAt(t), DepositAt(d))
        PROVE  \E p \in matched : p[1] = t \/ p[2] = d
    <3>1. tkey[t] = dkey[d]
      BY <2>1, <2>5, BookKey
    <3>2. t < i /\ d < j
      BY Numbers DEF IInv, Done
    <3>3. t \in leftOnly => ~(d \in rightOnly)
      BY <3>1 DEF IInv, LeftOverSound
    <3> QED
      BY <3>2, <3>3 DEF IInv, Taken
  <2>6. ASSUME NEW x \in TransferItems, NEW y \in DepositItems, Book!SameKey(x, y)
        PROVE  \E z \in MatchedItems : z[1] = x \/ z[2] = y
    <3>1. PICK t \in 1 .. m : x = TransferAt(t)
      BY DEF TransferItems
    <3>2. PICK d \in 1 .. n : y = DepositAt(d)
      BY DEF DepositItems
    <3>3. PICK p \in matched : p[1] = t \/ p[2] = d
      BY <2>5, <2>6, <3>1, <3>2
    <3>4. <<TransferAt(p[1]), DepositAt(p[2])>> \in MatchedItems
      BY DEF MatchedItems
    <3> QED
      BY <3>1, <3>2, <3>3, <3>4
  <2> QED
    BY <2>3, <2>4, <2>6 DEF Book!IsPairing
<1> QED
  BY <1>1, Invariance, PTL

\* Every transfer and every deposit is in a pair or left over.
THEOREM NothingLostHolds == Spec => []NothingLost
<1>1. IInv => NothingLost
  <2> SUFFICES ASSUME IInv, Done PROVE
        /\ \A t \in 1 .. m : t \in leftOnly \/ \E p \in matched : p[1] = t
        /\ \A d \in 1 .. n : d \in rightOnly \/ \E p \in matched : p[2] = d
    BY DEF NothingLost
  <2>1. (\A t \in 1 .. m : t < i) /\ (\A d \in 1 .. n : d < j)
    BY Numbers DEF IInv, Done
  <2> QED
    BY <2>1 DEF IInv, Taken
<1> QED
  BY <1>1, Invariance, PTL

\* Of the transfers of one key the oldest are matched.
THEOREM OldestFirstHolds == Spec => []OldestFirst
<1>1. IInv => OldestFirst
  BY DEF IInv
<1> QED
  BY <1>1, Invariance, PTL
=============================================================================
