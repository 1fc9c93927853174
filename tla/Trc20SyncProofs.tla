-------------------------- MODULE Trc20SyncProofs --------------------------
(***************************************************************************)
(* Trc20Sync for every page size, statement limit and number of transfers: *)
(* IInv is inductive, and NoGaps is part of it.                            *)
(*                                                                         *)
(* The argument: a sync starts no later than behind the rows (FromSound),  *)
(* and what its loop gathers has no gap above that start (ResultSound).    *)
(* Newest first, transfers that arrive between two pages push the rest     *)
(* back, so a later page overlaps the earlier ones and skips nothing;      *)
(* oldest first, they join at the end (PagesSound covers both).            *)
(***************************************************************************)
EXTENDS Trc20Sync, TLAPS

USE ConstantsAssumption DEF Transfers

\* Nothing is made and nothing recorded.
LEMMA InitIInv == Init => IInv
  BY SMT DEF Init, IInv, TypeOK, NoGaps, TimesSound, FromSound, PagesSound,
             ResultSound, NothingHeld, InRange, RangeTotal, Rank

\* A new transfer is last oldest first, and first newest first.
LEMMA MakeTransferIInv ==
  ASSUME IInv, MakeTransfer
  PROVE  IInv'
<1> USE DEF MakeTransfer, rowVars, runnerVars
<1>1. PICK ts : /\ ts \in {newest + 1} \cup {time[t] : t \in Transfers \cap {newest}}
                /\ time' = [time EXCEPT ![newest + 1] = ts]
  OBVIOUS
<1>2. ts \in 1 .. newest + 1
  BY <1>1 DEF IInv, TypeOK, TimesSound
<1>3. newest' \in 0 .. MaxTransfers /\ newest' = newest + 1
  BY DEF IInv, TypeOK
<1>4. TypeOK'
  BY <1>1, <1>2, <1>3 DEF IInv, TypeOK
<1>5. TimesSound'
  BY <1>1, <1>2, <1>3 DEF IInv, TypeOK, TimesSound
<1>6. NoGaps' /\ FromSound' /\ ResultSound' /\ NothingHeld'
  BY DEF IInv, NoGaps, FromSound, ResultSound, NothingHeld
<1>7. PagesSound'
  <2>1. fetched' <= RangeTotal'
    BY <1>3 DEF IInv, TypeOK, PagesSound, RangeTotal
  <2>2. ASSUME NEW t \in InRange', ascending', Rank(t)' <= fetched'
        PROVE  t \in got'
    BY <1>3, <2>2 DEF IInv, TypeOK, PagesSound, RangeTotal, InRange, Rank
  <2>3. ASSUME NEW u \in got', NEW t \in from' .. u, Rank(t)' <= fetched'
        PROVE  t \in got'
    BY <1>3, <2>3 DEF IInv, TypeOK, PagesSound, Rank
  <2> QED
    BY <2>1, <2>2, <2>3 DEF PagesSound
<1> QED
  BY <1>4, <1>5, <1>6, <1>7 DEF IInv

\* Time alone changes nothing that was read or recorded.
LEMMA AgeIInv ==
  ASSUME IInv, Age
  PROVE  IInv'
<1> USE DEF Age, rowVars, runnerVars
<1>1. TypeOK'
  BY DEF IInv, TypeOK
<1>2. NoGaps' /\ TimesSound' /\ FromSound' /\ ResultSound' /\ NothingHeld'
  BY DEF IInv, NoGaps, TimesSound, FromSound, ResultSound, NothingHeld
<1>3. PagesSound'
  BY DEF IInv, PagesSound, InRange, RangeTotal, Rank
<1> QED
  BY <1>1, <1>2, <1>3 DEF IInv

\* Nor does a confirmation.
LEMMA ConfirmTransferIInv ==
  ASSUME IInv, NEW t \in Transfers, ConfirmTransfer(t)
  PROVE  IInv'
<1> USE DEF ConfirmTransfer, chainVars, runnerVars
<1>1. TypeOK'
  BY DEF IInv, TypeOK
<1>2. NoGaps' /\ TimesSound' /\ FromSound' /\ ResultSound' /\ NothingHeld'
  BY DEF IInv, NoGaps, TimesSound, FromSound, ResultSound, NothingHeld
<1>3. PagesSound'
  BY DEF IInv, PagesSound, InRange, RangeTotal, Rank
<1> QED
  BY <1>1, <1>2, <1>3 DEF IInv

\* The cursor is the timestamp of a row, and so not behind the row.
LEMMA CursorSound ==
  ASSUME IInv, NEW ts \in StartTimestamps
  PROVE  /\ ts \in Nat \ {0}
         /\ ts = 1 \/ \E u \in recorded : ts <= u
<1>1. CASE recorded = {}
  BY <1>1 DEF StartTimestamps
<1>2. CASE recorded # {}
  <2>1. PICK u \in recorded : ts = time[u]
    BY <1>2 DEF StartTimestamps, Cursor
  <2>2. time[u] \in Nat /\ 1 <= time[u] /\ time[u] <= u
    BY <2>1 DEF IInv, TypeOK, TimesSound
  <2> QED
    BY <2>1, <2>2
<1> QED
  BY <1>1, <1>2

\* The pages of a runner that has gathered nothing.
LEMMA StartedPages ==
  ASSUME NEW n \in Nat, NEW f \in Nat \ {0}, f <= n + 1,
         newest' = n, from' = f, fetched' = 0, got' = {}
  PROVE  PagesSound'
<1>1. fetched' <= RangeTotal'
  BY DEF RangeTotal
<1>2. ASSUME NEW t \in InRange', ascending'
      PROVE  ~(Rank(t)' <= fetched')
  BY <1>2 DEF InRange, Rank
<1> QED
  BY <1>1, <1>2 DEF PagesSound

\* A sync starts with nothing gathered.
LEMMA GetStartTimestampIInv ==
  ASSUME IInv, GetStartTimestamp
  PROVE  IInv'
<1> USE DEF GetStartTimestamp, chainVars, rowVars
<1>1. /\ from' \in Nat \ {0}
      /\ from' = 1 \/ \E u \in recorded : from' <= u
  BY CursorSound
<1>2. fetched = 0 /\ got = {}
  BY DEF IInv, NothingHeld
<1>3. TypeOK' /\ FromSound'
  BY <1>1 DEF IInv, TypeOK, FromSound
<1>4. NoGaps' /\ TimesSound' /\ ResultSound' /\ NothingHeld'
  BY <1>2 DEF IInv, NoGaps, TimesSound, ResultSound, NothingHeld
<1>5. from' <= newest + 1
  BY <1>1 DEF IInv, TypeOK
<1>6. newest \in Nat
  BY DEF IInv, TypeOK
<1>7. PagesSound'
  BY <1>1, <1>2, <1>5, <1>6, StartedPages
<1> QED
  BY <1>3, <1>4, <1>7 DEF IInv

\* A page takes up where the offset ends, in the list of now.
LEMMA FetchTransfersIInv ==
  ASSUME IInv, FetchTransfers
  PROVE  IInv'
<1> USE DEF FetchTransfers, chainVars, rowVars
<1>1. /\ newest \in Nat /\ from \in Nat \ {0} /\ fetched \in Nat
      /\ got \subseteq 1 .. newest
  BY DEF IInv, TypeOK
<1>2. fetched <= RangeTotal
  BY DEF IInv, PagesSound
<1>3. /\ PageEnd \in Nat
      /\ fetched <= PageEnd
      /\ PageEnd <= RangeTotal
      /\ PageEnd <= fetched + PageSize
      /\ PageEnd = fetched + PageSize \/ PageEnd = RangeTotal
  BY <1>1, <1>2 DEF PageEnd, RangeTotal
<1>4. ASSUME NEW t \in InRange, fetched < Rank(t), Rank(t) <= PageEnd
      PROVE  t \in Page
  BY <1>1, <1>3, <1>4 DEF Page, Rank, InRange
<1>5. ASSUME NEW u \in Page
      PROVE  u \in from .. newest /\ fetched < Rank(u)
  BY <1>5 DEF Page, InRange
<1>6. ASSUME NEW t \in InRange, ascending, Rank(t) <= PageEnd
      PROVE  t \in got \cup Page
  <2>1. CASE Rank(t) <= fetched
    BY <1>6, <2>1 DEF IInv, PagesSound
  <2>2. CASE ~(Rank(t) <= fetched)
    <3>1. fetched < Rank(t)
      BY <1>1, <2>2 DEF Rank, InRange
    <3> QED
      BY <1>4, <1>6, <3>1
  <2> QED
    BY <2>1, <2>2
<1>7. ASSUME NEW u \in got \cup Page, NEW t \in from .. u, Rank(t) <= PageEnd
      PROVE  t \in got \cup Page
  <2>1. t \in InRange
    BY <1>1, <1>5, <1>7 DEF InRange
  <2>2. CASE Rank(t) <= fetched /\ u \in got
    BY <1>7, <2>2 DEF IInv, PagesSound
  <2>3. CASE Rank(t) <= fetched /\ u \in Page /\ ascending
    BY <2>1, <2>3 DEF IInv, PagesSound
  <2>4. CASE Rank(t) <= fetched /\ u \in Page /\ ~ascending
    <3>1. newest - t + 1 <= fetched /\ fetched < newest - u + 1
      BY <1>5, <2>4 DEF Rank
    <3> QED
      BY <1>1, <1>5, <1>7, <2>4, <3>1
  <2>5. CASE ~(Rank(t) <= fetched)
    <3>1. fetched < Rank(t)
      BY <1>1, <2>1, <2>5 DEF Rank, InRange
    <3> QED
      BY <1>4, <1>7, <2>1, <3>1
  <2> QED
    BY <1>7, <2>2, <2>3, <2>4, <2>5
<1>8. TypeOK'
  <2>1. ASSUME NEW u \in Page
        PROVE  u \in 1 .. newest
    BY <1>1, <1>5, <2>1
  <2>2. got' \subseteq 1 .. newest
    BY <1>1, <2>1
  <2> QED
    BY <1>1, <1>3, <2>2 DEF IInv, TypeOK
<1>9. NoGaps' /\ TimesSound' /\ FromSound' /\ NothingHeld'
  BY DEF IInv, NoGaps, TimesSound, FromSound, NothingHeld
<1>10. PagesSound'
  BY <1>3, <1>6, <1>7 DEF PagesSound, InRange, RangeTotal, Rank
<1>11. ResultSound'
  <2> SUFFICES ASSUME pc' = "insert", NEW u \in got', NEW t \in from .. u
               PROVE  t \in got'
    BY DEF ResultSound
  <2>1. PageEnd = RangeTotal
    BY <1>1, <1>3 DEF RangeTotal
  <2>2. u \in 1 .. newest
    BY <1>1, <1>5
  <2>3. Rank(t) <= PageEnd
    BY <1>1, <2>1, <2>2 DEF Rank, RangeTotal
  <2> QED
    BY <1>7, <2>3
<1> QED
  BY <1>8, <1>9, <1>10, <1>11 DEF IInv

\* What holds of a runner that has dropped everything.
LEMMA EndSyncParts ==
  ASSUME IInv, UNCHANGED chainVars, from' = 1, fetched' = 0, got' = {},
         pc' \in {"idle", "emit"}, recorded' \subseteq 1 .. newest,
         confirmed' \subseteq recorded'
  PROVE  /\ TypeOK' /\ TimesSound' /\ FromSound'
         /\ PagesSound' /\ ResultSound' /\ NothingHeld'
<1> USE DEF chainVars
<1>1. TypeOK' /\ TimesSound' /\ FromSound'
  BY DEF IInv, TypeOK, TimesSound, FromSound
<1>2. PagesSound'
  BY DEF IInv, TypeOK, PagesSound, InRange, RangeTotal, Rank
<1>3. ResultSound' /\ NothingHeld'
  BY DEF ResultSound, NothingHeld
<1> QED
  BY <1>1, <1>2, <1>3

\* The loop's result continues the rows.
LEMMA InsertTransfersIInv ==
  ASSUME IInv, InsertTransfers
  PROVE  IInv'
<1> USE DEF InsertTransfers, EndSync
<1>1. /\ TypeOK' /\ TimesSound' /\ FromSound'
      /\ PagesSound' /\ ResultSound' /\ NothingHeld'
  <2>1. recorded' \subseteq 1 .. newest /\ confirmed' \subseteq recorded'
    BY DEF IInv, TypeOK
  <2> QED
    BY <2>1, EndSyncParts
<1>2. NoGaps'
  <2> SUFFICES ASSUME NEW u \in recorded', NEW t \in 1 .. u
               PROVE  t \in recorded'
    BY DEF NoGaps
  <2>1. CASE u \in recorded
    BY <2>1 DEF IInv, NoGaps
  <2>2. CASE u \in got /\ from <= t
    <3>1. t \in from .. u
      BY <2>2 DEF IInv, TypeOK
    <3> QED
      BY <2>2, <3>1 DEF IInv, ResultSound
  <2>3. CASE u \in got /\ ~(from <= t)
    <3>1. PICK v \in recorded : from <= v
      BY <2>3 DEF IInv, TypeOK, FromSound
    <3>2. t \in 1 .. v
      BY <2>3, <3>1 DEF IInv, TypeOK
    <3> QED
      BY <3>1, <3>2 DEF IInv, NoGaps
  <2> QED
    BY <2>1, <2>2, <2>3
<1> QED
  BY <1>1, <1>2 DEF IInv

\* A failed call drops all pages.
LEMMA FailSyncIInv ==
  ASSUME IInv, FailSync
  PROVE  IInv'
<1> USE DEF FailSync, EndSync, rowVars
<1>1. recorded' \subseteq 1 .. newest /\ confirmed' \subseteq recorded'
  BY DEF IInv, TypeOK
<1>2. NoGaps'
  BY DEF IInv, NoGaps
<1> QED
  BY <1>1, <1>2, EndSyncParts DEF IInv

\* The runner is idle again.
LEMMA EmitMatchTickIInv ==
  ASSUME IInv, EmitMatchTick
  PROVE  IInv'
<1> USE DEF EmitMatchTick, chainVars, rowVars
<1>1. TypeOK' /\ NoGaps' /\ TimesSound' /\ FromSound'
  BY DEF IInv, TypeOK, NoGaps, TimesSound, FromSound
<1>2. PagesSound' /\ ResultSound' /\ NothingHeld'
  BY DEF IInv, PagesSound, ResultSound, NothingHeld, InRange, RangeTotal, Rank
<1> QED
  BY <1>1, <1>2 DEF IInv

\* So it is after a restart, wherever the sync was.
LEMMA RestartIInv ==
  ASSUME IInv, Restart
  PROVE  IInv'
<1> USE DEF Restart, rowVars
<1>1. recorded' \subseteq 1 .. newest /\ confirmed' \subseteq recorded'
  BY DEF IInv, TypeOK
<1>2. NoGaps'
  BY DEF IInv, NoGaps
<1> QED
  BY <1>1, <1>2, EndSyncParts DEF IInv

\* A step that changes no variable keeps the invariant.
LEMMA StutterIInv ==
  ASSUME IInv, UNCHANGED vars
  PROVE  IInv'
  BY DEF IInv, vars, chainVars, rowVars, runnerVars, TypeOK, NoGaps, TimesSound,
         FromSound, PagesSound, ResultSound, NothingHeld, InRange, RangeTotal, Rank

\* The rows have no gap, and a sync leaves none, whatever arrives between its
\* pages, in either order of the explorer (get_start_timestamp, sync,
\* insert_transfers).
THEOREM Invariance == Spec => []IInv
<1>1. Init => IInv
  BY InitIInv
<1>2. IInv /\ [Next]_vars => IInv'
  <2> SUFFICES ASSUME IInv, [Next]_vars PROVE IInv'
    OBVIOUS
  <2>1. CASE MakeTransfer
    BY <2>1, MakeTransferIInv
  <2>2. CASE Age
    BY <2>2, AgeIInv
  <2>3. CASE \E t \in Transfers : ConfirmTransfer(t)
    BY <2>3, ConfirmTransferIInv
  <2>4. CASE GetStartTimestamp
    BY <2>4, GetStartTimestampIInv
  <2>5. CASE FetchTransfers
    BY <2>5, FetchTransfersIInv
  <2>6. CASE InsertTransfers
    BY <2>6, InsertTransfersIInv
  <2>7. CASE FailSync
    BY <2>7, FailSyncIInv
  <2>8. CASE EmitMatchTick
    BY <2>8, EmitMatchTickIInv
  <2>9. CASE Restart
    BY <2>9, RestartIInv
  <2>10. CASE UNCHANGED vars
    BY <2>10, StutterIInv
  <2> QED
    BY <2>1, <2>2, <2>3, <2>4, <2>5, <2>6, <2>7, <2>8, <2>9, <2>10
       DEF Next, ChainStep, SyncStep
<1> QED
  BY <1>1, <1>2, PTL DEF Spec

\* Chain, rows, and runner keep their types: no row, page or confirmation is
\* of a transfer that was not made.
THEOREM TypeCorrect == Spec => []TypeOK
<1>1. IInv => TypeOK
  BY DEF IInv
<1> QED
  BY <1>1, Invariance, PTL

\* The rows are those of all transfers up to one of them: the next sync, which
\* starts at a row, skips nothing.
THEOREM NoGapsHolds == Spec => []NoGaps
<1>1. IInv => NoGaps
  BY DEF IInv
<1> QED
  BY <1>1, Invariance, PTL

----------------------------------------------------------------------------
(***************************************************************************)
(* Refinement of the order book's transfer table.                          *)
(***************************************************************************)

\* The same table is a stutter of the book.
LEMMA BookStutter ==
  ASSUME UNCHANGED <<recorded, confirmed>>
  PROVE  UNCHANGED Book!vars
  BY DEF Book!vars, Book!orderVars, Book!txVars, Book!watcherVars, TableStatus, Nothing

\* A confirmation is the book's.
LEMMA BookConfirm ==
  ASSUME TypeOK, NEW t \in Transfers, ConfirmTransfer(t)
  PROVE  [Book!Next]_(Book!vars)
<1>1. TableStatus[t] = "waiting_for_confirmation"
  BY DEF ConfirmTransfer, TableStatus
<1>2. recorded' = recorded /\ confirmed' = confirmed \cup {t} /\ t \in recorded
  BY DEF ConfirmTransfer
<1>3. \A u \in Transfers : TableStatus'[u] =
        IF u = t THEN "waiting_for_match" ELSE TableStatus[u]
  BY <1>2 DEF TableStatus
<1>4. TableStatus' = [TableStatus EXCEPT ![t] = "waiting_for_match"]
  BY <1>3 DEF TableStatus
<1>5. Book!ConfirmTransfer(t)
  BY <1>1, <1>4 DEF Book!ConfirmTransfer, Book!SettleConfirmation,
     Book!orderVars, Book!watcherVars, Nothing
<1> QED
  BY <1>5 DEF Book!Next, Book!Work, Book!TransferStep

\* Pages without a new transfer are a stutter, any others the book's insert.
LEMMA BookInsert ==
  ASSUME TypeOK, InsertTransfers
  PROVE  [Book!Next]_(Book!vars)
<1>1. /\ recorded' = recorded \cup got /\ confirmed' = confirmed
      /\ got \subseteq Transfers /\ confirmed \subseteq recorded
  BY DEF InsertTransfers, TypeOK
<1>2. CASE got \subseteq recorded
  BY <1>1, <1>2, BookStutter
<1>3. CASE ~(got \subseteq recorded)
  <2>1. ASSUME NEW t \in Transfers
        PROVE  TableStatus[t] = "absent" <=> t \notin recorded
    <3>1. TableStatus[t] = CASE t \notin recorded -> "absent"
                             [] t \in confirmed   -> "waiting_for_match"
                             [] OTHER             -> "waiting_for_confirmation"
      BY DEF TableStatus
    <3> QED
      BY <1>1, <3>1
  <2>2. \A t \in Transfers : TableStatus'[t] =
          IF t \in got /\ TableStatus[t] = "absent"
            THEN "waiting_for_confirmation" ELSE TableStatus[t]
    BY <1>1, <2>1 DEF TableStatus
  <2>3. TableStatus' = [t \in Transfers |->
          IF t \in got /\ TableStatus[t] = "absent"
            THEN "waiting_for_confirmation" ELSE TableStatus[t]]
    BY <2>2 DEF TableStatus
  <2>4. Book!InsertTransfers(got)
    BY <1>1, <1>3, <2>1, <2>3
       DEF Book!InsertTransfers, Book!orderVars, Book!watcherVars, Nothing
  <2>5. got \in SUBSET {t \in Transfers : [u \in Transfers |-> "pair"][t] = "pair"}
    BY <1>1
  <2> QED
    BY <2>4, <2>5 DEF Book!Next, Book!Work, Book!TransferStep
<1> QED
  BY <1>2, <1>3

\* Every step of the chain and of the sync is a step or a stutter of the book.
LEMMA BookStep == TypeOK /\ [Next]_vars => [Book!Next]_(Book!vars)
<1> SUFFICES ASSUME TypeOK, [Next]_vars
             PROVE  [Book!Next]_(Book!vars)
  OBVIOUS
<1>1. CASE UNCHANGED <<recorded, confirmed>>
  BY <1>1, BookStutter
<1> USE DEF rowVars
<1>2. CASE ChainStep
  BY <1>2, <1>1, BookConfirm DEF ChainStep, MakeTransfer, Age
<1>3. CASE SyncStep
  BY <1>3, <1>1, BookInsert DEF SyncStep, GetStartTimestamp, FetchTransfers,
     FailSync, EmitMatchTick, Restart
<1>4. CASE UNCHANGED vars
  BY <1>4, <1>1 DEF vars
<1> QED
  BY <1>2, <1>3, <1>4 DEF Next

\* No row, no transfer of the book.
LEMMA BookInit == Init => Book!Init
  BY DEF Init, Book!Init, TableStatus, Nothing

\* Gathered over many pages and inserted at once, again and again, the rows
\* change as the order book assumes of its one-step sync.
THEOREM BookRefinement == Spec => BookSpec
<1>1. Spec => []TypeOK
  BY TypeCorrect
<1> QED
  BY <1>1, BookInit, BookStep, PTL DEF Spec, Book!Spec, BookSpec
=============================================================================
