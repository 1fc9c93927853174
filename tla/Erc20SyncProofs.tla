-------------------------- MODULE Erc20SyncProofs --------------------------
(***************************************************************************)
(* Erc20Sync for every set of transfers, page size, start block, height    *)
(* and number of forks: IInv is inductive, and NothingSkipped follows.     *)
(*                                                                         *)
(* The argument: the explorer's page has everything between its start and  *)
(* its end (PageSound), it starts no further than the newest row           *)
(* (FromSound), and up to there nothing was missing (RowsClosed).          *)
(***************************************************************************)
EXTENDS Erc20Sync, TLAPS

USE ConstantsAssumption

\* The chain starts empty, without a row.
LEMMA InitIInv == Init => IInv
  BY SMT DEF Init, IInv, TypeOK, Heights, RowsClosed, CursorSound, FromSound,
             PageHeld, PageSound, NoPage, Expected, Made, HasRows

\* Rows of the same transactions are still there after a step that keeps rows.
LEMMA RecordedKept ==
  ASSUME UNCHANGED row, NEW t \in Transfers
  PROVE  Recorded(t)' <=> Recorded(t)
  BY DEF Recorded

\* The cursor the view computes is the block of one of the rows.
LEMMA CursorIsARow ==
  ASSUME NEW r, NEW done, NEW b \in CursorOf(r, done)
  PROVE  \E t \in Transfers : r[t] > 0 /\ b = r[t]
  BY DEF CursorOf, Rows

\* A new transfer is beyond every row and page, or in a rewritten block.
LEMMA MakeTransfersIInv ==
  ASSUME IInv, NEW t \in Transfers, MakeTransfers(t)
  PROVE  IInv'
<1> USE DEF MakeTransfers, rowVars, runnerVars
<1>1. TypeOK'
  BY DEF IInv, TypeOK, OfTransaction
<1>2. Heights'
  BY DEF IInv, TypeOK, Heights
<1>3. ASSUME NEW u \in Transfers, Expected(u)'
      PROVE  \/ Expected(u) /\ block'[u] = block[u]
             \/ block'[u] = height /\ height > fork
  BY <1>3 DEF IInv, TypeOK, Expected, Made
<1>4. RowsClosed'
  <2> SUFFICES ASSUME NEW u \in Transfers, NEW v \in Transfers,
                      Expected(u)', block'[u] < row[v]
               PROVE  Recorded(u)'
    BY DEF RowsClosed
  <2>1. CASE Expected(u) /\ block'[u] = block[u]
    BY <2>1, RecordedKept DEF IInv, RowsClosed
  <2>2. CASE block'[u] = height /\ height > fork
    BY <2>2 DEF IInv, TypeOK, Heights
  <2> QED
    BY <1>3, <2>1, <2>2
<1>5. PageSound'
  <2> SUFFICES ASSUME NEW u \in Transfers, NEW v \in Transfers,
                      Expected(u)', page[u] = 0, block'[u] < page[v]
               PROVE  block'[u] < from
    BY DEF PageSound
  <2>1. CASE Expected(u) /\ block'[u] = block[u]
    BY <2>1 DEF IInv, PageSound
  <2>2. CASE block'[u] = height /\ height > fork
    BY <2>2 DEF IInv, TypeOK, Heights
  <2> QED
    BY <1>3, <2>1, <2>2
<1>6. CursorSound' /\ FromSound' /\ PageHeld'
  BY DEF IInv, CursorSound, FromSound, PageHeld, HasRows, NoPage
<1> QED
  BY <1>1, <1>2, <1>4, <1>5, <1>6 DEF IInv

\* A step that takes transfers from the chain at most, and leaves the rows and
\* the runner alone, disturbs none of the parts that relate them.
LEMMA ShorterChain ==
  ASSUME IInv, UNCHANGED <<row, cursor, rewritten, runnerVars>>,
         \A t \in Transfers : block'[t] \in {0, block[t]}
  PROVE  RowsClosed' /\ PageSound' /\ CursorSound' /\ FromSound' /\ PageHeld'
<1> USE DEF runnerVars
<1>1. ASSUME NEW t \in Transfers, Expected(t)'
      PROVE  Expected(t) /\ block'[t] = block[t]
  BY <1>1 DEF IInv, TypeOK, Expected, Made
<1>2. RowsClosed'
  BY <1>1, RecordedKept DEF IInv, RowsClosed
<1>3. PageSound'
  BY <1>1 DEF IInv, PageSound
<1>4. CursorSound' /\ FromSound' /\ PageHeld'
  BY DEF IInv, CursorSound, FromSound, PageHeld, HasRows, NoPage
<1> QED
  BY <1>2, <1>3, <1>4

\* The chain grows by an empty block.
LEMMA NextBlockIInv ==
  ASSUME IInv, NextBlock
  PROVE  IInv'
<1> USE DEF NextBlock, rowVars, runnerVars
<1>1. TypeOK' /\ Heights'
  BY DEF IInv, TypeOK, Heights
<1>2. RowsClosed' /\ PageSound' /\ CursorSound' /\ FromSound' /\ PageHeld'
  BY ShorterChain
<1> QED
  BY <1>1, <1>2 DEF IInv

\* What was read of the replaced blocks lies at or below the new fork.
LEMMA ReorgIInv ==
  ASSUME IInv, NEW b \in 1 .. height, Reorg(b)
  PROVE  IInv'
<1> USE DEF Reorg, rowVars, runnerVars
<1>1. TypeOK'
  BY DEF IInv, TypeOK
<1>2. Heights'
  BY DEF IInv, TypeOK, Heights
<1>3. \A t \in Transfers : block'[t] \in {0, block[t]}
  OBVIOUS
<1>4. RowsClosed' /\ PageSound' /\ CursorSound' /\ FromSound' /\ PageHeld'
  BY <1>3, ShorterChain
<1> QED
  BY <1>1, <1>2, <1>4 DEF IInv

\* Time alone changes nothing that was read or recorded.
LEMMA AgeIInv ==
  ASSUME IInv, NEW t \in Transfers, Age(t)
  PROVE  IInv'
<1> USE DEF Age, chainVars, runnerVars
<1>1. TypeOK' /\ Heights'
  BY DEF IInv, TypeOK, Heights
<1>2. RowsClosed' /\ PageSound' /\ CursorSound' /\ FromSound' /\ PageHeld'
  BY ShorterChain
<1> QED
  BY <1>1, <1>2 DEF IInv

\* A refreshed cursor is the block of a row.
LEMMA RefreshedIInv ==
  ASSUME IInv, NEW done, cursor' \in CursorOf(row, done),
         confirmed' \subseteq Transfers,
         UNCHANGED <<chainVars, row, aged, runnerVars>>
  PROVE  IInv'
<1> USE DEF chainVars, runnerVars
<1>1. PICK u \in Transfers : cursor' = row[u]
  BY CursorIsARow
<1>2. TypeOK'
  BY <1>1 DEF IInv, TypeOK
<1>3. CursorSound'
  BY <1>1 DEF IInv, TypeOK, CursorSound
<1>4. UNCHANGED <<block, rewritten, height, fork, row, page, from, pc>>
  OBVIOUS
<1>5. Heights' /\ RowsClosed' /\ FromSound' /\ PageHeld' /\ PageSound'
  BY <1>4 DEF IInv, Heights, RowsClosed, FromSound, PageHeld, PageSound,
              Expected, Made, Recorded, NoPage
<1> QED
  BY <1>2, <1>3, <1>5 DEF IInv

\* The view is refreshed by a confirmation, or by another pair's statement.
LEMMA RefreshIInv ==
  ASSUME IInv, RefreshView \/ \E t \in Transfers : ConfirmTransfer(t)
  PROVE  IInv'
<1>1. CASE RefreshView
  BY <1>1, RefreshedIInv DEF RefreshView, IInv, TypeOK
<1>2. CASE \E t \in Transfers : ConfirmTransfer(t)
  BY <1>2, RefreshedIInv DEF ConfirmTransfer, IInv, TypeOK
<1> QED
  BY <1>1, <1>2

----------------------------------------------------------------------------
\* The sync starts at the cursor, which no row is below.
LEMMA GetStartBlockIInv ==
  ASSUME IInv, GetStartBlock
  PROVE  IInv'
<1> USE DEF GetStartBlock, chainVars, rowVars
<1>1. from' \in Nat
  BY DEF IInv, TypeOK, StartBlocks
<1>2. TypeOK' /\ Heights'
  BY <1>1 DEF IInv, TypeOK, Heights
<1>3. FromSound'
  BY DEF IInv, TypeOK, FromSound, CursorSound, StartBlocks
<1>4. page' = [t \in Transfers |-> 0]
  BY DEF IInv, PageHeld, NoPage
<1>5. PageSound' /\ PageHeld'
  BY <1>4 DEF IInv, TypeOK, PageSound, PageHeld, NoPage, Expected, Made
<1>6. RowsClosed' /\ CursorSound'
  BY DEF IInv, RowsClosed, CursorSound, HasRows, Expected, Made, Recorded
<1> QED
  BY <1>2, <1>3, <1>5, <1>6 DEF IInv

\* The page has every transfer between its start and its last block, but for
\* some of that block.
LEMMA FetchTransfersIInv ==
  ASSUME IInv, FetchTransfers
  PROVE  IInv'
<1> USE DEF FetchTransfers, chainVars, rowVars
<1>1. PICK S \in SUBSET Transfers :
        /\ IsPage(S)
        /\ page' = [t \in Transfers |-> IF t \in S THEN block[t] ELSE 0]
  OBVIOUS
<1>2. TypeOK' /\ Heights'
  BY <1>1 DEF IInv, TypeOK, Heights
<1>3. PageSound'
  <2> SUFFICES ASSUME NEW t \in Transfers, NEW u \in Transfers,
                      Expected(t), page'[t] = 0, block[t] < page'[u]
               PROVE  block[t] < from
    BY DEF PageSound, Expected, Made
  <2>1. t \notin S
    BY <1>1 DEF Expected, Made, IInv, TypeOK
  <2>2. u \in S /\ block[t] < block[u]
    BY <1>1 DEF IInv, TypeOK
  <2>3. t \notin Shown
    BY <1>1, <2>1, <2>2 DEF IsPage, IInv, TypeOK
  <2> QED
    BY <2>3 DEF Shown, Expected, Made, IInv, TypeOK
<1>4. RowsClosed' /\ CursorSound' /\ FromSound' /\ PageHeld'
  BY DEF IInv, RowsClosed, CursorSound, FromSound, PageHeld,
         HasRows, Expected, Made, Recorded
<1> QED
  BY <1>2, <1>3, <1>4 DEF IInv

\* What is missing below a new row was on its page, or was recorded before.
LEMMA InsertTransfersIInv ==
  ASSUME IInv, InsertTransfers
  PROVE  IInv'
<1> USE DEF InsertTransfers, EndSync, chainVars
<1>1. PICK new \in SUBSET ToInsert :
        /\ \A t \in ToInsert : Recorded(t) \/ \E u \in new : Txn[u] = Txn[t]
        /\ row' = [t \in Transfers |-> IF t \in new THEN page[t] ELSE row[t]]
        /\ \A t \in new : ~Recorded(t)
  OBVIOUS
<1>2. \A t \in new : t \in Transfers /\ page[t] > 0
  BY DEF ToInsert
<1>3. PICK u \in Transfers : cursor' = row'[u]
  BY CursorIsARow
<1>4. row' \in [Transfers -> Nat]
  BY <1>1 DEF IInv, TypeOK
<1>5. TypeOK'
  BY <1>3, <1>4 DEF IInv, TypeOK, NoPage
<1>6. Heights'
  BY <1>1 DEF IInv, TypeOK, Heights, NoPage
<1>7. \A t \in Transfers : Recorded(t) => Recorded(t)'
  BY <1>1, <1>2 DEF Recorded, IInv, TypeOK
<1>8. RowsClosed'
  <2> SUFFICES ASSUME NEW t \in Transfers, NEW v \in Transfers,
                      Expected(t), block[t] < row'[v]
               PROVE  Recorded(t)'
    BY DEF RowsClosed, Expected, Made
  <2>1. CASE v \notin new
    BY <1>1, <1>7, <2>1 DEF IInv, RowsClosed
  <2>2. CASE v \in new /\ page[t] > 0
    <3>1. t \in ToInsert
      BY <2>2 DEF ToInsert, Expected
    <3>2. CASE Recorded(t)
      BY <1>7, <3>2
    <3>3. CASE \E w \in new : Txn[w] = Txn[t]
      BY <1>1, <1>2, <3>3 DEF Recorded
    <3> QED
      BY <1>1, <3>1, <3>2, <3>3
  <2>3. CASE v \in new /\ page[t] = 0
    <3>1. block[t] < from
      BY <1>1, <2>3 DEF IInv, PageSound
    <3>2. PICK w \in Transfers : from <= row[w]
      BY <3>1 DEF IInv, TypeOK, FromSound, Expected
    <3>3. block[t] < row[w]
      BY <3>1, <3>2 DEF IInv, TypeOK
    <3> QED
      BY <1>7, <3>3 DEF IInv, RowsClosed
  <2> QED
    BY <2>1, <2>2, <2>3 DEF IInv, TypeOK
<1>9. CursorSound'
  BY <1>3, <1>4 DEF CursorSound
<1>10. FromSound' /\ PageHeld' /\ PageSound'
  BY DEF FromSound, PageHeld, PageSound, NoPage, IInv, TypeOK, Expected, Made
<1> QED
  BY <1>5, <1>6, <1>8, <1>9, <1>10 DEF IInv

\* A sync that ends without an insert drops its page.
LEMMA DropPage ==
  ASSUME IInv, UNCHANGED <<chainVars, rowVars>>,
         from' = 0, page' = NoPage, pc' \in {"idle", "emit"}
  PROVE  IInv'
<1> USE DEF chainVars, rowVars, NoPage
<1>1. TypeOK' /\ Heights'
  BY DEF IInv, TypeOK, Heights
<1>2. RowsClosed' /\ CursorSound'
  BY DEF IInv, RowsClosed, CursorSound, HasRows, Expected, Made, Recorded
<1>3. FromSound' /\ PageHeld'
  BY DEF FromSound, PageHeld
<1>4. PageSound'
  BY DEF PageSound, IInv, TypeOK, Expected, Made
<1> QED
  BY <1>1, <1>2, <1>3, <1>4 DEF IInv

\* The tick for the watchers leaves only the program counter behind.
LEMMA EmitMatchTickIInv ==
  ASSUME IInv, EmitMatchTick
  PROVE  IInv'
<1> USE DEF EmitMatchTick, chainVars, rowVars
<1>1. UNCHANGED <<block, height, fork, reorgs, rewritten, row, confirmed,
                  aged, cursor, from, page>>
  OBVIOUS
<1>2. TypeOK' /\ PageHeld'
  BY <1>1 DEF IInv, TypeOK, PageHeld, NoPage
<1>3. Heights' /\ RowsClosed' /\ CursorSound' /\ FromSound' /\ PageSound'
  BY <1>1 DEF IInv, Heights, RowsClosed, CursorSound, FromSound, PageSound,
              HasRows, Expected, Made, Recorded
<1> QED
  BY <1>2, <1>3 DEF IInv

\* Stuttering changes nothing.
LEMMA StutterIInv ==
  ASSUME IInv, UNCHANGED vars
  PROVE  IInv'
  BY DEF IInv, vars, chainVars, rowVars, runnerVars, TypeOK, Heights,
         RowsClosed, CursorSound, FromSound, PageHeld, PageSound,
         HasRows, Expected, Made, Recorded, NoPage

\* Every step keeps the invariant.
LEMMA NextIInv == IInv /\ [Next]_vars => IInv'
<1> SUFFICES ASSUME IInv, [Next]_vars
             PROVE  IInv'
  OBVIOUS
<1>1. CASE ChainStep
  BY <1>1, MakeTransfersIInv, AgeIInv, RefreshIInv, NextBlockIInv, ReorgIInv
     DEF ChainStep
<1>2. CASE SyncStep
  <2>1. CASE NothingToInsert \/ FailSync \/ Restart
    BY <2>1, DropPage DEF NothingToInsert, FailSync, Restart, EndSync
  <2> QED
    BY <1>2, <2>1, GetStartBlockIInv, FetchTransfersIInv, InsertTransfersIInv,
       EmitMatchTickIInv DEF SyncStep
<1>3. CASE UNCHANGED vars
  BY <1>3, StutterIInv
<1> QED
  BY <1>1, <1>2, <1>3 DEF Next

----------------------------------------------------------------------------
\* The invariant holds in every run, for all constants.
THEOREM Invariance == Spec => []IInv
<1>1. Init => IInv
  BY InitIInv
<1>2. IInv /\ [Next]_vars => IInv'
  BY NextIInv
<1> QED
  BY <1>1, <1>2, PTL DEF Spec

\* Chain, rows, view and runner keep their types.
THEOREM TypeCorrect == Spec => []TypeOK
<1>1. IInv => TypeOK
  BY DEF IInv
<1> QED
  BY <1>1, Invariance, PTL

\* The cursor passes no incoming transfer that is not recorded.
THEOREM NothingSkippedHolds == Spec => []NothingSkipped
<1>1. IInv => NothingSkipped
  <2> SUFFICES ASSUME IInv, NEW t \in Transfers, Expected(t), Passed(t)
               PROVE  Recorded(t)
    BY DEF NothingSkipped
  <2>1. PICK u \in Transfers : cursor <= row[u]
    BY DEF IInv, CursorSound, Passed
  <2>2. block[t] < row[u]
    BY <2>1 DEF IInv, TypeOK, Passed
  <2> QED
    BY <2>2 DEF IInv, RowsClosed
<1> QED
  BY <1>1, Invariance, PTL

----------------------------------------------------------------------------
(***************************************************************************)
(* Refinement of the order book's transfer table.                          *)
(***************************************************************************)

\* No row is taken away, and a confirmed one has one already.
LEMMA ConfirmedSoundStep ==
  ASSUME TypeOK, ConfirmedSound, [Next]_vars
  PROVE  ConfirmedSound'
<1> USE DEF ConfirmedSound
<1>1. CASE \E t \in Transfers : ConfirmTransfer(t)
  BY <1>1 DEF ConfirmTransfer
<1>2. CASE InsertTransfers
  BY <1>2 DEF InsertTransfers, ToInsert, TypeOK
<1>3. CASE UNCHANGED <<row, confirmed>>
  BY <1>3
<1> QED
  <2> USE DEF rowVars
  <2>1. CASE ChainStep
    BY <2>1, <1>1, <1>3 DEF ChainStep, MakeTransfers, Age, NextBlock, RefreshView, Reorg
  <2>2. CASE SyncStep
    BY <2>2, <1>2, <1>3 DEF SyncStep, GetStartBlock, FetchTransfers,
       NothingToInsert, FailSync, EmitMatchTick, Restart
  <2>3. CASE UNCHANGED vars
    BY <2>3, <1>3 DEF vars
  <2> QED
    BY <2>1, <2>2, <2>3 DEF Next

\* The same table is a stutter of the book.
LEMMA BookStutter ==
  ASSUME UNCHANGED <<row, confirmed>>
  PROVE  UNCHANGED Book!vars
  BY DEF Book!vars, Book!orderVars, Book!txVars, Book!watcherVars, TableStatus, Nothing

\* A confirmation is the book's, if it is of a transfer to the wallet.
LEMMA BookConfirm ==
  ASSUME TypeOK, NEW t \in Transfers, ConfirmTransfer(t)
  PROVE  [Book!Next]_(Book!vars)
<1>1. CASE t \in Incoming
  <2>1. TableStatus[t] = "waiting_for_confirmation"
    BY <1>1 DEF ConfirmTransfer, TableStatus, TypeOK
  <2>2. TableStatus' = [TableStatus EXCEPT ![t] = "waiting_for_match"]
    <3>1. row' = row /\ confirmed' = confirmed \cup {t} /\ row[t] # 0
      BY DEF ConfirmTransfer, TypeOK
    <3>2. \A u \in Incoming : TableStatus'[u] =
            IF u = t THEN "waiting_for_match" ELSE TableStatus[u]
      BY <3>1 DEF TableStatus
    <3> QED
      BY <1>1, <3>2 DEF TableStatus
  <2>3. Book!ConfirmTransfer(t)
    BY <2>1, <2>2 DEF Book!ConfirmTransfer, Book!SettleConfirmation,
       Book!orderVars, Book!watcherVars, Nothing
  <2> QED
    BY <1>1, <2>3 DEF Book!Next, Book!Work, Book!TransferStep
<1>2. CASE t \notin Incoming
  <2>1. TableStatus' = TableStatus
    BY <1>2 DEF ConfirmTransfer, TableStatus
  <2> QED
    BY <2>1 DEF Book!vars, Book!orderVars, Book!txVars, Book!watcherVars, Nothing
<1> QED
  BY <1>1, <1>2

\* A page without a new transfer is a stutter, any other one the book's insert.
LEMMA BookInsert ==
  ASSUME TypeOK, ConfirmedSound, InsertTransfers
  PROVE  [Book!Next]_(Book!vars)
<1>1. PICK new \in SUBSET ToInsert :
        /\ \A t \in new : ~Recorded(t)
        /\ row' = [t \in Transfers |-> IF t \in new THEN page[t] ELSE row[t]]
  BY DEF InsertTransfers
<1>2. new \subseteq Incoming /\ new \subseteq Transfers /\ confirmed' = confirmed
  BY DEF ToInsert, InsertTransfers
<1>3. ASSUME NEW t \in new
      PROVE  row[t] = 0 /\ page[t] > 0 /\ t \notin confirmed
  BY <1>1, <1>2 DEF Recorded, ToInsert, TypeOK, ConfirmedSound
<1>4. \A t \in new : TableStatus[t] = "absent"
  BY <1>2, <1>3 DEF TableStatus
<1>5. TableStatus' = [t \in Incoming |->
        IF t \in new /\ TableStatus[t] = "absent"
          THEN "waiting_for_confirmation" ELSE TableStatus[t]]
  BY <1>1, <1>2, <1>3 DEF TableStatus, TypeOK
<1>6. CASE new = {}
  <2>1. TableStatus' = TableStatus
    BY <1>1, <1>2, <1>6 DEF TableStatus
  <2> QED
    BY <2>1 DEF Book!vars, Book!orderVars, Book!txVars, Book!watcherVars, Nothing
<1>7. CASE new # {}
  <2>1. Book!InsertTransfers(new)
    BY <1>4, <1>5, <1>7 DEF Book!InsertTransfers, Book!orderVars, Book!watcherVars, Nothing
  <2>2. new \in SUBSET {t \in Incoming : [u \in Incoming |-> "pair"][t] = "pair"}
    BY <1>2
  <2> QED
    BY <2>1, <2>2 DEF Book!Next, Book!Work, Book!TransferStep
<1> QED
  BY <1>6, <1>7

\* Every step of the chain and of the sync is a step or a stutter of the book.
LEMMA BookStep == TypeOK /\ ConfirmedSound /\ [Next]_vars => [Book!Next]_(Book!vars)
<1> SUFFICES ASSUME TypeOK, ConfirmedSound, [Next]_vars
             PROVE  [Book!Next]_(Book!vars)
  OBVIOUS
<1>1. CASE UNCHANGED <<row, confirmed>>
  BY <1>1, BookStutter
<1> USE DEF rowVars
<1>2. CASE ChainStep
  BY <1>2, <1>1, BookConfirm DEF ChainStep, MakeTransfers, Age, NextBlock, RefreshView, Reorg
<1>3. CASE SyncStep
  BY <1>3, <1>1, BookInsert DEF SyncStep, GetStartBlock, FetchTransfers,
     NothingToInsert, FailSync, EmitMatchTick, Restart
<1>4. CASE UNCHANGED vars
  BY <1>4, <1>1 DEF vars
<1> QED
  BY <1>2, <1>3, <1>4 DEF Next

\* No row, no transfer of the book.
LEMMA BookInit == Init => Book!Init
  BY DEF Init, NoPage, Book!Init, TableStatus, Nothing

\* Read, fetched and inserted page by page, again and again, the rows change as
\* the order book assumes of its one-step sync.
THEOREM BookRefinement == Spec => BookSpec
<1>1. Init => ConfirmedSound
  BY DEF Init, ConfirmedSound
<1>2. TypeOK /\ ConfirmedSound /\ [Next]_vars => ConfirmedSound'
  BY ConfirmedSoundStep
<1>3. Spec => []TypeOK
  BY TypeCorrect
<1> QED
  BY <1>1, <1>2, <1>3, BookInit, BookStep, PTL DEF Spec, Book!Spec, BookSpec
=============================================================================
