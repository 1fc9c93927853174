---------------------------- MODULE Trc20Claims ----------------------------
(***************************************************************************)
(* A statement of the comments about the TRC-20 sync that the code does    *)
(* not keep.                                                               *)
(***************************************************************************)
EXTENDS Trc20Sync

\* trc20_transfer.rs:51-54: the cursor is "the earliest timestamp of
\* unconfirmed transfers within the last 1 day, or the latest timestamp":
\* once the unconfirmed rows are older than a day, the sync goes on from the
\* newest row.
PinnedForOneDay ==
    recorded # {} /\ (\A t \in recorded \ confirmed : t <= dayOld)
        => \A u \in recorded : \A ts \in Cursor : time[u] <= ts
=============================================================================
