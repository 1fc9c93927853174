-------------------------- MODULE OrderBookClaims --------------------------
(***************************************************************************)
(* What a comment says of unknown transfers, and the code does not keep.   *)
(***************************************************************************)
EXTENDS MCOrderBook

\* order_watcher.rs:305: "Check for unknown transfers (transfers older than 1
\* hour with no matched deposit)".  Yet the query asks for the age and the
\* status alone, and the matches of the tick are written after it: a transfer
\* that the tick has just matched is marked as one without a deposit.  When the
\* next call fails, the payment is lost; when it succeeds, the transfer is
\* credited and reported as unknown.
MarkedHasNoMatch ==
    \A t \in Txs : tstatus[t] = "no_matched_deposit" => ~IsMatched(t)
=============================================================================
