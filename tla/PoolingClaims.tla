--------------------------- MODULE PoolingClaims ---------------------------
(***************************************************************************)
(* A statement of a comment about the schedules of pairs that the code     *)
(* does not keep.                                                          *)
(***************************************************************************)
EXTENDS MCPoolingManager

\* No more deposits of pair k are announced.
QuietPair(k) == <>[][\A e \in Entries : KeyOf[e] = k => ~CreatePayment(e)]_vars

\* types.rs:71: "Each enabled token on each blockchain has its own pooling
\* schedule."  Yet a deposit of any pair begins the sleep of every loop anew:
\* while deposits of other pairs come faster than its interval, a pair with a
\* pending deposit is not polled at all.
PendingPairPolled ==
    \A e \in Entries : QuietPair(KeyOf[e]) =>
        (e \in due /\ e \in kept ~> e \notin due \/ e \notin kept \/ late)
=============================================================================
