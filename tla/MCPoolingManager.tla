-------------------------- MODULE MCPoolingManager --------------------------
(***************************************************************************)
(* Instances of PoolingManager for TLC.                                    *)
(***************************************************************************)
EXTENDS PoolingManager, TLC

CONSTANTS a, b, c, x, y

\* Wallets a and b have pair x, wallet c has pair y.
SharedPair == (a :> x) @@ (b :> x) @@ (c :> y)

\* The wallet of x is another, and there is none of y.
Rewrites == {{a, c}, {b}}
=============================================================================
