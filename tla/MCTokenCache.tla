---------------------------- MODULE MCTokenCache ---------------------------
(* Small instances of TokenCache for TLC. *)
EXTENDS TokenCache, TLC

CONSTANTS w1, w2, w3, expires, early, late, foreign, forged, broken, anon, admin

\* Six kinds of token on a clock from 0 to 3 with a skew of 1.
Genuine(exp, nbf, iat, role) ==
    [parts |-> TRUE, genuine |-> TRUE, aud |-> TRUE,
     exp |-> exp, nbf |-> nbf, iat |-> iat, role |-> role]

MCFacts ==
    [t \in Tokens |->
        CASE t = expires -> Genuine(1, NoTime, 0, admin)
          [] t = early   -> Genuine(NoTime, 2, NoTime, anon)
          [] t = late    -> Genuine(3, NoTime, NoTime, NoRole)
          [] t = foreign -> [Genuine(NoTime, NoTime, NoTime, anon) EXCEPT !.aud = FALSE]
          [] t = forged  -> [Genuine(NoTime, NoTime, NoTime, admin) EXCEPT !.genuine = FALSE]
          [] t = broken  -> [Genuine(NoTime, NoTime, NoTime, admin) EXCEPT !.parts = FALSE]]

MCSymmetry == Permutations(Workers)
=============================================================================
