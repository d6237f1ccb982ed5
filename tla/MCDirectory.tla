----------------------------- MODULE MCDirectory -----------------------------
(* Two accounts that compete for names: A, which may send two requests at   *)
(* once, and B, which sends one.                                           *)
EXTENDS Directory, TLC

CONSTANTS A, B, ra1, ra2, rb, n1, n2, rule, x1, x2

MCAccountOf == ra1 :> A @@ ra2 :> A @@ rb :> B
MCSerial == ra1 :> A @@ rb :> B
MCParallel == ra1 :> A @@ ra2 :> A

MCSymmetry == {p @@ q @@ r : p \in Permutations({n1, n2}), q \in Permutations({x1, x2}),
                             r \in Permutations({ra1, ra2})}
=============================================================================
