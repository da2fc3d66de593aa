---------------------------- MODULE MCPublicDemo ----------------------------
(* PublicDemo for TLC: two policies of the same cap, one of them bonded, and  *)
(* a dearer one that the devnet credentials do not cover.                    *)
EXTENDS PublicDemo, TLC

CONSTANTS s1, free, held, dear, bond1, r1, r2, r3, r4

MCCap == (free :> 1) @@ (held :> 1) @@ (dear :> 2)
Paid(i, s, challenge, bond) ==
  [intent |-> i, hash |-> i, sid |-> s, credential |-> Token("credential", s, 1),
   challenge |-> challenge, bond |-> bond]
MCRunIds == <<r1, r2, r3, r4>>
MCRunBody == [r \in Runs |-> Paid(held, r, Token("challenge", r, 1), r)]

\* Two policies for one session id, the dear one with a credential that is too
\* small, and an id left to the gateway with the hash of another policy.
MCBodies ==
  {Paid(free, s1, None, None), Paid(held, s1, None, bond1),
   Paid(dear, s1, Token("challenge", s1, 1), None),
   [Paid(free, None, None, None) EXCEPT !.hash = held]}
  \cup {MCRunBody[r] : r \in Runs}
=============================================================================
