--------------------------- MODULE MCAccessMeter ---------------------------
(* Small catalogs, one of them without any cap, and proposals that ask for *)
(* too much, for what is not there and for bonds that do not fit.          *)
EXTENDS AccessMeter, TLC

CONSTANTS Alien
Symmetry == Permutations(Handlers)

AllOps == {Search, Inventory, Reserve, Release, Expire}
Capped == [ops |-> {Search, Reserve, Expire},
           calls |-> [id \in AllOps |-> IF id = Search THEN 2 ELSE 1],
           fields |-> [id \in AllOps |-> {"id"}],
           tier |-> [id \in AllOps |-> IF id = Reserve THEN "BONDED" ELSE "LOW"],
           total |-> 5, rate |-> 2, ttl |-> 4, usage |-> 2, bond |-> 3, penalty |-> 1,
           expiry |-> 2]
Open == [Capped EXCEPT !.ops = {Search, Reserve, Release}, !.total = None, !.rate = None,
                       !.ttl = None, !.usage = None, !.bond = None, !.penalty = None]
\* A merchant that sells no reservation.
Plain == [Open EXCEPT !.ops = {Search, Inventory}]
MCCatalogs == {Capped, Open, Plain}
MCBudgets == {[usage |-> 0, bond |-> 0], [usage |-> 1, bond |-> 2], [usage |-> 4, bond |-> 4]}

Line(id, n) == id :> [fields |-> {"id"}, calls |-> n]
Lines == {<<>>, Line(Search, 1), Line(Search, 9), Line(Reserve, 9),
          Line(Search, 9) @@ Line(Reserve, 1), Line(Alien, 1),
          Search :> [fields |-> {"id", "secret"}, calls |-> 1]}
Deeds == {<<>>, Reserve :> [active |-> 2, ttl |-> 9, penalty |-> 9],
          Search :> [active |-> 1, ttl |-> 1, penalty |-> 0]}
MCProposals(c) == {None} \cup
  [ops : Lines, total : {1, 9}, rate : {2, 9}, ttl : {2, 9}, usage : {0, 9},
   bond : {1, 9}, penalty : {0, 9}, actions : Deeds]
=============================================================================
