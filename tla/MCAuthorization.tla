--------------------------- MODULE MCAuthorization ---------------------------
(***************************************************************************)
(* A small installation: two people, one service, one token to be issued,  *)
(* a team with a project, and the grants that tell the rules apart.        *)
(***************************************************************************)
EXTENDS Authorization

Kinds == [n \in Nodes |-> IF n = "team1" THEN "team" ELSE IF n = "proj1" THEN "project" ELSE "environment"]
Tree == [n \in Nodes |-> CASE n = "team1" -> Root [] n = "proj1" -> "team1" [] OTHER -> "proj1"]
Stored == [n \in Nodes |-> CASE n = "team1" -> <<Root, n>> [] n = "proj1" -> <<Root, "team1", n>>
                            [] OTHER -> <<Root, "team1", "proj1", n>>]
Never1 == MaxNow + 1

G(who, role, effect, at, expires) ==
    [subject |-> who, role |-> role, effect |-> effect, at |-> at, expires |-> expires]
viewsTeam == G("bob", "viewer", "allow", "team1", Never1)
notProject == G("bob", "viewer", "deny", "proj1", Never1)
owns == G("bob", "owner", "allow", Root, Never1)
administers == G("bob", "admin", "allow", Root, 1)
readsSite == G("robot", "viewer", "allow", "site1", Never1)

Grants == {viewsTeam, notProject, owns, administers, readsSite}
Before == {{administers, viewsTeam}, {owns, readsSite, notProject}}

Wanted ==
    {[role |-> "viewer", node |-> "proj1", res |-> NoRes, expires |-> 1],
     [role |-> "developer", node |-> Root, res |-> NoRes, expires |-> 1],
     [role |-> "billing", node |-> "proj1", res |-> "site1", expires |-> 1]}

Q(who, name, node, res) == [who |-> who, name |-> name, node |-> node, res |-> res]
read == <<"site", "read">>
Questions ==
    {Q("bob", read, "proj1", NoRes), Q("bob", read, Root, NoRes),
     Q("robot", read, "team1", "site1"), Q("tok1", read, "proj1", NoRes),
     Q("tok1", <<"billing", "read">>, "proj1", "site1")}

(* For the grant below the level of what it conveys.                       *)
pays == G("bob", "billing", "allow", "proj1", Never1)
AlsoPays == Grants \cup {pays}
BeforeToo == Before \cup {{pays}}
PaysQuestion == {Q("bob", <<"billing", "read">>, "proj1", NoRes)}

Symmetry == Permutations(Requests)
=============================================================================
