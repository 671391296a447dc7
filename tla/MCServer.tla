------------------------------ MODULE MCServer ------------------------------
(***************************************************************************)
(* Two people of whom one has a browser, two ways to run the server, and *)
(* one of every kind of request the dashboard does not send.               *)
(***************************************************************************)
EXTENDS Server

Named1 == Named("ratline.example")
Site == Origin("https", Named1, 0)
Evil == Origin("https", Named("elsewhere"), 0)

Deployment(declared, bind, visited, reauth) ==
    [declared |-> declared, bind |-> bind, port |-> 7077, acknowledged |-> FALSE,
     visited |-> visited, reauth |-> reauth]
Deployments ==
    {Deployment({Site}, Loopback4, Site, {}),
     Deployment({}, Everywhere, Origin("http", Named1, 7077), {organization.requires})}

Stray(route, who, about, right, origin, token) ==
    [route |-> route, who |-> who, about |-> about, right |-> right, origin |-> <<origin>>, token |-> token]
Others ==
    {Stray(signIn, "bob", None, TRUE, Evil, "none"),
     Stray(signIn, "ann", None, FALSE, Site, "none"),
     Stray(twoFactor, Nobody, 1, FALSE, Site, "none"), Stray(twoFactor, Nobody, 1, TRUE, Site, "none"),
     Stray(signOut, Nobody, None, FALSE, Site, "own"), Stray(signOut, Nobody, None, FALSE, Evil, "own"),
     Stray(revokeSessions, "bob", None, FALSE, Site, "own"),
     Stray(revokeSessions, "bob", None, FALSE, Site, "query"),
     Stray(project, Nobody, None, FALSE, Site, "none")}

Manager == [p \in People |->
    IF p = "ann" THEN {project.requires, revokeSessions.requires, organization.requires}
    ELSE {organization.requires}]
Billing == [p \in People |-> IF p = "ann" THEN {project.requires} ELSE {organization.requires}]
Mays == {Manager, Billing}
=============================================================================
