----------------------------- MODULE MCDelivery -----------------------------
(***************************************************************************)
(* Delivery.tla for TLC: four orders, of which one is for another host and *)
(* one is of an operation this agent is too old for.                       *)
(***************************************************************************)
EXTENDS Delivery, TLC

Values1 ==
    [blog |-> Value(4, {"site_slug", "path_in_site", "package_name"}, ""),
     long |-> Value(40, {"path_in_site", "package_name"}, ""),
     unit |-> Value(6, {"service_id", "site_slug", "package_name", "path_in_site"}, ""),
     page |-> Value(15, {"path_in_site"}, ""),
     text |-> Value(300, {}, ""), blob |-> Value(20000, {}, ""), huge |-> Value(70000, {}, ""),
     empty |-> NoValue,
     node |-> Value(4, {"site_slug", "path_in_site", "package_name"}, "node"),
     restart |-> Value(7, {"site_slug", "path_in_site", "package_name"}, "restart"),
     true |-> Value(4, {"site_slug", "path_in_site", "package_name"}, "true"),
     zero |-> Decimal(1, 0), one |-> Decimal(1, 1), high |-> Decimal(5, 65535),
     over |-> Decimal(5, 65536), vast |-> Decimal(12, MaxDecimal + 1)]

Order(operation, arguments, target) ==
    [operation |-> operation, arguments |-> arguments, targetHostId |-> target, validityMs |-> 2]
Write == [slug |-> "blog", path |-> "page"]
Asked ==
    {Order("site.file.write", Write, "here"),
     Order("site.file.write", Write, "there"),
     Order("host.health.report", [n \in {} |-> ""], "here"),
     [Order("site.file.write", [Write EXCEPT !.slug = "long"], "here") EXCEPT !.validityMs = 1],
     [Order("host.health.report", [n \in {} |-> ""], "here") EXCEPT !.validityMs = 9]}

Older == {o \in OPERATIONS : o.name # "host.health.report"}

Texts == {o.name : o \in OPERATIONS} \cup UNION {ArgumentsOf(o) : o \in OPERATIONS}
         \cup DOMAIN Values1 \cup {"here", "there"}
Bytes == LET texts == FoldSet(LAMBDA text, list : Append(list, text), <<>>, Texts)
         IN  [t \in Texts |-> <<CHOOSE i \in 1..Len(texts) : texts[i] = t>>]

Stamped ==
    {[id |-> i, issued |-> t, expires |-> t + 2, signed |-> TRUE, here |-> TRUE] :
        i \in 1..MaxSigned, t \in Ahead..(MaxTime + Ahead)}

Symmetry == Permutations(Verifiers)
=============================================================================
