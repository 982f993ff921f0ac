---------------------------- MODULE MCNetworkCrawl ----------------------------
(* A network that clamps its pages and cuts a catalog between two of them, one *)
(* on the old protocol, one that repeats its first page, one that clamps and   *)
(* does not say so, and entries that must not be read from.                    *)
EXTENDS NetworkCrawl

CONSTANTS Kind,   \* network id -> "paged", "plain", "stuck", "mute" or "deaf"
          Clamp   \* the most a network that pages gives at once

net(id, source, ttl, packs) == [id |-> id, source |-> source, ttl |-> ttl, packs |-> packs]
item(c, r) == [catalog |-> c, res |-> r]

MCRegistry == << net("us", TRUE, 2, {"p"}), net("n1", TRUE, 2, {"p"}), net("n2", FALSE, 2, {"p"}),
                 net("n3", TRUE, 0, {"p"}), net("n4", TRUE, 2, {}), net("n5", TRUE, 1, {"p"}),
                 net("n6", TRUE, 2, {"p"}), net("n7", TRUE, 2, {"p"}) >>

\* A registry with one network.
MCRegistryOne == << net("n1", TRUE, 2, {"p"}) >>

MCHoldings == [us |-> <<item("u", "u1")>>,
               n1 |-> <<item("a", "a1"), item("a", "a2"), item("a", "a3"), item("b", "b1")>>,
               n2 |-> <<item("c", "c1")>>, n3 |-> <<item("d", "d1")>>, n4 |-> <<item("e", "e1")>>,
               n5 |-> <<item("f", "f1"), item("f", "f2"), item("f", "f3"), item("g", "g1")>>,
               n6 |-> <<item("h", "h1"), item("h", "h2"), item("h", "h3")>>,
               n7 |-> <<item("k", "k1"), item("k", "k2"), item("k", "k3")>>]

MCNameless == {"g"}
MCSize == [r \in Resources |-> IF r = "a2" THEN 4 ELSE 2]

MCKinds == [us |-> "paged", n1 |-> "paged", n2 |-> "paged", n3 |-> "plain", n4 |-> "plain",
            n5 |-> "plain", n6 |-> "stuck", n7 |-> "mute"]
MCKindsDeaf == [MCKinds EXCEPT !.n1 = "deaf"]

\* The catalogs a run of resources is given as; a catalog may be cut by a page.
AsDocs(items) ==
    FoldLeft(LAMBDA ds, x :
        IF ds # <<>> /\ Last(ds).catalog = x.catalog
        THEN Append(Front(ds), [catalog |-> x.catalog, res |-> Append(Last(ds).res, x.res)])
        ELSE Append(ds, [catalog |-> x.catalog, res |-> <<x.res>>]), <<>>, items)

\* How networks answer.  "paged" counts in resources, clamps the limit and says
\* what it applied, "stuck" does but always answers its first page, and "mute"
\* says nothing; "plain" counts in catalogs and says nothing, and "deaf" does so
\* and always answers its first page.
MCAnswer(n, o) ==
    LET h == Holdings[n]
        from == IF Kind[n] \in {"stuck", "deaf"} THEN 0 ELSE o
        docs == IF Kind[n] \in {"paged", "stuck", "mute"}
                THEN AsDocs(SubSeq(h, from + 1, Lesser(from + Lesser(PageSize, Clamp), Len(h))))
                ELSE SubSeq(AsDocs(h), from + 1, Lesser(from + PageSize, Len(AsDocs(h))))
    IN  IF Kind[n] \in {"paged", "stuck"}
        THEN [docs |-> docs, limit |-> Lesser(PageSize, Clamp), offset |-> from,
              total |-> Len(h), returned |-> Len(docs)]
        ELSE [NoPage EXCEPT !.docs = docs, !.returned = Len(docs)]

MCPages == [n \in DOMAIN Holdings |-> [o \in 0 .. MaxOffset |-> MCAnswer(n, o)]]
=============================================================================
