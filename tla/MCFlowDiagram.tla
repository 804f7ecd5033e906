--------------------------- MODULE MCFlowDiagram ---------------------------
(* An instance of FlowDiagram for TLC: four hosts, of which two share a      *)
(* prefix and three a domain, and a threshold of two.                        *)
EXTENDS FlowDiagram

MCDomain == [apiA |-> "x", apiB |-> "x", web |-> "x", db |-> "y"]
MCPrefix == [apiA |-> "api", apiB |-> "api", web |-> "web", db |-> "db"]
MCRank   == [apiA |-> 2, apiB |-> 3, web |-> 5, db |-> 4, x |-> 8, y |-> 9, api |-> 1,
             caddy |-> 6, docker |-> 7, static |-> 10]
MCFound  == [ap |-> {"apiA", "apiB"}, zz |-> {}]

A1 == [host |-> "apiA", source |-> "docker"]
A2 == [host |-> "apiA", source |-> "static"]
B1 == [host |-> "apiB", source |-> "docker"]
W1 == [host |-> "web", source |-> "static"]
D1 == [host |-> "db", source |-> "caddy"]

Topology(routes, sni, passthrough) ==
    [routes |-> routes, sni |-> sni, passthrough |-> passthrough]

MCTopologies ==
    {Topology(<<A1, B1, W1, D1>>, TRUE, FALSE), Topology(<<D1, W1, A1, B1, A2>>, FALSE, TRUE),
     Topology(<<W1, A2, D1>>, TRUE, TRUE), Topology(<<A1, W1>>, FALSE, FALSE),
     Topology(<<>>, FALSE, FALSE)}

Counted(total, errors) == [total |-> total, errors |-> errors]

MCReports ==
    {[h \in Hostnames |-> NoStats],
     [h \in Hostnames |-> CASE h = "apiA" -> Counted(1, 0) [] h = "apiB" -> Counted(2, 1)
                        [] h = "web" -> Counted(9, 6) [] OTHER -> NoStats],
     [h \in Hostnames |-> CASE h = "apiA" -> Counted(3, 1) [] h = "apiB" -> Counted(3, 1)
                        [] h = "web" -> NoStats [] OTHER -> Counted(5, 0)]}
=============================================================================
