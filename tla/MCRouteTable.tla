---------------------------- MODULE MCRouteTable ----------------------------
(* An instance of RouteTable for TLC: a routes file with nested paths, a pool,
   and routes that tie; Docker routes with patterns, one of them invalid, and a
   trailing slash. *)
EXTENDS RouteTable

CONSTANTS file, docker, h1, h2, any, some, broken, empty, a, b

MCHostsOf == [g \in {any, some} |-> IF g = any THEN {h1, h2} ELSE {h2}]

\* "a" is as long as two slashes, so that lengths and segments differ.
MCWidth == [s \in {empty, a, b} |-> CASE s = empty -> 0 [] s = a -> 1 [] s = b -> 3]

To(host, path, strip, pool, target) ==
    [host |-> host, path |-> path, strip |-> strip, pool |-> pool, target |-> target]

Plain(host, path, target) == To(host, path, FALSE, NoPool, target)

\* All lists of at most two of these routes, and one with a pool of two.
UpToTwo(R) == {<<>>} \cup {<<r>> : r \in R} \cup {<<p[1], p[2]>> : p \in {x \in R \X R : x[1] # x[2]}}

Pool == <<To(h1, <<a>>, TRUE, "static:0", "t1"), To(h1, <<a>>, TRUE, "static:0", "t2"),
          To(h1, <<a, b>>, TRUE, NoPool, "t3")>>

MCAnnouncements ==
    [p \in {file, docker} |->
        IF p = file
        THEN {Pool} \cup UpToTwo({Plain(h1, <<empty>>, "f1"), Plain(h1, <<a>>, "f2"),
                                  Plain(h1, <<a>>, "f3"), To(h1, <<empty>>, TRUE, NoPool, "f4")})
        ELSE UpToTwo({Plain(h1, <<a>>, "d1"), To(any, <<a>>, TRUE, NoPool, "d2"),
                      Plain(any, <<empty>>, "d3"), Plain(some, <<a, empty>>, "d4"),
                      Plain(broken, <<empty>>, "d5")})]

MCRequests == {<<empty>>, <<a>>, <<b>>, <<a, b>>, <<a, empty>>, <<empty, a>>, <<a, b, a>>}
=============================================================================
