-------------------------- MODULE MCDockerProvider --------------------------
(* Instances of DockerProvider for TLC. *)
EXTENDS DockerProvider

CONSTANTS native, both, tcp, proxy, k1, k2

\* Native and caddy labels, Traefik and caddy labels, TCP labels of Traefik and
\* caddy labels, and a Traefik that carries labels of its own.
MCLabels == [c \in Containers |->
    CASE c = native -> {"pintle", "traefik", "caddy"}
      [] c = both   -> {"traefik", "tcp", "caddy"}
      [] c = tcp    -> {"tcp", "caddy"}
      [] c = proxy  -> {"traefik", "caddy"}]

\* Either nothing goes wrong and any number of events come, or anything may go wrong.
MCRegimes == {{"burst"}, Disturbances \ {"burst"}}

\* Each of three is enough alone.
MCAnyOne == {{"failure"}, {"gap"}, {"overlap"}}
=============================================================================
