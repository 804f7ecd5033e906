--------------------------- MODULE MCConfigSystem ---------------------------
(* An instance of ConfigSystem, and with it of ConfigPipeline, for TLC. *)
EXTENDS ConfigSystem

Plain   == [valid |-> TRUE, passthrough |-> {}, ports |-> {}]
Broken  == [valid |-> FALSE, passthrough |-> {}, ports |-> {}]
Full(p) == [valid |-> TRUE, passthrough |-> {"a"}, ports |-> {p}]

\* The first kind of file adds TCP routes and a domain with its last version, the second
\* starts with them and then moves them to another port.
Grows == [v \in Versions |-> IF v = MaxVersion THEN Full(1) ELSE Plain]
Moves == [v \in Versions |-> CASE v = 1 -> Full(1) [] v = 2 -> Plain [] OTHER -> Full(2)]

With(file, errors) == [v \in Versions |-> IF v \in errors THEN Broken ELSE file[v]]

\* Versions that do not parse are the first, the last, both reloads or one between.
MCFileCases == {With(Grows, {2}), With(Moves, {}), With(Moves, {1}), With(Moves, {3}),
                With(Moves, {2, 3})}

\* A container with a TCP route on the port of the file's comes and goes.
MCDockerPorts == [v \in 0..MaxVersion |-> IF v = 1 THEN {1} ELSE {}]
=============================================================================
