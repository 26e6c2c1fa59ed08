-------------------------- MODULE MCNecterePrompt --------------------------
(* Instance of NecterePrompt for TLC.                                        *)
EXTENDS NecterePrompt

CONSTANTS u1, u2, n1, c1, c2, key, other

MCUser == {u1, u2}
MCClient == {c1, c2}
MCCanalName == {n1}
MCPassword == {Empty}
MCLimit == {-1}
MCPlugins == [a \in {1} |-> "Plugin"]
MCEvents == {[app |-> Base, code |-> "message", data |-> Empty],
             [app |-> Base, code |-> "join", data |-> Empty],
             [app |-> Base, code |-> "reload", data |-> "Plugin"],
             [app |-> Base, code |-> "unload", data |-> "Plugin"],
             [app |-> Base, code |-> "commands", data |-> Empty],
             [app |-> 2, code |-> "ping", data |-> Empty]}
MCQueries == {"Plugin"}
MCKeys == {key, other}
MCAnyLine == {"connect", "stop", "disconnect", "quit", "list", "query", "event", "await",
              "auth", "ping", "create", "message", "join", "leave", "delete"}
MCThenLine == {"disconnect", "list", "await", "create", "message", "join", "leave", "delete"}
MCLines == [c \in MCClient |->
  IF c = c1 THEN <<MCAnyLine, MCAnyLine, MCThenLine, {"connect"}>>
  ELSE <<{"connect"}, {"join"}, {"message"}>>]
MCAddresses == [c \in MCClient |-> IF c = c1 THEN {"server", "dropped", "nobody"} ELSE {"server"}]
MCPings == {other}
=============================================================================
