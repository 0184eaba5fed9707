------------------------------ MODULE MCEarlier ------------------------------
(***************************************************************************)
(* The runs of the earlier programs that TLC explores: each program where  *)
(* what is its own can happen, with as few clients as that takes.          *)
(***************************************************************************)
EXTENDS EarlierProgram

CONSTANTS s1, s2, p1

MCSubs == {s1, s2}
MCPubs == {p1}

Case(program, subs, pubs, qos, topic, nr) ==
  {[program |-> program, subs |-> subs, pubs |-> pubs, qos |-> qos,
    env |-> IF program = "post" THEN {0} ELSE {}, topic |-> topic,
    msg |-> msg, accepted |-> TRUE,
    pings |-> qos = 0 /\ program = "post" /\ pubs # {}, inbox |-> nr] :
     msg \in IF program = "net_analysis" THEN BOOLEAN ELSE {TRUE}}

\* Runs that end before a client is started, and a QoS of the environment.
MCEnvironment ==
  UNION {{[c EXCEPT !.accepted = FALSE] : c \in Case(program, {s1}, {p1}, 0, "plain", 2)} : program \in Programs}
  \cup {[c EXCEPT !.env = env] : c \in Case("post", {s1}, {p1}, 0, "plain", 2), env \in AnyQos}
  \cup {[c EXCEPT !.env = {1}] : c \in Case("script", {s1}, {p1}, 0, "document", 3)}

MCConfigurations ==
  MCEnvironment \cup UNION {
    UNION {Case("original", {s1}, pubs, qos, topic, 3) :
             pubs \in {{}, {p1}}, qos \in {0, 1}, topic \in {"base", "plain"}},
    UNION {Case("net_analysis", {s1}, {p1}, qos, "base", 3) : qos \in {0, 1}},
    Case("net_analysis", MCSubs, {}, 1, "plain", 2),
    UNION {Case("post", {s1}, {p1}, qos, "plain", 3) : qos \in {0, 1}},
    Case("post", MCSubs, {}, 0, "plain", 3),
    UNION {Case("script", {s1}, {p1}, qos, topic, 3) :
             qos \in {0, 1}, topic \in {"plain", "list"}},
    Case("timer", {s1}, {p1}, 1, "plain", 3),
    Case("timer", MCSubs, {}, 0, "plain", 2)}
=============================================================================
