----------------------------- MODULE Parameters -----------------------------
(***************************************************************************)
(* The numbers that travel from the user to the clients.  An orchestrator  *)
(* has them from a section of its configuration or from its command line,  *)
(* writes them into the environment of its containers (create_container in *)
(* containers/local_subscriber.py and local_publisher.py), and the program *)
(* of a container takes each from its own command line, which is empty, or *)
(* from its environment, or by default (ClientParameters and set_value in  *)
(* clients/container_python.py).                                           *)
(*                                                                         *)
(* A value that may be missing is a set, empty or with the value in it.    *)
(* The text that carries a number through the environment is the number    *)
(* again.  The topics are in Deployment; no other argument reaches         *)
(* a client: validate_parameters, which would set the credentials, has no  *)
(* caller.                                                                 *)
(***************************************************************************)
EXTENDS Naturals

Numbers == {"port", "qos", "sub_clients", "sub_count", "sub_timeout",
            "pub_clients", "pub_count", "pub_timeout"}

The1(set) == CHOOSE value \in set : TRUE

-----------------------------------------------------------------------------
(* Arguments of an orchestrator.                                           *)

\* ContainerClients.section() hands on the numbers of clients and messages.
SectionArguments(section) ==
  [key \in Numbers |->
     CASE key = "sub_clients" -> {section.clients.sub}
       [] key = "sub_count"   -> {section.count.sub}
       [] key = "pub_clients" -> {section.clients.pub}
       [] key = "pub_count"   -> {section.count.pub}
       [] OTHER -> {}]

\* The options arg_parse of local_subscriber.py and of local_publisher.py
\* knows, each with its default.
ProgramDefaults(kind) ==
  [key \in Numbers |->
     CASE key = "qos" -> {0}
       [] kind = "sub" /\ key \in {"sub_clients", "sub_count"} -> {1}
       [] kind = "pub" /\ key \in {"pub_clients", "pub_count"} -> {1}
       [] kind = "sub" /\ key = "sub_timeout" -> {60}
       [] kind = "pub" /\ key = "pub_timeout" -> {60}
       [] OTHER -> {}]

LineArguments(kind, given) ==
  [key \in Numbers |-> IF given[key] # {} THEN given[key] ELSE ProgramDefaults(kind)[key]]

-----------------------------------------------------------------------------
(* Through the environment.  The orchestrators and the container program   *)
(* each have a table of the names of the variables.                        *)

\* map_command_parameters_to_environmental.
Written ==
  [port |-> "CLIENT_PORT", qos |-> "CLIENT_QOS",
   sub_clients |-> "CLIENT_SUBSCRIBERS", sub_count |-> "CLIENT_SUBSCRIBERS_COUNT",
   sub_timeout |-> "CLIENT_SUBSCRIBERS_TIMEOUT",
   pub_clients |-> "CLIENT_PUBLISHERS", pub_count |-> "CLIENT_PUBLISHERS_COUNT",
   pub_timeout |-> "CLIENT_PUBLISHERS_TIMEOUT"]

\* Mutant of Read: the variable of the line above has been copied.
ReadCopied == [Written EXCEPT !.pub_count = "CLIENT_PUBLISHERS"]

\* EnvironmentVariablesKeywords.
Read ==
  [port |-> "CLIENT_PORT", qos |-> "CLIENT_QOS",
   sub_clients |-> "CLIENT_SUBSCRIBERS", sub_count |-> "CLIENT_SUBSCRIBERS_COUNT",
   sub_timeout |-> "CLIENT_SUBSCRIBERS_TIMEOUT",
   pub_clients |-> "CLIENT_PUBLISHERS", pub_count |-> "CLIENT_PUBLISHERS_COUNT",
   pub_timeout |-> "CLIENT_PUBLISHERS_TIMEOUT"]

\* docker leaves a variable out that is given as None.
Environment(arguments) ==
  [variable \in {Written[key] : key \in Numbers} |->
     UNION {arguments[key] : key \in {k \in Numbers : Written[k] = variable}}]

-----------------------------------------------------------------------------
(* The program of a container.                                             *)

\* arg_parse without arguments.
ContainerLine ==
  [key \in Numbers |-> CASE key = "port" -> {1883} [] key = "qos" -> {0} [] OTHER -> {}]

Default(key) ==
  CASE key = "port" -> 1883
    [] key \in {"sub_timeout", "pub_timeout"} -> 60
    [] OTHER -> 0

SetValue(cmd, env, default) ==
  IF cmd = {} /\ env = {} THEN default
  ELSE IF cmd # {} THEN The1(cmd) ELSE The1(env)

ClientParameters(environment) ==
  [key \in Numbers |-> SetValue(ContainerLine[key], environment[Read[key]], Default(key))]

\* The numbers of clients main() starts.
ClientsOf(parameters) ==
  [sub |-> parameters.sub_clients, pub |-> parameters.pub_clients]

\* The timeout main() gives a subscriber, in half seconds: many subscribers
\* get more time.
SubTimeout(parameters) ==
  IF parameters.sub_clients > parameters.sub_timeout
    THEN 7 * parameters.sub_clients ELSE 2 * parameters.sub_timeout
=============================================================================
