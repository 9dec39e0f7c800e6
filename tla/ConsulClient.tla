---------------------------- MODULE ConsulClient ----------------------------
(***************************************************************************)
(* The requests of ConsulAdmin (aossl/consul) to its agent, each one call  *)
(* of BaseHttpClient::create_and_send_request (aossl/core): the registry   *)
(* of services, the configuration values and the queries.                  *)
(*                                                                         *)
(* The agent and the network are external: a request may not get out, be   *)
(* served and answered, be refused, take effect and yet be answered with   *)
(* an error, lose its answer, or be given up and served later.             *)
(***************************************************************************)
CONSTANTS
  Threads,
  Services,      \* the ids of services
  Descriptions,  \* the other fields of a ServiceInterface
  Printable,     \* those whose to_json is JSON: the port is a number, ...
  ConfigKeys,
  ConfigValues,
  Reports,       \* what the agent tells of itself and of the cluster
  None, Keep, Garbled, NoRequest,
  Slots          \* places for requests given up that are still under way

Keys == Services \cup ConfigKeys \cup Reports
Values == Descriptions \cup ConfigValues

VARIABLES
  agent,   \* what it holds under each key
  stage,   \* how far each thread's request has got
  req,     \* the request
  reply,   \* the answer: [ok, done, val], done if the agent did what was asked
  buf,     \* the StringBuffer of the call, as the caller gets it
  late     \* the requests given up that the agent may still serve

vars == <<agent, stage, req, reply, buf, late>>

NoReply == [ok |-> FALSE, done |-> FALSE, val |-> None]

\* Mutant: the port is printed like the other fields, in quotes, so that the
\* agent takes every description.
to_json_Quoted(d) == d

\* The description as the agent parses it: nothing is escaped and the port is
\* printed as it is, so an empty one leaves no JSON.
to_json(d) == IF d \in Printable THEN d ELSE Garbled

register_service(id, d) == [op |-> "register", key |-> id, new |-> to_json(d)]
deregister_service(id) == [op |-> "deregister", key |-> id, new |-> None]
set_config_value(k, v) == [op |-> "set", key |-> k, new |-> v]
del_config_value(k) == [op |-> "del", key |-> k, new |-> None]
opt_exist(k) == [op |-> "exist", key |-> k, new |-> Keep]
get_opt(k) == [op |-> "get", key |-> k, new |-> Keep]
report(k) == [op |-> "report", key |-> k, new |-> Keep]

Requests ==
  {register_service(id, d) : id \in Services, d \in Descriptions}
  \cup {deregister_service(id) : id \in Services}
  \cup {set_config_value(k, v) : k \in ConfigKeys, v \in ConfigValues}
  \cup {del_config_value(k) : k \in ConfigKeys}
  \cup {opt_exist(k) : k \in ConfigKeys} \cup {get_opt(k) : k \in ConfigKeys}
  \cup {report(k) : k \in Reports}

ASSUME ClientAssumption ==
  /\ Printable \subseteq Descriptions
  /\ None \notin Values /\ Keep \notin Values \cup {None}
  /\ Garbled \notin Values \cup {None, Keep}
  /\ Services \cap (ConfigKeys \cup Reports) = {}
  /\ NoRequest \notin Requests

\* What the agent may hold: no description that is no JSON.
Catalogues ==
  {a \in [Keys -> Values \cup {None}] :
     /\ \A id \in Services : a[id] \in Printable \cup {None}
     /\ \A k \in ConfigKeys \cup Reports : a[k] \in ConfigValues \cup {None}}

TypeOK ==
  /\ agent \in Catalogues
  /\ stage \in [Threads -> {"idle", "open", "answered"}]
  /\ req \in [Threads -> Requests \cup {NoRequest}]
  /\ reply \in [Threads -> [ok : BOOLEAN, done : BOOLEAN, val : Values \cup {None}]]
  /\ buf \in [Threads -> [success : BOOLEAN, val : Values \cup {None}]]
  /\ late \in [Slots -> Requests \cup {NoRequest}]

Init ==
  /\ agent \in Catalogues
  /\ stage = [t \in Threads |-> "idle"]
  /\ req = [t \in Threads |-> NoRequest]
  /\ reply = [t \in Threads |-> NoReply]
  /\ buf = [t \in Threads |-> [success |-> FALSE, val |-> None]]
  /\ late = [s \in Slots |-> NoRequest]

\* The agent refuses what is no JSON, and tells nothing of a key it lacks.
Applies(r) == IF r.new = Keep THEN agent[r.key] # None ELSE r.new # Garbled
After(r) == IF r.new = Keep THEN agent ELSE [agent EXCEPT ![r.key] = r.new]
Read(r) == IF r.new = Keep THEN agent[r.key] ELSE None

GoTo(t, label) == stage' = [stage EXCEPT ![t] = label]

\* The call returns; success says whether its flag was raised.
Return(t, success, val) ==
  /\ GoTo(t, "idle")
  /\ req' = [req EXCEPT ![t] = NoRequest]
  /\ reply' = [reply EXCEPT ![t] = NoReply]
  /\ buf' = [buf EXCEPT ![t] = [success |-> success, val |-> val]]

-----------------------------------------------------------------------------
\* An operation is called, with a buffer of its own or, for get_opt, with the
\* caller's, and the flag is lowered before the request is built.
Call(t, r) ==
  /\ stage[t] = "idle"
  /\ GoTo(t, "open")
  /\ req' = [req EXCEPT ![t] = r]
  /\ \E v \in {None} \cup (IF r.op = "get" THEN {buf[t].val} ELSE {}) :
       buf' = [buf EXCEPT ![t] = [success |-> FALSE, val |-> v]]
  /\ UNCHANGED <<agent, reply, late>>

\* The agent does what was asked, whatever it answers ...
Serve(t) ==
  /\ stage[t] = "open" /\ Applies(req[t])
  /\ agent' = After(req[t])
  /\ \E ok \in BOOLEAN :
       reply' = [reply EXCEPT ![t] = [ok |-> ok, done |-> TRUE, val |-> Read(req[t])]]
  /\ GoTo(t, "answered")
  /\ UNCHANGED <<req, buf, late>>

\* ... or refuses it.
Refuse(t) ==
  /\ stage[t] = "open"
  /\ GoTo(t, "answered")
  /\ UNCHANGED <<agent, req, reply, buf, late>>

\* Mutants: the status is not looked at; the body is not read.
Receive_AnyStatus(t) ==
  /\ stage[t] = "answered"
  /\ Return(t, TRUE, reply[t].val)
  /\ UNCHANGED <<agent, late>>

Receive_KeepsValue(t) ==
  /\ stage[t] = "answered"
  /\ Return(t, reply[t].ok, buf[t].val)
  /\ UNCHANGED <<agent, late>>

\* A status up to 206 raises the flag, and the body becomes the value.
Receive(t) ==
  /\ stage[t] = "answered"
  /\ Return(t, reply[t].ok, IF reply[t].ok THEN reply[t].val ELSE buf[t].val)
  /\ UNCHANGED <<agent, late>>

\* Mutant: the flag is raised at the start and not lowered when the session
\* throws.
GiveUp_FlagRaised(t) ==
  /\ stage[t] \in {"open", "answered"}
  /\ Return(t, TRUE, buf[t].val)
  /\ \/ UNCHANGED late
     \/ /\ stage[t] = "open" /\ req[t].new # Keep
        /\ \E s \in Slots : late[s] = NoRequest /\ late' = [late EXCEPT ![s] = req[t]]
  /\ UNCHANGED agent

\* The session throws, before the request is out or later; one that writes may
\* be out and still arrive.
GiveUp(t) ==
  /\ stage[t] \in {"open", "answered"}
  /\ Return(t, FALSE, buf[t].val)
  /\ \/ UNCHANGED late
     \/ /\ stage[t] = "open" /\ req[t].new # Keep
        /\ \E s \in Slots : late[s] = NoRequest /\ late' = [late EXCEPT ![s] = req[t]]
  /\ UNCHANGED agent

ServeLate(s) ==
  /\ late[s] # NoRequest /\ Applies(late[s])
  /\ agent' = After(late[s])
  /\ late' = [late EXCEPT ![s] = NoRequest]
  /\ UNCHANGED <<stage, req, reply, buf>>

LoseLate(s) ==
  /\ late[s] # NoRequest
  /\ late' = [late EXCEPT ![s] = NoRequest]
  /\ UNCHANGED <<agent, stage, req, reply, buf>>

Step(t) == Serve(t) \/ Refuse(t) \/ Receive(t) \/ GiveUp(t)

Next ==
  \/ \E t \in Threads : (\E r \in Requests : Call(t, r)) \/ Step(t)
  \/ \E s \in Slots : ServeLate(s) \/ LoseLate(s)

Spec == Init /\ [][Next]_vars

-----------------------------------------------------------------------------
(* Properties                                                              *)

\* What the callers rely on: true means that the agent has done what it was
\* asked, once and while the call went on, and the value is what it held
\* then; false leaves open whether it has, or will.
Remote ==
  INSTANCE RemoteMap WITH
    map <- agent,
    call <- req,
    took <- [t \in Threads |-> reply[t].done],
    saw <- [t \in Threads |-> reply[t].val],
    last <- buf

RemoteCalls == Remote!Spec
=============================================================================
