----------------------------- MODULE VaultAdmin -----------------------------
(***************************************************************************)
(* AOSSL::VaultAdmin (aossl/vault/include/vault_admin.h) on top of         *)
(* AOSSL::BaseHttpClient (aossl/core/include/base_http_client.h): one      *)
(* client of a Vault server, shared by threads.                            *)
(*                                                                         *)
(* The four operations begin alike.  The thread whose compare-and-swap     *)
(* raises is_authenticated logs in with the stored credentials; the others *)
(* wait until the flag is up, which it is from the compare-and-swap on,    *)
(* not from the end of the login.  A login that fails throws and leaves    *)
(* the flag up, so it is never repeated.                                   *)
(*                                                                         *)
(* The server is external: a login or a request may fail in transit or be  *)
(* turned down, and a body that comes back is one of Bodies.               *)
(***************************************************************************)
EXTENDS Naturals

CONSTANTS
  Threads,  \* the threads that share the client
  Kinds     \* the operations they call

ASSUME VaultAssumption ==
  Kinds \subseteq {"opt_exist", "get_opt", "gen_ssl_cert", "gen_consul_token"}

VARIABLES
  is_authenticated,  \* the flag, raised before the login
  use_acl,           \* set_acl_token has stored the token: requests send it
  pc,                \* where each thread is in its call
  kind,              \* the operation it is in
  sent,              \* what its request carried: "token", "bare" or "torn"
  result,            \* how its last call ended
  logins,            \* history: logins sent so far
  refused,           \* history: has a login failed?
  entitled           \* history: threads whose call the token precedes

vars ==
  <<is_authenticated, use_acl, pc, kind, sent, result, logins, refused, entitled>>

\* The JSON of a 2xx answer: not JSON, JSON but no object, an object in which a
\* member the code reads has another type, an object that lacks members, the
\* object it expects.
Bodies == {"garbled", "scalar", "mistyped", "partial", "full"}

TypeOK ==
  /\ is_authenticated \in BOOLEAN
  /\ use_acl \in BOOLEAN
  /\ pc \in [Threads -> {"idle", "cas", "login", "install", "wait",
                         "send", "reply", "dead"}]
  /\ kind \in [Threads -> Kinds \cup {"none"}]
  /\ sent \in [Threads -> {"none", "token", "bare", "torn"}]
  /\ result \in [Threads -> {"none", "ok", "failed", "threw", "unset"}]
  /\ logins \in Nat
  /\ refused \in BOOLEAN
  /\ entitled \subseteq Threads

Init ==
  /\ is_authenticated = FALSE
  /\ use_acl = FALSE
  /\ pc = [t \in Threads |-> "idle"]
  /\ kind = [t \in Threads |-> "none"]
  /\ sent = [t \in Threads |-> "none"]
  /\ result = [t \in Threads |-> "none"]
  /\ logins = 0
  /\ refused = FALSE
  /\ entitled = {}

GoTo(t, label) == pc' = [pc EXCEPT ![t] = label]

-----------------------------------------------------------------------------
(* How a call ends                                                         *)

Return(t, r) ==
  /\ GoTo(t, "idle")
  /\ kind' = [kind EXCEPT ![t] = "none"]
  /\ sent' = [sent EXCEPT ![t] = "none"]
  /\ result' = [result EXCEPT ![t] = r]
  /\ entitled' = entitled \ {t}

\* A RapidJSON assertion fails and takes the whole process down.
Abort ==
  /\ pc' = [t \in Threads |-> "dead"]
  /\ UNCHANGED <<kind, sent, result, entitled>>

-----------------------------------------------------------------------------
(* Entering an operation: log in, or wait for whoever does                 *)

Call(t) ==
  /\ pc[t] = "idle"
  /\ \E op \in Kinds : kind' = [kind EXCEPT ![t] = op]
  /\ result' = [result EXCEPT ![t] = "none"]
  /\ entitled' = IF use_acl THEN entitled \cup {t} ELSE entitled
  /\ GoTo(t, "cas")
  /\ UNCHANGED <<is_authenticated, use_acl, sent, logins, refused>>

\* compare_exchange_strong succeeds: this thread goes to authenticate.
Elect(t) ==
  /\ pc[t] = "cas" /\ ~is_authenticated
  /\ is_authenticated' = TRUE
  /\ logins' = logins + 1
  /\ GoTo(t, "login")
  /\ UNCHANGED <<use_acl, kind, sent, result, refused, entitled>>

Follow(t) ==
  /\ pc[t] = "cas" /\ is_authenticated
  /\ GoTo(t, "wait")
  /\ UNCHANGED <<is_authenticated, use_acl, kind, sent, result, logins, refused, entitled>>

\* Mutant: a failed login takes the flag down again.
LoginRefused_LowersFlag(t) ==
  /\ pc[t] = "login"
  /\ refused' = TRUE
  /\ is_authenticated' = FALSE
  /\ Return(t, "threw")
  /\ UNCHANGED <<use_acl, logins>>

\* authenticate: no answer, an error status or no JSON throws ...
LoginRefused(t) ==
  /\ pc[t] = "login"
  /\ refused' = TRUE
  /\ Return(t, "threw")
  /\ UNCHANGED <<is_authenticated, use_acl, logins>>

\* Mutant: the answer is not checked to be an object.
LoginIgnored_Unchecked(t) ==
  /\ pc[t] = "login"
  /\ refused' = TRUE
  /\ GoTo(t, "install")
  /\ UNCHANGED <<is_authenticated, use_acl, kind, sent, result, logins, entitled>>

\* ... JSON that is no object is passed over in silence ...
LoginIgnored(t) ==
  /\ pc[t] = "login"
  /\ refused' = TRUE
  /\ GoTo(t, "wait")
  /\ UNCHANGED <<is_authenticated, use_acl, kind, sent, result, logins, entitled>>

\* ... an object without a string d["auth"]["client_token"] fails an assertion ...
LoginPartial(t) ==
  /\ pc[t] = "login"
  /\ Abort
  /\ UNCHANGED <<is_authenticated, use_acl, logins, refused>>

\* ... and a token is handed to set_acl_token, which writes three fields.
LoginAccepted(t) ==
  /\ pc[t] = "login"
  /\ GoTo(t, "install")
  /\ UNCHANGED <<is_authenticated, use_acl, kind, sent, result, logins, refused, entitled>>

\* Mutant: set_acl_token does not set use_acl.
Install_Unused(t) ==
  /\ pc[t] = "install"
  /\ is_authenticated' = TRUE
  /\ entitled' = entitled \cup {t}
  /\ GoTo(t, "wait")
  /\ UNCHANGED <<use_acl, kind, sent, result, logins, refused>>

\* The fields are written, use_acl last, and the flag, up already, is raised
\* again.  While a thread is here the writes are under way.
Install(t) ==
  /\ pc[t] = "install"
  /\ use_acl' = TRUE
  /\ is_authenticated' = TRUE
  /\ entitled' = entitled \cup {t}
  /\ GoTo(t, "wait")
  /\ UNCHANGED <<kind, sent, result, logins, refused>>

\* while (!is_authenticated) yield
Pass(t) ==
  /\ pc[t] = "wait" /\ is_authenticated
  /\ GoTo(t, "send")
  /\ UNCHANGED <<is_authenticated, use_acl, kind, sent, result, logins, refused, entitled>>

-----------------------------------------------------------------------------
(* The request itself                                                      *)

Installing == \E u \in Threads : pc[u] = "install"

\* create_and_send_request reads the three fields without a lock.  While they
\* are being written it finds, in the order of the program, none or all of them;
\* but nothing orders the accesses between the threads, and a data race may also
\* show use_acl without the name and the token it stands for.
Send(t) ==
  /\ pc[t] = "send"
  /\ \E s \in {"token", "bare", "torn"} :
       /\ IF Installing THEN TRUE ELSE s = IF use_acl THEN "token" ELSE "bare"
       /\ sent' = [sent EXCEPT ![t] = s]
  /\ GoTo(t, "reply")
  /\ UNCHANGED <<is_authenticated, use_acl, kind, result, logins, refused, entitled>>

\* Mutant: the status is returned in place of the success flag.
Fail_Status(t) ==
  /\ pc[t] = "reply"
  /\ Return(t, "status")
  /\ UNCHANGED <<is_authenticated, use_acl, logins, refused>>

\* No answer, or a status above 206: what a request without the token gets.
Fail(t) ==
  /\ pc[t] = "reply"
  /\ Return(t, "failed")
  /\ UNCHANGED <<is_authenticated, use_acl, logins, refused>>

\* opt_exist and get_opt look no further than the status; gen_ssl_cert asks
\* for every member, though not for its type, before it reads it,
\* gen_consul_token for none; neither writes the caller's success flag when the
\* answer is JSON but no object.
Parse(t, body) ==
  \/ kind[t] \in {"opt_exist", "get_opt"} /\ Return(t, "ok")
  \/ /\ kind[t] \in {"gen_ssl_cert", "gen_consul_token"}
     /\ \/ body = "garbled" /\ Return(t, "failed")
        \/ body = "scalar" /\ Return(t, "unset")
        \/ body = "full" /\ Return(t, "ok")
        \/ body = "partial" /\ kind[t] = "gen_ssl_cert" /\ Return(t, "ok")
        \/ body = "partial" /\ kind[t] = "gen_consul_token" /\ Abort
        \/ body = "mistyped" /\ Abort

\* Mutant: the status is not looked at.
Answer_AnyStatus(t) ==
  /\ pc[t] = "reply"
  /\ \E body \in Bodies : Parse(t, body)
  /\ UNCHANGED <<is_authenticated, use_acl, logins, refused>>

Answer(t) ==
  /\ pc[t] = "reply" /\ sent[t] = "token"
  /\ \E body \in Bodies : Parse(t, body)
  /\ UNCHANGED <<is_authenticated, use_acl, logins, refused>>

-----------------------------------------------------------------------------
Login(t) ==
  LoginRefused(t) \/ LoginIgnored(t) \/ LoginPartial(t) \/ LoginAccepted(t)

Step(t) ==
  \/ Elect(t) \/ Follow(t) \/ Login(t) \/ Install(t) \/ Pass(t)
  \/ Send(t) \/ Fail(t) \/ Answer(t)

Next == \E t \in Threads : Call(t) \/ Step(t)

\* A thread inside a call is scheduled and its requests end, if only by the
\* session's timeout; nobody has to make a call.
Fairness == \A t \in Threads : WF_vars(Step(t))

Spec == Init /\ [][Next]_vars /\ Fairness

-----------------------------------------------------------------------------
(* Properties                                                              *)

\* However the threads race, the credentials are posted at most once in the
\* life of the client ("Ensure a single thread goes to authenticate").
SingleLogin == logins <= 1

\* A call that starts after the token is stored, and the call that stored it,
\* sends its request with the whole token.
TokenSticks == \A t \in Threads : pc[t] = "reply" /\ t \in entitled => sent[t] = "token"

\* After a failed login no request ever carries a token: the flag stays up,
\* so nobody logs in again, even when the server was down for a moment only.
FailedLoginIsFinal ==
  refused => ~use_acl /\ \A t \in Threads : sent[t] \in {"none", "bare"}

\* No thread waits for ever: the loop on is_authenticated ends in every case,
\* also when the thread that went to authenticate has thrown.
CallsEnd == \A t \in Threads : pc[t] # "idle" ~> pc[t] \in {"idle", "dead"}

\* The client has one session with the server: it is opened once and what came
\* of that is final, a call succeeds only with a request that carried the whole
\* token, and once the token is stored no request leaves without it.
Session ==
  INSTANCE VaultSession WITH
    session <- IF use_acl THEN "open" ELSE IF refused THEN "refused"
               ELSE IF is_authenticated THEN "opening" ELSE "closed",
    opener <- {t \in Threads : pc[t] \in {"login", "install"}},
    request <- [t \in Threads |->
                  CASE pc[t] = "idle" -> "none" [] pc[t] = "dead" -> "dead"
                    [] pc[t] = "reply" -> IF sent[t] = "token" THEN "shows" ELSE "hides"
                    [] OTHER -> "due"]

OneSession == Session!Spec

\* "Wait for the authenticating thread to complete prior to executing"
\* (vault_admin.h:115): no other thread has a request out while one logs in, so
\* that none is sent bare, and none reads the token fields as they are written.
WaitsForLogin ==
  \A t, u \in Threads : pc[t] \in {"login", "install"} => pc[u] # "reply"
=============================================================================
