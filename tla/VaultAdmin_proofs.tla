-------------------------- MODULE VaultAdmin_proofs --------------------------
(***************************************************************************)
(* Theorems about VaultAdmin, for any number of threads.                   *)
(*                                                                         *)
(* The argument is about the thread that logs in: there is one at a time   *)
(* because the flag it raised stays up, no token is stored before it is    *)
(* done, and none at all once its login has failed.                        *)
(***************************************************************************)
EXTENDS VaultAdmin, TLAPS

\* The threads between their compare-and-swap and the end of their login.
Authenticating(t) == pc[t] \in {"login", "install"}

\* The login is made once: before it, the flag is down and nobody is past it;
\* while it goes on and when it has failed, no token is stored.
LoginState ==
  /\ logins = IF is_authenticated THEN 1 ELSE 0
  /\ \A t \in Threads : pc[t] \notin {"idle", "cas", "dead"} => is_authenticated
  /\ \A t, u \in Threads : Authenticating(t) /\ Authenticating(u) => t = u
  /\ \A t \in Threads : Authenticating(t) => ~use_acl /\ ~refused
  /\ use_acl => is_authenticated /\ ~refused
  /\ refused => is_authenticated

\* No request has a token before one is being stored.
SentState ==
  /\ entitled # {} => use_acl
  /\ \/ use_acl
     \/ \E t \in Threads : pc[t] \in {"install", "dead"}
     \/ \A t \in Threads : sent[t] \in {"none", "bare"}
  /\ refused => \A t \in Threads : sent[t] \in {"none", "bare"}
  /\ \A t, u \in Threads : pc[t] = "dead" => pc[u] = "dead"

IInv == TypeOK /\ LoginState /\ SentState /\ TokenSticks

\* A client nobody has called satisfies the invariant.
LEMMA InitIInv == ASSUME Init PROVE IInv
  BY DEF Init, IInv, TypeOK, LoginState, SentState, TokenSticks, Authenticating

\* Every step of every thread keeps it, the login steps included.
LEMMA NextIInv == ASSUME IInv, [Next]_vars PROVE IInv'
<1> USE DEF IInv, GoTo, Return, Abort
<1> SUFFICES ASSUME NEW t \in Threads, Call(t) \/ Step(t) PROVE IInv'
  <2> CASE UNCHANGED vars
    BY DEF vars, TypeOK, LoginState, SentState, TokenSticks, Authenticating
  <2> QED
    BY DEF Next
<1>1. CASE Call(t)
  <2> USE <1>1 DEF Call
  <2>1. TypeOK'
    BY DEF TypeOK
  <2>2. LoginState'
    BY DEF TypeOK, LoginState, Authenticating
  <2>3. SentState' /\ TokenSticks'
    BY DEF TypeOK, LoginState, Authenticating, SentState, TokenSticks
  <2> QED
    BY <2>1, <2>2, <2>3
<1>2. CASE Elect(t)
  <2> USE <1>2 DEF Elect
  <2>1. TypeOK'
    BY DEF TypeOK
  <2>2. LoginState'
    BY DEF TypeOK, LoginState, Authenticating
  <2>3. SentState' /\ TokenSticks'
    BY DEF TypeOK, LoginState, Authenticating, SentState, TokenSticks
  <2> QED
    BY <2>1, <2>2, <2>3
<1>3. CASE Follow(t)
  <2> USE <1>3 DEF Follow
  <2>1. TypeOK'
    BY DEF TypeOK
  <2>2. LoginState'
    BY DEF TypeOK, LoginState, Authenticating
  <2>3. SentState' /\ TokenSticks'
    BY DEF TypeOK, LoginState, Authenticating, SentState, TokenSticks
  <2> QED
    BY <2>1, <2>2, <2>3
<1>4. CASE LoginRefused(t)
  <2> USE <1>4 DEF LoginRefused
  <2>1. TypeOK'
    BY DEF TypeOK
  <2>2. LoginState'
    BY DEF TypeOK, LoginState, Authenticating
  <2>3. SentState' /\ TokenSticks'
    BY DEF TypeOK, LoginState, Authenticating, SentState, TokenSticks
  <2> QED
    BY <2>1, <2>2, <2>3
<1>5. CASE LoginIgnored(t)
  <2> USE <1>5 DEF LoginIgnored
  <2>1. TypeOK'
    BY DEF TypeOK
  <2>2. LoginState'
    BY DEF TypeOK, LoginState, Authenticating
  <2>3. SentState' /\ TokenSticks'
    BY DEF TypeOK, LoginState, Authenticating, SentState, TokenSticks
  <2> QED
    BY <2>1, <2>2, <2>3
<1>6. CASE LoginPartial(t)
  <2> USE <1>6 DEF LoginPartial
  <2>1. TypeOK'
    BY DEF TypeOK
  <2>2. LoginState'
    BY DEF TypeOK, LoginState, Authenticating
  <2>3. SentState' /\ TokenSticks'
    BY DEF TypeOK, LoginState, Authenticating, SentState, TokenSticks
  <2> QED
    BY <2>1, <2>2, <2>3
<1>7. CASE LoginAccepted(t)
  <2> USE <1>7 DEF LoginAccepted
  <2>1. TypeOK'
    BY DEF TypeOK
  <2>2. LoginState'
    BY DEF TypeOK, LoginState, Authenticating
  <2>3. SentState' /\ TokenSticks'
    BY DEF TypeOK, LoginState, Authenticating, SentState, TokenSticks
  <2> QED
    BY <2>1, <2>2, <2>3
<1>8. CASE Install(t)
  <2> USE <1>8 DEF Install
  <2>1. TypeOK'
    BY DEF TypeOK
  <2>2. LoginState'
    BY DEF TypeOK, LoginState, Authenticating
  <2>3. SentState' /\ TokenSticks'
    BY DEF TypeOK, LoginState, Authenticating, SentState, TokenSticks
  <2> QED
    BY <2>1, <2>2, <2>3
<1>9. CASE Pass(t)
  <2> USE <1>9 DEF Pass
  <2>1. TypeOK'
    BY DEF TypeOK
  <2>2. LoginState'
    BY DEF TypeOK, LoginState, Authenticating
  <2>3. SentState' /\ TokenSticks'
    BY DEF TypeOK, LoginState, Authenticating, SentState, TokenSticks
  <2> QED
    BY <2>1, <2>2, <2>3
<1>10. CASE Send(t)
  <2> USE <1>10 DEF Send, Installing
  <2>1. TypeOK'
    BY DEF TypeOK
  <2>2. LoginState'
    BY DEF TypeOK, LoginState, Authenticating
  <2>3. SentState' /\ TokenSticks'
    BY DEF TypeOK, LoginState, Authenticating, SentState, TokenSticks
  <2> QED
    BY <2>1, <2>2, <2>3
<1>11. CASE Fail(t)
  <2> USE <1>11 DEF Fail
  <2>1. TypeOK'
    BY DEF TypeOK
  <2>2. LoginState'
    BY DEF TypeOK, LoginState, Authenticating
  <2>3. SentState' /\ TokenSticks'
    BY DEF TypeOK, LoginState, Authenticating, SentState, TokenSticks
  <2> QED
    BY <2>1, <2>2, <2>3
<1>12. CASE Answer(t)
  <2> USE <1>12 DEF Answer, Parse
  <2>1. TypeOK'
    BY DEF TypeOK
  <2>2. LoginState'
    BY DEF TypeOK, LoginState, Authenticating
  <2>3. SentState' /\ TokenSticks'
    BY DEF TypeOK, LoginState, Authenticating, SentState, TokenSticks
  <2> QED
    BY <2>1, <2>2, <2>3
<1> QED
  BY <1>1, <1>2, <1>3, <1>4, <1>5, <1>6, <1>7, <1>8, <1>9, <1>10, <1>11, <1>12 DEF Step, Login

\* Every state of a Vault client satisfies the inductive invariant: the login
\* went out exactly when is_authenticated was raised, one thread at most is
\* busy with it, and what a request carried is what it found stored.
THEOREM Invariance == Spec => []IInv
  BY InitIInv, NextIInv, PTL DEF Spec

\* Every field keeps its type, the caller's success flag among them.
THEOREM TypeCorrect == Spec => []TypeOK
  BY Invariance, PTL DEF IInv

\* The credentials are posted at most once, however many threads race to be
\* the first caller (vault_admin.h:110-114).
THEOREM OneLogin == Spec => []SingleLogin
<1>1. IInv => SingleLogin
  BY DEF IInv, LoginState, SingleLogin
<1> QED
  BY <1>1, Invariance, PTL

\* A call that starts after the token is stored sends the whole token.
THEOREM TokenIsKept == Spec => []TokenSticks
  BY Invariance, PTL DEF IInv

\* Once the login has failed no request of any thread carries a token.
THEOREM FailureIsFinal == Spec => []FailedLoginIsFinal
<1>1. IInv => FailedLoginIsFinal
  BY DEF IInv, LoginState, SentState, FailedLoginIsFinal
<1> QED
  BY <1>1, Invariance, PTL

-----------------------------------------------------------------------------
(* The refinement: the session opens with the compare-and-swap, is granted  *)
(* when the token is stored and refused when the login fails; a request     *)
(* shows it if it carries the whole token.                                  *)

\* The session and its requests, as VaultSession sees them.
State == IF use_acl THEN "open" ELSE IF refused THEN "refused"
         ELSE IF is_authenticated THEN "opening" ELSE "closed"
Opener == {t \in Threads : Authenticating(t)}
Seen(t) == CASE pc[t] = "idle" -> "none" [] pc[t] = "dead" -> "dead"
             [] pc[t] = "reply" -> IF sent[t] = "token" THEN "shows" ELSE "hides"
             [] OTHER -> "due"
Request == [t \in Threads |-> Seen(t)]

\* A step of one thread changes what is seen of that thread alone.
LEMMA SeenSteps ==
  ASSUME IInv, NEW t \in Threads, NEW label, GoTo(t, label),
         \A u \in Threads : u # t => sent'[u] = sent[u]
  PROVE  /\ pc'[t] = label /\ Request[t] = Seen(t)
         /\ Request' = [Request EXCEPT ![t] = Seen(t)']
         /\ Seen(t)' = Seen(t) => Request' = Request
<1>1. /\ pc'[t] = label
      /\ \A u \in Threads : u # t => Seen(u)' = Seen(u)
  BY DEF IInv, TypeOK, GoTo, Seen
<1>2. Request' = [Request EXCEPT ![t] = Seen(t)']
  BY <1>1 DEF Request
<1>3. Seen(t)' = Seen(t) => Request' = Request
  BY <1>1 DEF Request
<1> QED
  BY <1>1, <1>2, <1>3 DEF Request

\* The thread that logs in is the session's only opener, until it is done.
LEMMA OpenerSteps ==
  ASSUME IInv, NEW t \in Threads, NEW label, GoTo(t, label)
  PROVE  /\ Authenticating(t) => Opener = {t}
         /\ label \in {"login", "install"} /\ Authenticating(t) => Opener' = {t}
         /\ label \in {"login", "install"} /\ ~is_authenticated => Opener' = {t}
         /\ label \notin {"login", "install"} /\ Authenticating(t) => Opener' = {}
         /\ label \notin {"login", "install"} /\ ~Authenticating(t) => Opener' = Opener
<1>1. /\ \A u \in Threads : u # t => (Authenticating(u)' <=> Authenticating(u))
      /\ Authenticating(t)' <=> label \in {"login", "install"}
  BY DEF IInv, TypeOK, GoTo, Authenticating
<1>2. \A u, v \in Threads : Authenticating(u) /\ Authenticating(v) => u = v
  BY DEF IInv, LoginState
<1>3. ~is_authenticated => \A u \in Threads : ~Authenticating(u)
  BY DEF IInv, LoginState, Authenticating
<1> QED
  BY <1>1, <1>2, <1>3 DEF Opener

\* The variables of VaultSession, by name.
LEMMA Views ==
  /\ Session!vars = <<State, Opener, Request, result>>
  /\ \A t \in Threads : Request[t] = Seen(t)
BY DEF Session!vars, State, Opener, Request, Seen, Authenticating

LEMMA InitSession == Init => Session!Init
BY DEF Init, Session!Init

\* The actions of VaultSession, by the same names.
LEMMA ViewedActions ==
  ASSUME NEW t \in Threads
  PROVE  /\ Session!Begin(t) <=>
              /\ Request[t] = "none" /\ Request' = [Request EXCEPT ![t] = "due"]
              /\ result' = [result EXCEPT ![t] = "none"]
              /\ UNCHANGED <<State, Opener>>
         /\ Session!Open(t) <=>
              /\ Request[t] = "due" /\ State = "closed" /\ State' = "opening"
              /\ Opener' = {t} /\ UNCHANGED <<Request, result>>
         /\ Session!Grant(t) <=>
              /\ Opener = {t} /\ Opener' = {} /\ State = "opening" /\ State' = "open"
              /\ UNCHANGED <<Request, result>>
         /\ Session!Refuse(t) <=>
              /\ Opener = {t} /\ Opener' = {} /\ State = "opening" /\ State' = "refused"
              /\ \/ /\ Request' = [Request EXCEPT ![t] = "none"]
                    /\ result' = [result EXCEPT ![t] = "threw"]
                 \/ UNCHANGED <<Request, result>>
         /\ Session!Send(t) <=>
              /\ Request[t] = "due" /\ t \notin Opener /\ State # "closed"
              /\ \/ State # "refused" /\ Request' = [Request EXCEPT ![t] = "shows"]
                 \/ State # "open" /\ Request' = [Request EXCEPT ![t] = "hides"]
              /\ UNCHANGED <<State, Opener, result>>
         /\ Session!Fail(t) <=>
              /\ Request[t] \in {"shows", "hides"}
              /\ Request' = [Request EXCEPT ![t] = "none"]
              /\ result' = [result EXCEPT ![t] = "failed"]
              /\ UNCHANGED <<State, Opener>>
         /\ Session!Answer(t) <=>
              /\ Request[t] = "shows" /\ Request' = [Request EXCEPT ![t] = "none"]
              /\ \/ result' = [result EXCEPT ![t] = "ok"]
                 \/ result' = [result EXCEPT ![t] = "unset"]
              /\ UNCHANGED <<State, Opener>>
         /\ Session!Stop(t) <=>
              /\ Opener = {t} \/ Request[t] = "shows"
              /\ Opener' = {} /\ Request' = [u \in Threads |-> "dead"]
              /\ UNCHANGED <<State, result>>
BY DEF Session!Begin, Session!Open, Session!Grant, Session!Refuse, Session!Send,
       Session!Fail, Session!Answer, Session!Stop, Session!Become, Session!Return,
       State, Opener, Request, Seen, Authenticating

\* Each step of a call is a step of the session, or changes nothing of it.
LEMMA StepSession == IInv /\ [Next]_vars => [Session!Next]_(Session!vars)
<1> SUFFICES ASSUME IInv, NEW t \in Threads, Call(t) \/ Step(t)
             PROVE  \/ Session!Begin(t) \/ Session!Open(t) \/ Session!Grant(t)
                    \/ Session!Refuse(t) \/ Session!Send(t) \/ Session!Fail(t)
                    \/ Session!Answer(t) \/ Session!Stop(t)
                    \/ UNCHANGED <<State, Opener, Request, result>>
  <2>1. UNCHANGED vars => UNCHANGED <<State, Opener, Request, result>>
    BY DEF vars, State, Opener, Request, Seen, Authenticating
  <2> QED
    BY <2>1, Views DEF Next, Session!Next, Session!vars, State, Opener, Request, Seen, Authenticating
<1>0. /\ \A u \in Threads : sent[u] \in {"none", "token", "bare", "torn"}
      /\ sent \in [Threads -> {"none", "token", "bare", "torn"}]
      /\ pc[t] \notin {"idle", "cas", "dead"} => is_authenticated
      /\ Authenticating(t) => ~use_acl /\ ~refused
      /\ use_acl => is_authenticated /\ ~refused
      /\ refused => is_authenticated
  BY DEF IInv, TypeOK, LoginState
<1>1. CASE Call(t)
  <2>1. GoTo(t, "cas") /\ pc[t] = "idle" /\ UNCHANGED <<is_authenticated, use_acl, refused, sent>>
    BY <1>1 DEF Call
  <2>2. /\ Seen(t)' = "due" /\ Request[t] = "none"
        /\ Request' = [Request EXCEPT ![t] = Seen(t)']
    BY <2>1, SeenSteps DEF Seen
  <2>3. UNCHANGED <<State, Opener>>
    BY <2>1, OpenerSteps DEF State, Authenticating
  <2>4. result' = [result EXCEPT ![t] = "none"]
    BY <1>1 DEF Call
  <2> QED
    BY <2>2, <2>3, <2>4, ViewedActions
<1>2. CASE Elect(t)
  <2>1. GoTo(t, "login") /\ pc[t] = "cas" /\ UNCHANGED <<use_acl, refused, sent, result>>
        /\ ~is_authenticated /\ is_authenticated'
    BY <1>2 DEF Elect
  <2>2. Request[t] = "due" /\ UNCHANGED Request
    BY <2>1, SeenSteps DEF Seen
  <2>3. State = "closed" /\ State' = "opening"
    BY <1>0, <2>1 DEF State
  <2>4. Opener' = {t}
    BY <2>1, OpenerSteps
  <2> QED
    BY <2>1, <2>2, <2>3, <2>4, ViewedActions
<1>3. CASE Follow(t) \/ Pass(t)
  <2>1. \E label \in {"wait", "send"} : GoTo(t, label) /\ pc[t] \in {"cas", "wait"}
        /\ UNCHANGED <<is_authenticated, use_acl, refused, sent, result>>
    BY <1>3 DEF Follow, Pass
  <2>2. UNCHANGED Request
    BY <2>1, SeenSteps DEF Seen
  <2>3. UNCHANGED <<State, Opener>>
    BY <2>1, OpenerSteps DEF State, Authenticating
  <2> QED
    BY <2>1, <2>2, <2>3
<1>4. CASE LoginAccepted(t)
  <2>1. GoTo(t, "install") /\ pc[t] = "login"
        /\ UNCHANGED <<is_authenticated, use_acl, refused, sent, result>>
    BY <1>4 DEF LoginAccepted
  <2>2. UNCHANGED Request
    BY <2>1, SeenSteps DEF Seen
  <2>3. UNCHANGED <<State, Opener>>
    BY <2>1, OpenerSteps DEF State, Authenticating
  <2> QED
    BY <2>1, <2>2, <2>3
<1>5. CASE Install(t)
  <2>1. GoTo(t, "wait") /\ pc[t] = "install" /\ use_acl'
        /\ UNCHANGED <<refused, sent, result>>
    BY <1>5 DEF Install
  <2>2. UNCHANGED Request
    BY <2>1, SeenSteps DEF Seen
  <2>3. State = "opening" /\ State' = "open"
    BY <1>0, <2>1 DEF State, Authenticating
  <2>4. Opener = {t} /\ Opener' = {}
    BY <2>1, OpenerSteps DEF Authenticating
  <2> QED
    BY <2>1, <2>2, <2>3, <2>4, ViewedActions
<1>6. CASE LoginRefused(t)
  <2>1. GoTo(t, "idle") /\ pc[t] = "login" /\ sent' = [sent EXCEPT ![t] = "none"]
        /\ result' = [result EXCEPT ![t] = "threw"] /\ refused'
        /\ UNCHANGED <<is_authenticated, use_acl>>
    BY <1>6 DEF LoginRefused, Return
  <2>2. Request' = [Request EXCEPT ![t] = "none"]
    <3>1. \A u \in Threads : u # t => sent'[u] = sent[u]
      BY <1>0, <2>1
    <3> QED
      BY <2>1, <3>1, SeenSteps DEF Seen
  <2>3. State = "opening" /\ State' = "refused"
    BY <1>0, <2>1 DEF State, Authenticating
  <2>4. Opener = {t} /\ Opener' = {}
    BY <2>1, OpenerSteps DEF Authenticating
  <2> QED
    BY <2>1, <2>2, <2>3, <2>4, ViewedActions
<1>7. CASE LoginIgnored(t)
  <2>1. GoTo(t, "wait") /\ pc[t] = "login" /\ refused'
        /\ UNCHANGED <<is_authenticated, use_acl, sent, result>>
    BY <1>7 DEF LoginIgnored
  <2>2. UNCHANGED Request
    BY <2>1, SeenSteps DEF Seen
  <2>3. State = "opening" /\ State' = "refused"
    BY <1>0, <2>1 DEF State, Authenticating
  <2>4. Opener = {t} /\ Opener' = {}
    BY <2>1, OpenerSteps DEF Authenticating
  <2> QED
    BY <2>1, <2>2, <2>3, <2>4, ViewedActions
<1>8. ASSUME Abort, UNCHANGED <<is_authenticated, use_acl, refused>>
      PROVE  /\ Opener' = {} /\ Request' = [u \in Threads |-> "dead"]
             /\ UNCHANGED <<State, result>>
  BY <1>8 DEF Abort, Opener, Authenticating, Request, Seen, State
<1>9. CASE LoginPartial(t)
  <2>1. Opener = {t}
    BY <1>9 DEF LoginPartial, Opener, Authenticating, IInv, LoginState
  <2> QED
    BY <1>8, <1>9, <2>1, ViewedActions DEF LoginPartial
<1>10. CASE Send(t)
  <2>1. PICK s \in {"token", "bare", "torn"} :
          /\ GoTo(t, "reply") /\ pc[t] = "send" /\ sent' = [sent EXCEPT ![t] = s]
          /\ Installing \/ (s = "token" <=> use_acl)
          /\ UNCHANGED <<is_authenticated, use_acl, refused, result>>
    BY <1>10 DEF Send
  <2>2. /\ Request[t] = "due"
        /\ Request' = [Request EXCEPT ![t] = IF s = "token" THEN "shows" ELSE "hides"]
    <3>1. sent'[t] = s /\ \A u \in Threads : u # t => sent'[u] = sent[u]
      BY <1>0, <2>1
    <3> QED
      BY <2>1, <3>1, SeenSteps DEF Seen
  <2>3. UNCHANGED <<State, Opener>> /\ t \notin Opener
    <3>1. \A u \in Threads : Authenticating(u)' <=> Authenticating(u)
      BY <2>1 DEF Authenticating, GoTo, IInv, TypeOK
    <3> QED
      BY <2>1, <3>1 DEF State, Opener, Authenticating
  <2>4. State # "closed"
    BY <1>0, <2>1 DEF State
  <2>5. /\ s = "token" => State # "refused"
        /\ s # "token" => State # "open"
    <3>1. Installing => ~use_acl /\ ~refused
      BY DEF Installing, IInv, LoginState, Authenticating
    <3> QED
      BY <2>1, <3>1 DEF State
  <2> QED
    BY <2>1, <2>2, <2>3, <2>4, <2>5, ViewedActions
<1>11. ASSUME NEW r, pc[t] = "reply", Return(t, r),
              UNCHANGED <<is_authenticated, use_acl, refused>>
       PROVE  /\ Request[t] = IF sent[t] = "token" THEN "shows" ELSE "hides"
              /\ Request' = [Request EXCEPT ![t] = "none"]
              /\ result' = [result EXCEPT ![t] = r]
              /\ UNCHANGED <<State, Opener>>
  <2>1. GoTo(t, "idle") /\ result' = [result EXCEPT ![t] = r]
        /\ \A u \in Threads : u # t => sent'[u] = sent[u]
    BY <1>0, <1>11 DEF Return
  <2>2. /\ Request[t] = IF sent[t] = "token" THEN "shows" ELSE "hides"
        /\ Request' = [Request EXCEPT ![t] = "none"]
    BY <1>11, <2>1, SeenSteps DEF Seen
  <2>3. UNCHANGED <<State, Opener>>
    BY <1>11, <2>1, OpenerSteps DEF State, Authenticating
  <2> QED
    BY <2>1, <2>2, <2>3
<1>12. CASE Fail(t)
  BY <1>11, <1>12, ViewedActions DEF Fail
<1>13. CASE Answer(t)
  <2>1. pc[t] = "reply" /\ sent[t] = "token"
        /\ UNCHANGED <<is_authenticated, use_acl, refused>>
        /\ \/ Abort \/ \E r \in {"ok", "failed", "unset"} : Return(t, r)
    BY <1>13 DEF Answer, Parse
  <2>2. CASE Abort
    <3>1. Request[t] = "shows"
      BY <2>1 DEF Request, Seen
    <3> QED
      BY <1>8, <2>1, <2>2, <3>1, ViewedActions
  <2>3. ASSUME NEW r \in {"ok", "failed", "unset"}, Return(t, r)
        PROVE  Session!Fail(t) \/ Session!Answer(t)
    BY <1>11, <2>1, <2>3, ViewedActions
  <2> QED
    BY <2>1, <2>2, <2>3
<1> QED
  BY <1>1, <1>2, <1>3, <1>4, <1>5, <1>6, <1>7, <1>9, <1>10, <1>12, <1>13 DEF Step, Login

\* Whatever the threads and the server do, the client keeps one session with
\* it: opened once, final, and needed for every answer.
THEOREM Refinement == Spec => OneSession
  BY InitSession, StepSession, Invariance, PTL DEF Spec, OneSession, Session!Spec

-----------------------------------------------------------------------------
(* Progress, as far as it is about single steps.                            *)

\* The steps a call has left at most, with and without a login.
StepsLeft(stage) ==
  CASE stage = "cas" -> 6 [] stage = "login" -> 5 [] stage = "install" -> 4
    [] stage = "wait" -> 3 [] stage = "send" -> 2 [] stage = "reply" -> 1 [] OTHER -> 0

\* The flag is up whenever a thread comes to wait for it.
WaitIsOver == \A t \in Threads : pc[t] = "wait" => is_authenticated

\* "Wait for the authenticating thread to complete" (vault_admin.h:115) waits
\* for nothing: the flag is up before the loop is reached and stays up, so that
\* no thread can be kept in it, even when the login has thrown; and every call
\* ends after at most six steps of its own, none of them undone by the others.
THEOREM CallsAdvance ==
  Spec => /\ []WaitIsOver
          /\ [][/\ is_authenticated => is_authenticated'
               /\ \A t \in Threads : pc[t] # "idle" =>
                    pc'[t] = pc[t] \/ StepsLeft(pc'[t]) < StepsLeft(pc[t])
                    \/ pc[t] = "dead"]_vars
<1> DEFINE Advance == /\ is_authenticated => is_authenticated'
                      /\ \A t \in Threads : pc[t] # "idle" =>
                           pc'[t] = pc[t] \/ StepsLeft(pc'[t]) < StepsLeft(pc[t])
                           \/ pc[t] = "dead"
<1>1. IInv => WaitIsOver
  BY DEF IInv, LoginState, WaitIsOver
<1>2. ASSUME IInv, NEW t \in Threads, Call(t) \/ Step(t)
      PROVE  Advance
  <2>1. is_authenticated => is_authenticated'
    BY <1>2 DEF Step, Login, Call, Elect, Follow, LoginRefused, LoginIgnored, LoginPartial,
                LoginAccepted, Install, Pass, Send, Fail, Answer
  <2>2. /\ \A u \in Threads : pc'[u] = "dead"
        \/ /\ \A u \in Threads : u # t => pc'[u] = pc[u]
           /\ pc[t] = "idle" \/ StepsLeft(pc'[t]) < StepsLeft(pc[t])
    <3> USE DEF GoTo, Return, Abort, StepsLeft
    <3>0. pc \in [Threads -> {"idle", "cas", "login", "install", "wait",
                              "send", "reply", "dead"}]
      BY <1>2 DEF IInv, TypeOK
    <3>1. CASE Call(t) \/ Elect(t) \/ Follow(t) \/ Install(t) \/ Pass(t)
      BY <3>0, <3>1 DEF Call, Elect, Follow, Install, Pass
    <3>2. CASE Login(t)
      BY <3>0, <3>2 DEF Login, LoginRefused, LoginIgnored, LoginPartial, LoginAccepted
    <3>3. CASE Send(t) \/ Fail(t) \/ Answer(t)
      BY <3>0, <3>3 DEF Send, Fail, Answer, Parse
    <3> QED
      BY <1>2, <3>1, <3>2, <3>3 DEF Step
  <2>3. \A u \in Threads : pc[u] \in {"idle", "cas", "login", "install", "wait",
                                      "send", "reply", "dead"}
    BY <1>2 DEF IInv, TypeOK
  <2> QED
    BY <2>1, <2>2, <2>3 DEF StepsLeft
<1>3. IInv /\ [Next]_vars => [Advance]_vars
  BY <1>2 DEF Next
<1> QED
  BY <1>1, <1>3, Invariance, PTL DEF Spec
=============================================================================
