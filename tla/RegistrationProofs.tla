------------------------- MODULE RegistrationProofs -------------------------
(***************************************************************************)
(* Proofs about Registration, for every number of calls, tokens, keys and  *)
(* deployments.  The invariant ties the token a call was issued to the one *)
(* that is stored, as long as nothing excuses the call, and the one stored *)
(* to the last one issued.                                                 *)
(***************************************************************************)
EXTENDS Registration, TLAPS

USE RegistrationAssumption DEF RegistrationAssumption

\* Call c was issued its token by a registration of its own, and has not been
\* answered since.
Holds(c) == call[c].pc = "issued" \/ (call[c].pc = "sent" /\ call[c].retry)

\* What a call was issued is what is stored, and readable, until it is excused.
IssuedIsStored ==
    \A c \in Calls : Holds(c) /\ ~excused[c] => /\ call[c].token \in Tokens
                                                /\ currentToken = call[c].token

\* Nothing is stored but the newest token.
NewestIsStored == stored # None => stored.token = newest

\* A call to a protected route carries a token.
SentWithToken == \A c \in Calls : call[c].pc \in {"sent", "issued"} => call[c].token # None

TokenInv == TypeOK /\ IssuedIsStored /\ NewestIsStored /\ SentWithToken

-----------------------------------------------------------------------------
(* Steps of one call *)

\* What a step does to the calls: call c moves on, the others stay, c holds a token
\* afterwards only if it held that token before, and calls no route without one.
Moves(c) ==
    /\ call' \in [Calls -> Call]
    /\ \A d \in Calls : d # c => call'[d] = call[d]
    /\ Holds(c)' => Holds(c) /\ call'[c].token = call[c].token
    /\ call'[c].pc \in {"sent", "issued"} => call'[c].token # None

LEMMA MovesInv ==
    ASSUME TokenInv, NEW c \in Calls, Moves(c),
           UNCHANGED <<stored, key, newest>>,
           \A d \in Calls : excused'[d] \in BOOLEAN /\ (excused[d] => excused'[d])
    PROVE  IssuedIsStored' /\ NewestIsStored' /\ SentWithToken'
<1>1. currentToken' = currentToken
  BY DEF currentToken
<1>2. \A d \in Calls : Holds(d)' => Holds(d) /\ call'[d].token = call[d].token
  BY DEF Moves, Holds
<1>3. IssuedIsStored'
  BY <1>1, <1>2 DEF TokenInv, IssuedIsStored
<1>4. NewestIsStored'
  BY DEF TokenInv, NewestIsStored
<1>5. SentWithToken'
  BY DEF TokenInv, SentWithToken, Moves
<1> QED BY <1>3, <1>4, <1>5

LEMMA SendMoves ==
    ASSUME TokenInv, NEW c \in Calls, Send(c)
    PROVE  Moves(c)
BY DEF TokenInv, TypeOK, Call, Send, Moves, Holds

LEMMA ReceiveMoves ==
    ASSUME TokenInv, NEW c \in Calls, Receive(c)
    PROVE  Moves(c)
BY DEF TokenInv, TypeOK, Call, Receive, Moves, Holds, SentWithToken

LEMMA EndMoves ==
    ASSUME TokenInv, NEW c \in Calls, Lost(c) \/ Done(c) \/ RegisterFails(c)
    PROVE  Moves(c)
<1>1. CASE Lost(c)
  BY <1>1 DEF TokenInv, TypeOK, Call, Lost, Moves, Holds
<1>2. CASE Done(c)
  BY <1>2 DEF TokenInv, TypeOK, Call, Done, Idle, Moves, Holds
<1>3. CASE RegisterFails(c)
  BY <1>3 DEF TokenInv, TypeOK, Call, RegisterFails, Moves, Holds
<1> QED BY <1>1, <1>2, <1>3

LEMMA ForbiddenMoves ==
    ASSUME TokenInv, NEW c \in Calls, call[c].pc = "sent", Forbidden(c)
    PROVE  Moves(c)
BY DEF TokenInv, TypeOK, Call, Forbidden, Moves, Holds

LEMMA RequireMoves ==
    ASSUME TokenInv, NEW c \in Calls, RequireBearerToken(c)
    PROVE  Moves(c)
<1>1. CASE call[c].token = currentToken
  BY <1>1 DEF TokenInv, TypeOK, Call, RequireBearerToken, Moves, Holds
<1>2. CASE call[c].token # currentToken
  BY <1>2, ForbiddenMoves DEF RequireBearerToken
<1> QED BY <1>1, <1>2

\* A registration stores what it issues.
LEMMA RegisterInv ==
    ASSUME TokenInv, NEW c \in Calls, Register(c)
    PROVE  TokenInv'
<1>1. PICK t \in Tokens \ InUse :
        /\ stored' = [token |-> t, key |-> key]
        /\ call' = [call EXCEPT ![c] = [pc |-> "issued", token |-> t, retry |-> FALSE]]
        /\ newest' = t
  BY DEF Register
<1>2. /\ call'[c] = [pc |-> "issued", token |-> t, retry |-> FALSE]
      /\ \A d \in Calls : d # c => call'[d] = call[d]
  BY <1>1 DEF TokenInv, TypeOK
<1>3. TypeOK'
  BY <1>1 DEF TokenInv, TypeOK, Call, Register
<1>4. stored' \in [token : Tokens, key : Keys]
  BY <1>1 DEF TokenInv, TypeOK
<1>5. currentToken' = t
  BY <1>1, <1>4 DEF currentToken, Register
<1>6. \A d \in Calls : ~excused'[d] => d = c
  BY DEF Register
<1>7. IssuedIsStored'
  BY <1>2, <1>5, <1>6 DEF IssuedIsStored, Holds
<1>8. NewestIsStored'
  BY <1>1 DEF NewestIsStored
<1>9. SentWithToken'
  BY <1>2 DEF TokenInv, SentWithToken
<1> QED BY <1>3, <1>7, <1>8, <1>9 DEF TokenInv

-----------------------------------------------------------------------------
(* The invariant *)

LEMMA StepInv ==
    ASSUME TokenInv, NEW c \in Calls, Step(c)
    PROVE  TokenInv'
<1>1. CASE Send(c)
  <2>1. Moves(c)
    BY <1>1, SendMoves
  <2>2. TypeOK'
    BY <1>1, <2>1 DEF TokenInv, TypeOK, Send, Moves
  <2> QED BY <1>1, <2>1, <2>2, MovesInv DEF TokenInv, TypeOK, Send
<1>2. CASE Receive(c)
  <2>1. Moves(c)
    BY <1>2, ReceiveMoves
  <2>2. TypeOK'
    BY <1>2, <2>1 DEF TokenInv, TypeOK, Receive, Moves, Call
  <2> QED BY <1>2, <2>1, <2>2, MovesInv DEF TokenInv, TypeOK, Receive
<1>3. CASE Lost(c) \/ Done(c) \/ RegisterFails(c)
  <2>1. Moves(c)
    BY <1>3, EndMoves
  <2>2. TypeOK'
    BY <1>3, <2>1 DEF TokenInv, TypeOK, Lost, Done, RegisterFails, Moves
  <2> QED BY <1>3, <2>1, <2>2, MovesInv DEF TokenInv, TypeOK, Lost, Done, RegisterFails
<1>4. CASE RequireBearerToken(c)
  <2>1. Moves(c)
    BY <1>4, RequireMoves
  <2>2. TypeOK'
    BY <1>4, <2>1 DEF TokenInv, TypeOK, RequireBearerToken, Moves
  <2> QED BY <1>4, <2>1, <2>2, MovesInv DEF TokenInv, TypeOK, RequireBearerToken
<1>5. CASE ReadFails(c)
  <2>1. Moves(c)
    BY <1>5, ForbiddenMoves DEF ReadFails
  <2>2. TypeOK'
    BY <1>5, <2>1 DEF TokenInv, TypeOK, ReadFails, Moves
  <2> QED BY <1>5, <2>1, <2>2, MovesInv DEF TokenInv, TypeOK, ReadFails
<1>6. CASE Register(c)
  BY <1>6, RegisterInv
<1> QED BY <1>1, <1>2, <1>3, <1>4, <1>5, <1>6 DEF Step, Answer

LEMMA RedeployInv ==
    ASSUME TokenInv, Redeploy
    PROVE  TokenInv'
<1>1. TypeOK'
  BY DEF TokenInv, TypeOK, Call, Redeploy
<1>2. IssuedIsStored'
  BY DEF IssuedIsStored, Redeploy
<1>3. NewestIsStored'
  BY DEF TokenInv, NewestIsStored, Redeploy
<1>4. SentWithToken'
  BY DEF TokenInv, TypeOK, SentWithToken, Redeploy
<1> QED BY <1>1, <1>2, <1>3, <1>4 DEF TokenInv

LEMMA InitToken == Init => TokenInv
<1> SUFFICES ASSUME Init PROVE TokenInv
  OBVIOUS
<1>1. TypeOK
  BY DEF Init, TypeOK, Call, Idle
<1>2. \A c \in Calls : ~Holds(c)
  BY DEF Init, Idle, Holds
<1>3. NewestIsStored
  BY DEF Init, NewestIsStored
<1>4. SentWithToken
  BY DEF Init, Idle, SentWithToken
<1> QED BY <1>1, <1>2, <1>3, <1>4 DEF TokenInv, IssuedIsStored

LEMMA NextToken == TokenInv /\ [Next]_vars => TokenInv'
<1> SUFFICES ASSUME TokenInv, [Next]_vars PROVE TokenInv'
  OBVIOUS
<1>1. CASE Next
  BY <1>1, StepInv, RedeployInv DEF Next
<1>2. CASE UNCHANGED vars
  BY <1>2 DEF TokenInv, TypeOK, IssuedIsStored, NewestIsStored, SentWithToken, Holds,
     currentToken, vars
<1> QED BY <1>1, <1>2

-----------------------------------------------------------------------------
(* The theorems *)

\* Every reachable state has the types of Registration's state.
THEOREM TypeCorrect == Spec => []TypeOK
<1>1. TokenInv => TypeOK
  BY DEF TokenInv
<1> QED BY <1>1, InitToken, NextToken, PTL DEF Spec

\* A retry with a newly issued token fails only if another registration, a
\* deployment or a failed read came between (register.go Register,
\* auth_middleware.go RequireBearerToken).
THEOREM RetryServedCorrect == Spec => RetryServed
<1> DEFINE Served == \A c \in Calls :
                       call[c].pc = "sent" /\ call[c].retry /\ call'[c].pc = "failed"
                       /\ call'[c].retry => excused'[c]
<1>1. TokenInv /\ [Next]_vars => [Served]_vars
  <2> SUFFICES ASSUME TokenInv, Next, NEW c \in Calls,
                      call[c].pc = "sent", call[c].retry,
                      call'[c].pc = "failed", call'[c].retry
               PROVE  excused'[c]
    OBVIOUS
  <2>1. CASE Redeploy
    BY <2>1 DEF Redeploy
  <2>2. ASSUME NEW d \in Calls, Step(d) PROVE excused'[c]
    <3>1. c = d
      BY <2>2 DEF TokenInv, TypeOK, Step, Answer, Send, Receive, Lost, Done, RequireBearerToken,
         Forbidden, ReadFails, Register, RegisterFails
    <3>2. CASE RequireBearerToken(c)
      <4>1. call[c].token # currentToken
        <5> SUFFICES ASSUME call[c].token = currentToken PROVE FALSE
          OBVIOUS
        <5>1. call' = [call EXCEPT ![c].pc = "served"]
          BY <3>2 DEF RequireBearerToken
        <5> QED BY <5>1 DEF TokenInv, TypeOK, Call
      <4>2. excused[c]
        BY <4>1 DEF TokenInv, IssuedIsStored, Holds
      <4> QED BY <3>2, <4>2 DEF RequireBearerToken
    <3>3. CASE ReadFails(c)
      BY <3>3 DEF TokenInv, TypeOK, ReadFails
    <3>4. CASE Lost(c)
      BY <3>4 DEF TokenInv, TypeOK, Lost
    <3> QED BY <2>2, <3>1, <3>2, <3>3, <3>4 DEF Step, Answer, Send, Receive, Done, Register,
               RegisterFails
  <2> QED BY <2>1, <2>2 DEF Next
<1> QED BY <1>1, InitToken, NextToken, PTL DEF Spec, RetryServed

\* From the moment a registration is answered no token issued before it is served
\* to any call, and after the table is lost none is (auth_middleware.go
\* RequireBearerToken, currentToken, read on every request).
THEOREM OvertakenCorrect == Spec => OvertakenNotServed
<1> DEFINE Fresh == \A c \in Calls : call'[c].pc = "served" /\ call[c].pc # "served"
                                     => call[c].token = newest
<1>1. TokenInv /\ [Next]_vars => [Fresh]_vars
  <2> SUFFICES ASSUME TokenInv, Next,
                      NEW c \in Calls, call'[c].pc = "served", call[c].pc # "served"
               PROVE  call[c].token = newest
    OBVIOUS
  <2>1. CASE Redeploy
    BY <2>1 DEF TokenInv, TypeOK, Redeploy
  <2>2. ASSUME NEW e \in Calls, Step(e) PROVE call[c].token = newest
    <3>1. c = e
      BY <2>2 DEF TokenInv, TypeOK, Step, Answer, Send, Receive, Lost, Done, RequireBearerToken,
         Forbidden, ReadFails, Register, RegisterFails
    <3>2. ASSUME call'[c].pc \in {"sent", "register", "issued", "failed", "idle"} PROVE FALSE
      BY <3>2
    <3>3. RequireBearerToken(c)
      <4>1. CASE Send(c) \/ Receive(c) \/ Lost(c) \/ Done(c)
        BY <3>2, <4>1 DEF TokenInv, TypeOK, Call, Send, Receive, Lost, Done, Idle
      <4>2. CASE ReadFails(c)
        BY <3>2, <4>2 DEF TokenInv, TypeOK, ReadFails, Forbidden
      <4>3. CASE Register(c) \/ RegisterFails(c)
        BY <3>2, <4>3 DEF TokenInv, TypeOK, Register, RegisterFails
      <4> QED BY <2>2, <3>1, <4>1, <4>2, <4>3 DEF Step, Answer
    <3>4. call[c].pc = "sent" /\ call[c].token = currentToken
      BY <3>2, <3>3 DEF TokenInv, TypeOK, RequireBearerToken, Forbidden
    <3>5. call[c].token # None
      BY <3>4 DEF TokenInv, SentWithToken
    <3> QED BY <3>4, <3>5 DEF TokenInv, NewestIsStored, currentToken
  <2> QED BY <2>1, <2>2 DEF Next
<1> QED BY <1>1, InitToken, NextToken, PTL DEF Spec, OvertakenNotServed

=============================================================================
