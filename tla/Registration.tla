---------------------------- MODULE Registration ----------------------------
(***************************************************************************)
(* The token hhq presents on every call: POST /register issues one and     *)
(* stores it, encrypted, in bt_settings; RequireBearerToken reads it back  *)
(* on every request.  hhq is external and modelled from what the comments  *)
(* of register.go and auth_middleware.go and the README say of it: it      *)
(* keeps the token it received last, and on a 403 it registers again and   *)
(* retries once with what it got.  Several of its calls may be under way.  *)
(***************************************************************************)
EXTENDS Integers

CONSTANTS
    Calls,        \* calls of hhq that can be under way together
    Tokens,       \* tokens; one that nobody holds any more may come up again
    Keys,         \* values of ENCRYPTION_KEY
    None,         \* no token
    MaxRedeploys  \* bound: how often the plugin is deployed again

ASSUME RegistrationAssumption ==
    /\ None \notin Tokens \cup [token : Tokens, key : Keys]
    /\ MaxRedeploys \in Nat
    /\ \E k \in Keys : TRUE

VARIABLES
    stored,     \* bt_settings["plugin_token"]: the token and the key it is encrypted with
    key,        \* ENCRYPTION_KEY of the running plugin
    secretOK,   \* PLUGIN_CONNECTION_SECRET is the same on both sides
    hhqToken,   \* the token hhq has
    call,       \* what each call of hhq is doing
    newest,     \* history: the token issued last, None if the table was lost since
    excused,    \* history: since call c was issued its token, something happened to it
    redeploys

vars == <<stored, key, secretOK, hhqToken, call, newest, excused, redeploys>>

\* "sent": waiting for the answer of a protected route, "register": of /register,
\* "issued": /register answered and the answer is on its way
Call == [pc : {"idle", "sent", "register", "issued", "served", "failed"},
         token : Tokens \cup {None}, retry : BOOLEAN]

Idle == [pc |-> "idle", token |-> None, retry |-> FALSE]

TypeOK ==
    /\ stored \in [token : Tokens, key : Keys] \cup {None}
    /\ key \in Keys
    /\ secretOK \in BOOLEAN
    /\ hhqToken \in Tokens \cup {None}
    /\ call \in [Calls -> Call]
    /\ newest \in Tokens \cup {None}
    /\ excused \in [Calls -> BOOLEAN]
    /\ redeploys \in 0..MaxRedeploys

InUse == {hhqToken} \cup {call[c].token : c \in Calls}
         \cup (IF stored = None THEN {} ELSE {stored.token})

\* currentToken: None if nothing is stored or it does not decrypt
currentToken == IF stored # None /\ stored.key = key THEN stored.token ELSE None

-----------------------------------------------------------------------------
(* hhq *)

\* a call to a protected route; without a token hhq registers first
Send(c) ==
    /\ call[c].pc = "idle"
    /\ call' = [call EXCEPT ![c] =
                  IF hhqToken = None THEN [pc |-> "register", token |-> None, retry |-> FALSE]
                  ELSE [pc |-> "sent", token |-> hhqToken, retry |-> FALSE]]
    /\ UNCHANGED <<stored, key, secretOK, hhqToken, newest, excused, redeploys>>

\* the token arrives, is kept, and the call is made again with it
Receive(c) ==
    /\ call[c].pc = "issued"
    /\ hhqToken' = call[c].token
    /\ call' = [call EXCEPT ![c].pc = "sent", ![c].retry = TRUE]
    /\ UNCHANGED <<stored, key, secretOK, newest, excused, redeploys>>

\* a request or an answer is lost
Lost(c) ==
    /\ call[c].pc \in {"sent", "register", "issued"}
    /\ call' = [call EXCEPT ![c] = [pc |-> "failed", token |-> None, retry |-> FALSE]]
    /\ UNCHANGED <<stored, key, secretOK, hhqToken, newest, excused, redeploys>>

Done(c) ==
    /\ call[c].pc \in {"served", "failed"}
    /\ call' = [call EXCEPT ![c] = Idle]
    /\ UNCHANGED <<stored, key, secretOK, hhqToken, newest, excused, redeploys>>

-----------------------------------------------------------------------------
(* The plugin *)

\* 403: hhq registers again, unless this was the retry already
Forbidden(c) ==
    call' = [call EXCEPT ![c] = IF call[c].retry
                                THEN [pc |-> "failed", token |-> call[c].token, retry |-> TRUE]
                                ELSE [pc |-> "register", token |-> None, retry |-> FALSE]]

\* wrong: an undecryptable token is an internal error, which hhq does not act on
RequireBearerTokenErrors(c) ==
    /\ call[c].pc = "sent"
    /\ IF call[c].token = currentToken
       THEN call' = [call EXCEPT ![c].pc = "served"]
       ELSE IF stored # None /\ stored.key # key
       THEN call' = [call EXCEPT ![c] = [pc |-> "failed", token |-> None, retry |-> FALSE]]
       ELSE Forbidden(c)
    /\ UNCHANGED <<stored, key, secretOK, hhqToken, newest, excused, redeploys>>

\* the token of the request is the one stored now, or the answer is 403
RequireBearerToken(c) ==
    /\ call[c].pc = "sent"
    /\ IF call[c].token = currentToken
       THEN call' = [call EXCEPT ![c].pc = "served"]
       ELSE Forbidden(c)
    /\ UNCHANGED <<stored, key, secretOK, hhqToken, newest, excused, redeploys>>

\* the stored token cannot be read: 403 as well
ReadFails(c) ==
    /\ call[c].pc = "sent"
    /\ Forbidden(c)
    /\ excused' = [excused EXCEPT ![c] = TRUE]
    /\ UNCHANGED <<stored, key, secretOK, hhqToken, newest, redeploys>>

\* wrong: the first caller wins, a token that is stored already stays
RegisterOnce(c) ==
    /\ call[c].pc = "register"
    /\ secretOK
    /\ \E t \in Tokens \ InUse :
         /\ stored' = IF stored = None THEN [token |-> t, key |-> key] ELSE stored
         /\ call' = [call EXCEPT ![c] = [pc |-> "issued", token |-> t, retry |-> FALSE]]
         /\ newest' = t
    /\ excused' = [d \in Calls |-> d # c]
    /\ UNCHANGED <<key, secretOK, hhqToken, redeploys>>

\* a fresh token replaces whatever is stored
Register(c) ==
    /\ call[c].pc = "register"
    /\ secretOK
    /\ \E t \in Tokens \ InUse :
         /\ stored' = [token |-> t, key |-> key]
         /\ call' = [call EXCEPT ![c] = [pc |-> "issued", token |-> t, retry |-> FALSE]]
         /\ newest' = t
    /\ excused' = [d \in Calls |-> d # c]
    /\ UNCHANGED <<key, secretOK, hhqToken, redeploys>>

\* 401 for a wrong secret, 500 if the token cannot be stored
RegisterFails(c) ==
    /\ call[c].pc = "register"
    /\ call' = [call EXCEPT ![c] = [pc |-> "failed", token |-> None, retry |-> FALSE]]
    /\ UNCHANGED <<stored, key, secretOK, hhqToken, newest, excused, redeploys>>

\* the plugin is deployed again, with another key, another secret, or without
\* its database; calls under way fail
Redeploy ==
    /\ redeploys < MaxRedeploys
    /\ redeploys' = redeploys + 1
    /\ key' \in Keys
    /\ secretOK' \in BOOLEAN
    /\ stored' \in {stored, None}
    /\ call' = [c \in Calls |-> IF call[c].pc \in {"sent", "register"}
                                THEN [pc |-> "failed", token |-> None, retry |-> FALSE] ELSE call[c]]
    /\ excused' = [c \in Calls |-> TRUE]
    /\ newest' = IF stored' = None THEN None ELSE newest
    /\ UNCHANGED hhqToken

Init ==
    /\ stored = None
    /\ key \in Keys
    /\ secretOK \in BOOLEAN
    /\ hhqToken = None
    /\ call = [c \in Calls |-> Idle]
    /\ newest = None
    /\ excused = [c \in Calls |-> FALSE]
    /\ redeploys = 0

Answer(c) == RequireBearerToken(c) \/ ReadFails(c) \/ Register(c) \/ RegisterFails(c)
Step(c)   == Send(c) \/ Receive(c) \/ Lost(c) \/ Done(c) \/ Answer(c)
Next      == Redeploy \/ \E c \in Calls : Step(c)

Spec == Init /\ [][Next]_vars

-----------------------------------------------------------------------------
(* Properties *)

\* A call that registered again and is retried with the token it got is served,
\* unless another registration overtook it, the plugin was deployed again or the
\* stored token could not be read: what is issued is what is stored
\* (register.go Register, auth_middleware.go RequireBearerToken).
RetryServed ==
    [][\A c \in Calls : call[c].pc = "sent" /\ call[c].retry /\ call'[c].pc = "failed"
                        /\ call'[c].retry => excused'[c]]_vars

\* A registration takes effect at once and for good: from the moment the plugin
\* answers it, while the new token is still on its way to hhq and ever after, no
\* call is served with a token issued before, be it a retry or a call sent with
\* the token hhq had; and after the table was lost none is, until hhq registers
\* again (auth_middleware.go: "looked up fresh on every request rather than
\* cached").
OvertakenNotServed ==
    [][\A c \in Calls : call'[c].pc = "served" /\ call[c].pc # "served"
         => call[c].token = newest]_vars

\* The goroutines of a call run on, messages are not lost for ever, statements
\* do not fail for ever; hhq need not call.
Fairness ==
    \A c \in Calls :
        /\ WF_vars(Receive(c) \/ Lost(c) \/ Done(c) \/ Answer(c))
        /\ SF_vars(Receive(c)) /\ SF_vars(Register(c)) /\ SF_vars(RequireBearerToken(c))
        /\ SF_vars(call[c].retry /\ RequireBearerToken(c))

FairSpec == Spec /\ Fairness

\* Once the secrets agree for good and one call is left that hhq makes again and
\* again, it is served again and again, whatever lost answers, other calls, a
\* lost database or a new key did to the tokens: no manual repair is needed
\* (README "Authenticating hhq", register.go Register).  Without the condition
\* on the other calls it does not hold: two calls that both meet a 403 can
\* overtake each other's registration for ever.
Recovers ==
    \A c \in Calls :
        /\ <>[](secretOK /\ \A d \in Calls \ {c} : call[d].pc = "idle")
        /\ []<>(call[c].pc # "idle")
        => []<>(call[c].pc = "served")

=============================================================================
