----------------------------- MODULE AttBearer -----------------------------
(***************************************************************************)
(* What an ATT bearer promises its user.  One request is out at a time;    *)
(* what comes back is the answer to that request and not to an earlier     *)
(* one; and since a PDU names no transaction, a request that was abandoned *)
(* leaves nothing the bearer could still be used for.  Requests are        *)
(* numbered modulo 2: at most one is out, so two numbers tell it from the  *)
(* one before.                                                             *)
(***************************************************************************)
EXTENDS Integers

VARIABLES bearer,       \* "free", "busy" or "dead"
          asked,        \* the number of the last request
          answered      \* the request the last accepted answer belongs to

bearerVars == <<bearer, asked, answered>>

BearerInit == bearer = "free" /\ asked = 0 /\ answered = 0

Ask ==
    /\ bearer = "free"
    /\ bearer' = "busy"
    /\ asked' = 1 - asked
    /\ UNCHANGED answered

Answer ==
    /\ bearer = "busy"
    /\ bearer' = "free"
    /\ answered' = asked
    /\ UNCHANGED asked

Abandon ==
    /\ bearer = "busy"
    /\ bearer' = "dead"
    /\ UNCHANGED <<asked, answered>>

\* A long operation puts its next request as soon as it has the answer.
AnswerAndAsk ==
    /\ bearer = "busy"
    /\ answered' = asked
    /\ asked' = 1 - asked
    /\ UNCHANGED bearer

\* The request may not have gone out whole.
AskInVain ==
    /\ bearer = "free"
    /\ bearer' = "dead"
    /\ asked' = 1 - asked
    /\ UNCHANGED answered

\* A new connection is a new bearer.
Replace ==
    /\ bearer # "busy"
    /\ bearer' = "free"
    /\ UNCHANGED <<asked, answered>>

BearerNext == Ask \/ AskInVain \/ Answer \/ AnswerAndAsk \/ Abandon \/ Replace

BearerSpec == BearerInit /\ [][BearerNext]_bearerVars
=============================================================================
