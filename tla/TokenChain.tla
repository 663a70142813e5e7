----------------------------- MODULE TokenChain -----------------------------
(***************************************************************************)
(* What the sessions table promises about refresh tokens: a token is opened*)
(* once and closed once.  Whoever presents it while it is open has a claim;*)
(* a claim is worth at most one successor, and only once the token is      *)
(* closed, when no further claim can be made.                              *)
(***************************************************************************)
EXTENDS Integers

CONSTANTS Tokens, Claimants

VARIABLES
    state,        \* of each token
    claims        \* who may still exchange it

vars == <<state, claims>>

States == {"unused", "open", "revoked"}

Init ==
    /\ state = [t \in Tokens |-> "unused"]
    /\ claims = [t \in Tokens |-> {}]

Open(t) ==
    /\ state[t] = "unused"
    /\ state' = [state EXCEPT ![t] = "open"]
    /\ UNCHANGED claims

Claim(t, c) ==
    /\ state[t] = "open"
    /\ claims' = [claims EXCEPT ![t] = @ \cup {c}]
    /\ UNCHANGED state

\* The claimant may give up its claim with it (a logout).
Revoke(t, c) ==
    /\ state[t] # "unused"
    /\ c \in claims[t]
    /\ state' = [state EXCEPT ![t] = "revoked"]
    /\ claims' \in {claims, [claims EXCEPT ![t] = @ \ {c}]}

Exchange(t, c, successor) ==
    /\ state[t] = "revoked"
    /\ c \in claims[t]
    /\ state[successor] = "unused"
    /\ state' = [state EXCEPT ![successor] = "open"]
    /\ claims' = [claims EXCEPT ![t] = @ \ {c}]

Forfeit(t, c) ==
    /\ claims' = [claims EXCEPT ![t] = @ \ {c}]
    /\ UNCHANGED state

Next ==
    \E t \in Tokens :
        \/ Open(t)
        \/ \E c \in Claimants :
              \/ Claim(t, c) \/ Revoke(t, c) \/ Forfeit(t, c)
              \/ \E successor \in Tokens : Exchange(t, c, successor)

Spec == Init /\ [][Next]_vars
=============================================================================
