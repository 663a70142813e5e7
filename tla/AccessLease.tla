----------------------------- MODULE AccessLease ----------------------------
(***************************************************************************)
(* What internal/auth promises about access.  An account is created, lives *)
(* and is deleted once.  Requests that looked it up before its deletion may*)
(* still sign tokens of a full life; when the last of them is done, the    *)
(* account is closed, and from then on access is granted for no longer     *)
(* than what is left of AccessTTL.  No time is promised for the closing.   *)
(***************************************************************************)
EXTENDS Integers

CONSTANTS Users, Admins, AccessTTL

VARIABLES
    account,      \* "none", "live", "deleted" or "closed"
    access,       \* remaining life of the access token a user holds
    since         \* history: time since the account was closed, to AccessTTL

vars == <<account, access, since>>

TypeOK ==
    /\ account \in [Users -> {"none", "live", "deleted", "closed"}]
    /\ access \in [Users -> 0 .. AccessTTL]
    /\ since \in [Users -> 0 .. AccessTTL]

\* The seed migration creates the admin.
Init ==
    /\ account = [u \in Users |-> IF u \in Admins THEN "live" ELSE "none"]
    /\ access = [u \in Users |-> 0]
    /\ since = [u \in Users |-> 0]

Longer(a, b) == IF a < b THEN b ELSE a
Less(n) == IF n = 0 THEN 0 ELSE n - 1

Register(u) ==
    /\ account[u] = "none"
    /\ account' = [account EXCEPT ![u] = "live"]
    /\ UNCHANGED <<access, since>>

DeleteUser(u) ==
    /\ account[u] = "live"
    /\ \E after \in {"deleted", "closed"} : account' = [account EXCEPT ![u] = after]
    /\ UNCHANGED <<access, since>>

Close(u) ==
    /\ account[u] = "deleted"
    /\ account' = [account EXCEPT ![u] = "closed"]
    /\ UNCHANGED <<access, since>>

Grant(u) ==
    /\ account[u] # "none"
    /\ \E life \in 1 .. (AccessTTL - since[u]) :
          access' = [access EXCEPT ![u] = Longer(@, life)]
    /\ UNCHANGED <<account, since>>

Tick ==
    /\ access' = [u \in Users |-> Less(access[u])]
    /\ since' = [u \in Users |->
          IF account[u] = "closed" /\ since[u] < AccessTTL
          THEN since[u] + 1 ELSE since[u]]
    /\ UNCHANGED account

Next ==
    \/ Tick
    \/ \E u \in Users : Register(u) \/ DeleteUser(u) \/ Close(u) \/ Grant(u)

Spec == Init /\ [][Next]_vars
=============================================================================
