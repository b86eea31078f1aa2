------------------------------ MODULE Rotation ------------------------------
(***************************************************************************)
(* What the authentication of RentFlowAPI promises about sessions, with no *)
(* table, handlers or users: a session is a line of keys, the refresh      *)
(* tokens a client has received.  A key stops working only after it was    *)
(* used or has expired, for good, and is exchanged for one other at most.  *)
(***************************************************************************)
CONSTANT Keys

VARIABLES
    session,   \* session[k]: the first key of the session of k, a received key
    usable,    \* the received keys that would be accepted
    used,      \* the keys sent to refresh or logout
    exchanged, \* the keys exchanged for another
    expired    \* the keys whose time is over

vars == <<session, usable, used, exchanged, expired>>

Received == DOMAIN session

Init ==
    /\ session = [k \in {} |-> k]
    /\ usable = {}
    /\ used = {}
    /\ exchanged = {}
    /\ expired = {}

Receive(k, first) ==
    /\ k \notin Received
    /\ session' = [x \in Received \cup {k} |-> IF x = k THEN first ELSE session[x]]
    /\ usable' = usable \cup ({k} \ expired)

\* A user registers or logs in.
Open(k) ==
    /\ Receive(k, k)
    /\ UNCHANGED <<used, exchanged, expired>>

\* A client sends a key it received, which may work no longer, to refresh or logout.
Use(k) ==
    /\ k \in Received
    /\ used' = used \cup {k}
    /\ UNCHANGED <<session, usable, exchanged, expired>>

\* A key is revoked, by an exchange or a logout.  Its client may never learn of it.
Revoke(k) ==
    /\ k \in used
    /\ usable' = usable \ {k}
    /\ UNCHANGED <<session, used, exchanged, expired>>

\* The client receives the next key of its session for k, which was revoked: by
\* the exchange itself, or by a logout meanwhile.
Exchange(k, new) ==
    /\ k \in used \ (usable \cup exchanged)
    /\ Receive(new, session[k])
    /\ exchanged' = exchanged \cup {k}
    /\ UNCHANGED <<used, expired>>

Expire(k) ==
    /\ expired' = expired \cup {k}
    /\ usable' = usable \ {k}
    /\ UNCHANGED <<session, used, exchanged>>

Next ==
    \E k \in Keys :
        \/ Open(k) \/ Use(k) \/ Revoke(k) \/ Expire(k)
        \/ \E new \in Keys : Exchange(k, new)

Spec == Init /\ [][Next]_vars

-----------------------------------------------------------------------------
\* A session has one key at a time: of all keys its client ever received, one
\* at most still works.
OneUsableKey == \A k, l \in usable : session[k] = session[l] => k = l
=============================================================================
