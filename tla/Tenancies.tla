------------------------------ MODULE Tenancies ------------------------------
(***************************************************************************)
(* What the contracts of RentFlowAPI promise about their properties, with  *)
(* no tables, handlers or dates: at any time a property is let under at    *)
(* most one contract, and a contract lets its property once, from the      *)
(* moment it is signed.                                                    *)
(***************************************************************************)
CONSTANTS
    Properties,
    Contracts,
    Vacant      \* no contract

VARIABLES
    holder, \* holder[p]: the contract property p is let under, or Vacant
    signed  \* the contracts that exist

vars == <<holder, signed>>

Init ==
    /\ holder = [p \in Properties |-> Vacant]
    /\ signed = {}

\* A contract is signed and starts at once, on a vacant property.
Let(p, c) ==
    /\ c \notin signed
    /\ holder[p] = Vacant
    /\ holder' = [holder EXCEPT ![p] = c]
    /\ signed' = signed \cup {c}

\* A contract is recorded that is already over: it lets nothing.
Record(c) ==
    /\ c \notin signed
    /\ signed' = signed \cup {c}
    /\ UNCHANGED holder

\* The contract of p expires, is renewed by another or is cancelled.
End(p) ==
    /\ holder[p] # Vacant
    /\ holder' = [holder EXCEPT ![p] = Vacant]
    /\ UNCHANGED signed

Next ==
    \/ \E p \in Properties, c \in Contracts : Let(p, c)
    \/ \E c \in Contracts : Record(c)
    \/ \E p \in Properties : End(p)

Spec == Init /\ [][Next]_vars

-----------------------------------------------------------------------------
Over(c) == c \in signed /\ \A p \in Properties : holder[p] # c

\* What is over stays over: no property is ever let again under a contract
\* that has ended or was recorded as ended.
OverIsOver == [][\A c \in Contracts : Over(c) => Over(c)']_vars
=============================================================================
