-------------------------------- MODULE Account --------------------------------
(***************************************************************************)
(* What the credit system promises: an account per user, on which each     *)
(* request is booked at most once, in one step that moves its owner's      *)
(* balance, and nobody else's, by exactly the request's amount, and never  *)
(* below zero.                                                             *)
(***************************************************************************)
EXTENDS Integers

CONSTANTS
    Users,
    Requests,
    Move        \* what each request moves: a price, negative, or a top-up

VARIABLES
    balance,    \* of each user
    booked,     \* the requests that have been booked
    owner       \* whose request each is

vars == <<balance, booked, owner>>

Init ==
    /\ balance = [u \in Users |-> 0]
    /\ booked = {}
    /\ owner \in [Requests -> Users]

Book(r) ==
    /\ r \notin booked
    /\ balance[owner[r]] + Move[r] >= 0
    /\ balance' = [balance EXCEPT ![owner[r]] = @ + Move[r]]
    /\ booked' = booked \union {r}
    /\ UNCHANGED owner

Next == \E r \in Requests : Book(r)

Spec == Init /\ [][Next]_vars

=============================================================================
