---------------------------- MODULE MC_Sessions -----------------------------
(* One user's row and one user's tokens. The two share no state but the    *)
(* user's being there, so a behaviour explores one or the other: the       *)
(* clients of a behaviour keep to one group of endpoints, and the group    *)
(* TokenOps is that of Tokens.                                             *)
EXTENDS Tokens, FiniteSets, TLC

CONSTANTS Passwords, Emails, Groups, Threshold, LockTime, LinkTime, Retention,
          CodesPerSet, MaxNow, MaxLinks, MaxSets
VARIABLES now, alive, user, others, ledger, mailed, sets, req, group, wrong, honoured, spent
identityVars == <<now, alive, user, others, ledger, mailed, sets, req, group, wrong, honoured, spent>>
I == INSTANCE Identity WITH MaxTime <- MaxNow

ASSUME IdentityAssumption ==
  /\ IsFiniteSet(Clients) /\ Passwords # {} /\ Emails # {}
  /\ Threshold \in Nat \ {0} /\ LockTime \in Nat /\ LinkTime \in Nat /\ Retention \in Nat
  /\ CodesPerSet \in Nat /\ MaxNow \in Nat \ {0} /\ MaxLinks \in Nat /\ MaxSets \in Nat
  /\ \A g \in Groups : g.overlap \in Nat

TokenOps == [ops |-> {"tokens"}, overlap |-> 2]
MCGroups ==
  {TokenOps,
   [ops |-> {"login", "verify"}, overlap |-> 2],
   [ops |-> {"verify", "forgot", "reset"}, overlap |-> 2],
   [ops |-> {"verify", "forgot", "reset", "login"}, overlap |-> 1],
   [ops |-> {"verify", "request_email", "confirm_email"}, overlap |-> 1],
   [ops |-> {"mfa_setup", "mfa_enable", "mfa_disable", "mfa_verify"}, overlap |-> 1],
   [ops |-> {"verify", "resend", "change_password", "consent", "delete", "login"}, overlap |-> 1]}

MCInit == Init /\ I!Init
MCNext ==
  \/ group # TokenOps /\ I!Next /\ UNCHANGED vars
  \/ group = TokenOps /\ Next /\ UNCHANGED identityVars
MCSpec == MCInit /\ [][MCNext]_<<identityVars, vars>>

ClientSymmetry == Permutations(Clients)

TypesOK == TypeOK /\ I!TypeOK
LockoutHolds == I!LockoutHolds
LinksKept == I!LinksKept
ShownCodesAreStored == I!ShownCodesAreStored
=============================================================================
