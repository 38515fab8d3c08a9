------------------------------ MODULE Identity ------------------------------
(***************************************************************************)
(* The row of one user (models/user.py) and the endpoints that write it:   *)
(* api/v1/auth.py, api/v1/mfa.py, api/v1/user.py, and the job that removes *)
(* accounts closed long ago.                                               *)
(*                                                                         *)
(* A request reads the row into its session, decides on that copy, and its *)
(* commit writes only the columns the handler assigned: no endpoint takes  *)
(* a row lock, so the row may have moved on between the two steps.         *)
(* Cryptography is abstract: a password, a link or a code is the right one *)
(* or it is not.                                                           *)
(***************************************************************************)
EXTENDS Naturals, Sequences, FiniteSets

CONSTANTS
  Clients,        \* requests that may be under way at once
  Passwords,      \* passwords a user may choose, all of them strong enough
  Emails,         \* addresses
  Groups,         \* which endpoints the clients of one behaviour call
  Threshold,      \* _FAILED_LOGIN_THRESHOLD
  LockTime,       \* _LOCK_DURATION, in ticks
  LinkTime,       \* life of a mailed link, in ticks
  Retention,      \* _HARD_DELETE_RETENTION_DAYS, in ticks
  CodesPerSet,    \* recovery codes handed out by one enable
  MaxTime,        \* bound: ticks of the clock
  MaxLinks,       \* bound: links mailed
  MaxSets         \* bound: sets of recovery codes handed out

VARIABLES
  now,       \* the clock
  alive,     \* the row exists
  user,      \* its columns
  others,    \* addresses of other accounts
  ledger,    \* the user has rows in credit_transactions
  mailed,    \* links sent, in order: what each is for
  sets,      \* sets of recovery codes handed out
  req,       \* the request of each client
  group,     \* the endpoints the clients call, never changes
  wrong,     \* history: wrong passwords since the counter was last cleared or a lock set
  honoured,  \* history: links that did what they were mailed for
  spent      \* history: recovery codes that let somebody in

vars == <<now, alive, user, others, ledger, mailed, sets, req, group, wrong, honoured, spent>>

Never == 0                      \* NULL, for a time or a link
NoOne == "no address"
Times == 0 .. MaxTime + LockTime + LinkTime + 1
Links == 0 .. MaxLinks
Kinds == {"verify", "reset", "change"}
CodesOf(n) == {n} \X (1 .. CodesPerSet)
AllCodes == UNION {CodesOf(n) : n \in 1 .. MaxSets}
Totp == <<0, 1>>                \* the authenticator's code of the moment
WrongFactor == <<0, 0>>

Row == [verified : BOOLEAN, verify : Links, verifyEnd : Times,
        failed : Nat, locked : Times, password : Passwords,
        reset : Links, resetEnd : Times,
        email : Emails, newEmail : Emails \cup {NoOne}, change : Links, changeEnd : Times,
        totp : BOOLEAN, secret : BOOLEAN, codes : SUBSET AllCodes,
        consent : BOOLEAN, deleted : Times]

Ops == {"login", "verify", "resend", "forgot", "reset", "change_password",
        "request_email", "confirm_email", "consent", "delete",
        "mfa_setup", "mfa_enable", "mfa_disable", "mfa_verify"}
Idle == [op |-> "idle"]

Fresh(email, p, link) ==
  [verified |-> FALSE, verify |-> link, verifyEnd |-> now + LinkTime,
   failed |-> 0, locked |-> Never, password |-> p, reset |-> Never, resetEnd |-> Never,
   email |-> email, newEmail |-> NoOne, change |-> Never, changeEnd |-> Never,
   totp |-> FALSE, secret |-> FALSE, codes |-> {}, consent |-> FALSE, deleted |-> Never]

Init ==
  /\ now = 1 /\ alive = FALSE
  /\ user = Fresh(CHOOSE e \in Emails : TRUE, CHOOSE p \in Passwords : TRUE, Never)
  /\ others = {} /\ ledger = FALSE /\ mailed = <<>> /\ sets = 0
  /\ req = [c \in Clients |-> Idle]
  /\ group \in Groups
  /\ wrong = 0 /\ honoured = {} /\ spent = {}

-----------------------------------------------------------------------------
(* How a request runs *)

Offered(op) == op \in group.ops
NextLink == Len(mailed) + 1
Mail(kind, to) == /\ NextLink <= MaxLinks
                  /\ mailed' = Append(mailed, [kind |-> kind, to |-> to])

\* The endpoints that go through get_current_user.
Authed == {"change_password", "request_email", "consent", "delete",
           "mfa_setup", "mfa_enable", "mfa_disable"}

\* A request reads the row. `began' remembers what had been honoured by then. A behaviour's group says how many requests may overlap.
Begin(c, op, arg) ==
  /\ alive /\ req[c] = Idle /\ Offered(op)
  /\ Cardinality({d \in Clients : req[d] # Idle}) < group.overlap
  /\ op \in Authed => user.deleted = Never
  /\ req' = [req EXCEPT ![c] = [op |-> op, arg |-> arg, seen |-> user, at |-> now,
                                began |-> honoured]]
  /\ UNCHANGED <<now, alive, user, others, ledger, mailed, sets, group, wrong, honoured, spent>>

Doing(c, op) == alive /\ req[c] # Idle /\ req[c].op = op
Seen(c) == req[c].seen
Arg(c) == req[c].arg

\* The commit: a column is written when the handler gave it another value than
\* the one it had read (a hash is always another); what the row holds by now is
\* not looked at.
Write(c, cols) ==
  [k \in DOMAIN user |-> IF k \in DOMAIN cols /\ (k = "password" \/ cols[k] # Seen(c)[k])
                         THEN cols[k] ELSE user[k]]

Reply(c, cols) ==
  /\ user' = Write(c, cols)
  /\ req' = [req EXCEPT ![c] = Idle]
  /\ UNCHANGED <<now, alive, others, ledger, group>>
NoColumns == <<>>
Refuse(c) == Reply(c, NoColumns) /\ UNCHANGED <<mailed, sets, wrong, honoured, spent>>

-----------------------------------------------------------------------------
(* api/v1/auth.py *)

\* register: a row that waits for its address to be verified. A second account
\* with the address is refused (409), by the look-up or by the unique index.
Register(p) ==
  /\ ~alive /\ user.deleted = Never
  /\ Mail("verify", user.email)
  /\ alive' = TRUE
  /\ user' = Fresh(user.email, p, NextLink)
  /\ UNCHANGED <<now, others, ledger, sets, req, group, wrong, honoured, spent>>

LoginLocked(c) ==                              \* _raise_if_locked: 423
  Doing(c, "login") /\ Seen(c).locked > req[c].at /\ Refuse(c)

\* mutant: one failure more is let through
WrongColumns_late(u, t) ==
  IF u.failed >= Threshold
  THEN [failed |-> u.failed + 1, locked |-> t + LockTime]
  ELSE [failed |-> u.failed + 1]

\* _handle_failed_login: the counter of the copy, one higher; at the threshold a lock.
WrongColumns(u, t) ==
  IF u.failed + 1 >= Threshold
  THEN [failed |-> u.failed + 1, locked |-> t + LockTime]
  ELSE [failed |-> u.failed + 1]

LoginWrong(c) ==
  /\ Doing(c, "login") /\ Seen(c).locked <= req[c].at /\ Arg(c) # Seen(c).password
  /\ LET cols == WrongColumns(Seen(c), req[c].at)
     IN  /\ Reply(c, cols)
         /\ wrong' = IF "locked" \in DOMAIN cols THEN 0 ELSE wrong + 1
  /\ UNCHANGED <<mailed, sets, honoured, spent>>

RightPassword(c) == /\ Doing(c, "login")
                    /\ Seen(c).locked <= req[c].at /\ Arg(c) = Seen(c).password

LoginUnverified(c) == RightPassword(c) /\ ~Seen(c).verified /\ Refuse(c)   \* 403

\* The right password: the counter is cleared, and the answer is a pair of tokens
\* or, with MFA on, the pre_mfa token for mfa_verify.
Login(c) ==
  /\ RightPassword(c) /\ Seen(c).verified
  /\ Reply(c, [failed |-> 0, locked |-> Never])
  /\ wrong' = 0
  /\ UNCHANGED <<mailed, sets, honoured, spent>>

\* verify_email finds the row by its link; the request of a link that is not in
\* the row, or ran out, is refused (400).
LinkIs(c, column, end) == Arg(c) = Seen(c)[column] /\ Seen(c)[end] >= req[c].at

VerifyEmail(c) ==
  /\ Doing(c, "verify") /\ LinkIs(c, "verify", "verifyEnd") /\ ~Seen(c).verified
  /\ Reply(c, [verified |-> TRUE, verify |-> Never, verifyEnd |-> Never])
  /\ honoured' = honoured \cup {Arg(c)}
  /\ UNCHANGED <<mailed, sets, wrong, spent>>

VerifyRefused(c) ==
  /\ Doing(c, "verify") /\ (~LinkIs(c, "verify", "verifyEnd") \/ Seen(c).verified)
  /\ Refuse(c)

ResendVerification(c) ==
  /\ Doing(c, "resend") /\ ~Seen(c).verified
  /\ Mail("verify", Seen(c).email)
  /\ Reply(c, [verify |-> NextLink, verifyEnd |-> req[c].at + LinkTime])
  /\ UNCHANGED <<sets, wrong, honoured, spent>>

ResendIgnored(c) == Doing(c, "resend") /\ Seen(c).verified /\ Refuse(c)    \* 202 all the same

ForgotPassword(c) ==
  /\ Doing(c, "forgot") /\ Seen(c).verified /\ Seen(c).deleted = Never
  /\ Mail("reset", Seen(c).email)
  /\ Reply(c, [reset |-> NextLink, resetEnd |-> req[c].at + LinkTime])
  /\ UNCHANGED <<sets, wrong, honoured, spent>>

ForgotIgnored(c) ==
  Doing(c, "forgot") /\ (~Seen(c).verified \/ Seen(c).deleted # Never) /\ Refuse(c)

\* mutant: the link stays in the row
ResetColumns_kept(p) == [password |-> p, failed |-> 0, locked |-> Never]

\* reset_password: between the look-up of the link and the commit the handler
\* waits for the HIBP service.
ResetColumns(p) == [password |-> p, reset |-> Never, resetEnd |-> Never,
                    failed |-> 0, locked |-> Never]

ResetPassword(c) ==
  /\ Doing(c, "reset")
  /\ Arg(c)[1] = Seen(c).reset /\ Seen(c).resetEnd >= req[c].at
  /\ Reply(c, ResetColumns(Arg(c)[2]))
  /\ honoured' = honoured \cup {Arg(c)[1]} /\ wrong' = 0
  /\ UNCHANGED <<mailed, sets, spent>>

ResetRefused(c) ==
  /\ Doing(c, "reset")
  /\ (Arg(c)[1] # Seen(c).reset \/ Seen(c).resetEnd < req[c].at)
  /\ Refuse(c)

-----------------------------------------------------------------------------
(* api/v1/user.py *)

\* change_password: the current password, and then the new one.
ChangePassword(c) ==
  /\ Doing(c, "change_password") /\ Arg(c)[1] = Seen(c).password
  /\ Reply(c, [password |-> Arg(c)[2]])
  /\ UNCHANGED <<mailed, sets, wrong, honoured, spent>>

ChangeRefused(c) ==
  Doing(c, "change_password") /\ Arg(c)[1] # Seen(c).password /\ Refuse(c)

\* request_email_change: not the address the user has, nor another account's.
RequestEmailChange(c) ==
  /\ Doing(c, "request_email") /\ Arg(c) \notin others \cup {Seen(c).email}
  /\ Mail("change", Arg(c))
  /\ Reply(c, [newEmail |-> Arg(c), change |-> NextLink, changeEnd |-> req[c].at + LinkTime])
  /\ UNCHANGED <<sets, wrong, honoured, spent>>

RequestRefused(c) ==
  Doing(c, "request_email") /\ Arg(c) \in others \cup {Seen(c).email} /\ Refuse(c)

\* mutant: the new address is cleared before it is copied
ChangeColumns_order(u) == [email |-> NoOne, newEmail |-> NoOne,
                           change |-> Never, changeEnd |-> Never]

ChangeColumns(u) == [email |-> u.newEmail, newEmail |-> NoOne,
                     change |-> Never, changeEnd |-> Never]

\* mutant: any link the user was mailed will do
GoodChangeLink_any(c) == Seen(c).changeEnd >= req[c].at /\ Seen(c).newEmail # NoOne

GoodChangeLink(c) ==
  /\ LinkIs(c, "change", "changeEnd") /\ Seen(c).newEmail # NoOne

ConfirmEmailChange(c) ==
  /\ Doing(c, "confirm_email") /\ GoodChangeLink(c)
  /\ Seen(c).newEmail \notin others
  /\ Reply(c, ChangeColumns(Seen(c)))
  /\ honoured' = honoured \cup {Arg(c)}
  /\ UNCHANGED <<mailed, sets, wrong, spent>>

\* Somebody registered the address meanwhile. The unique index refuses the UPDATE
\* when log_audit flushes it; log_audit swallows that error, and the commit after
\* it fails on the broken transaction. Nothing is written and the link stays.
ConfirmTaken(c) ==
  /\ Doing(c, "confirm_email") /\ GoodChangeLink(c) /\ Seen(c).newEmail \in others
  /\ Refuse(c)

ConfirmRefused(c) == Doing(c, "confirm_email") /\ ~GoodChangeLink(c) /\ Refuse(c)

\* grant_anthropic_consent and revoke_anthropic_consent.
SetConsent(c) ==
  /\ Doing(c, "consent") /\ Reply(c, [consent |-> Arg(c)])
  /\ UNCHANGED <<mailed, sets, wrong, honoured, spent>>

\* delete_me: the account is closed, its row stays.
DeleteMe(c) ==
  /\ Doing(c, "delete") /\ Reply(c, [deleted |-> req[c].at])
  /\ UNCHANGED <<mailed, sets, wrong, honoured, spent>>

-----------------------------------------------------------------------------
(* api/v1/mfa.py *)

\* mfa_setup: a new secret, and no recovery codes, for a user without MFA.
MfaSetup(c) ==
  /\ Doing(c, "mfa_setup") /\ ~Seen(c).totp
  /\ Reply(c, [secret |-> TRUE, codes |-> {}])
  /\ UNCHANGED <<mailed, sets, wrong, honoured, spent>>

\* mutant: codes left from an earlier set stay valid
EnableColumns_added(n) == [totp |-> TRUE, codes |-> CodesOf(n) \cup AllCodes]

\* mfa_enable: the code of the authenticator proves the secret arrived; a set of
\* recovery codes is shown once.
EnableColumns(n) == [totp |-> TRUE, codes |-> CodesOf(n)]

MfaEnable(c) ==
  /\ Doing(c, "mfa_enable") /\ ~Seen(c).totp /\ Seen(c).secret /\ Arg(c) = Totp
  /\ sets < MaxSets /\ sets' = sets + 1
  /\ Reply(c, EnableColumns(sets'))
  /\ UNCHANGED <<mailed, wrong, honoured, spent>>

\* The second factor is the authenticator's code or one of the recovery codes.
FactorOk(c) == Arg(c) = Totp \/ Arg(c) \in Seen(c).codes

\* _consume_recovery_code takes the code out of the list the session has read.
CodesLeft(u, factor) == u.codes \ {factor}

Spend(c) == spent' = spent \cup ({Arg(c)} \cap AllCodes)

\* mfa_disable: every column of MFA is emptied.
MfaDisable(c) ==
  /\ Doing(c, "mfa_disable") /\ Seen(c).totp /\ FactorOk(c)
  /\ Reply(c, [totp |-> FALSE, secret |-> FALSE, codes |-> {}])
  /\ Spend(c)
  /\ UNCHANGED <<mailed, sets, wrong, honoured>>

\* mfa_verify: the second step of a login, by a user who is still there.
MfaVerify(c) ==
  /\ Doing(c, "mfa_verify")
  /\ Seen(c).deleted = Never /\ Seen(c).totp /\ Seen(c).secret /\ FactorOk(c)
  /\ Reply(c, [codes |-> CodesLeft(Seen(c), Arg(c))])
  /\ Spend(c)
  /\ UNCHANGED <<mailed, sets, wrong, honoured>>

MfaRefused(c) ==
  /\ \/ Doing(c, "mfa_setup") /\ Seen(c).totp
     \/ Doing(c, "mfa_enable") /\ (Seen(c).totp \/ ~Seen(c).secret \/ Arg(c) # Totp)
     \/ Doing(c, "mfa_disable") /\ (~Seen(c).totp \/ ~FactorOk(c))
     \/ Doing(c, "mfa_verify") /\ ( \/ Seen(c).deleted # Never \/ ~Seen(c).totp
                                   \/ ~Seen(c).secret \/ ~FactorOk(c) )
  /\ Refuse(c)

-----------------------------------------------------------------------------
(* The clock, other people, and the clean-up of scheduler.py *)

Tick == /\ now < MaxTime /\ now' = now + 1
        /\ UNCHANGED <<alive, user, others, ledger, mailed, sets, req, group, wrong, honoured, spent>>

\* Somebody else registers, or moves to, an address nobody has.
OtherTakes(e) ==
  /\ Offered("request_email") /\ e \notin others \cup {user.email} /\ others' = others \cup {e}
  /\ UNCHANGED <<now, alive, user, ledger, mailed, sets, req, group, wrong, honoured, spent>>

\* A credit transaction is written for the user (CreditLedger).
LedgerGrows ==
  /\ Offered("delete") /\ alive /\ user.deleted = Never /\ ~ledger /\ ledger' = TRUE
  /\ UNCHANGED <<now, alive, user, others, mailed, sets, req, group, wrong, honoured, spent>>

\* _hard_delete_expired_users_job: the row goes, unless the ledger's RESTRICT holds
\* it. A request that read the row finds nothing to update and fails.
HardDelete ==
  /\ alive /\ user.deleted # Never /\ user.deleted + Retention < now /\ ~ledger
  /\ alive' = FALSE
  /\ req' = [c \in Clients |-> Idle]
  /\ UNCHANGED <<now, user, others, ledger, mailed, sets, group, wrong, honoured, spent>>

Factors == {Totp, WrongFactor} \cup AllCodes
ArgsOf(op) ==
  CASE op = "login"           -> Passwords
    [] op \in {"verify", "confirm_email"} -> 1 .. Len(mailed)
    [] op = "reset"           -> (1 .. Len(mailed)) \X Passwords
    [] op = "change_password" -> Passwords \X Passwords
    [] op = "request_email"   -> Emails
    [] op = "consent"         -> BOOLEAN
    [] op \in {"mfa_enable", "mfa_disable", "mfa_verify"} -> Factors
    [] OTHER                  -> {"nothing"}

Handle(c) ==
  \/ LoginLocked(c) \/ LoginWrong(c) \/ LoginUnverified(c) \/ Login(c)
  \/ VerifyEmail(c) \/ VerifyRefused(c) \/ ResendVerification(c) \/ ResendIgnored(c)
  \/ ForgotPassword(c) \/ ForgotIgnored(c) \/ ResetPassword(c) \/ ResetRefused(c)
  \/ ChangePassword(c) \/ ChangeRefused(c)
  \/ RequestEmailChange(c) \/ RequestRefused(c)
  \/ ConfirmEmailChange(c) \/ ConfirmTaken(c) \/ ConfirmRefused(c)
  \/ SetConsent(c) \/ DeleteMe(c)
  \/ MfaSetup(c) \/ MfaEnable(c) \/ MfaDisable(c) \/ MfaVerify(c) \/ MfaRefused(c)

Next ==
  \/ \E p \in Passwords : Register(p)
  \/ \E c \in Clients, op \in Ops : \E arg \in ArgsOf(op) : Begin(c, op, arg)
  \/ \E c \in Clients : Handle(c)
  \/ \E e \in Emails : OtherTakes(e)
  \/ Tick \/ LedgerGrows \/ HardDelete

Spec == Init /\ [][Next]_vars

-----------------------------------------------------------------------------
(* Properties *)

\* Type invariant (the requests under way are left to Begin, their arguments differ in type).
TypeOK ==
  /\ now \in 1 .. MaxTime /\ alive \in BOOLEAN /\ user \in Row
  /\ others \subseteq Emails /\ ledger \in BOOLEAN
  /\ mailed \in Seq([kind : Kinds, to : Emails]) /\ Len(mailed) <= MaxLinks
  /\ sets \in 0 .. MaxSets /\ wrong \in Nat
  /\ honoured \subseteq Links /\ spent \subseteq AllCodes
  /\ \A c \in Clients : req[c] # Idle => req[c].op \in Ops /\ req[c].seen \in Row

\* The lock-out of auth.py:49 holds although the counter is read, raised and
\* written without a lock: failures that overlap may count once, but a stale count
\* cannot go on for ever, and some failure sets the lock.
LockoutHolds == wrong < (Threshold * (Threshold + 1)) \div 2

\* A link that did its work is refused by every request that starts afterwards ("Tek
\* kullanimlik": reset_password, confirm_email_change; verify_email), and the address
\* changes only to the one that the link in the request was mailed to
\* (request_email_change: "Yeni email hedefine verification token olusturur").
LinkOf(c) == IF req[c].op = "reset" THEN Arg(c)[1] ELSE Arg(c)
UsesLink(c) == ResetPassword(c) \/ ConfirmEmailChange(c) \/ VerifyEmail(c)
LinksKept ==
  [][\A c \in Clients :
       /\ UsesLink(c) => LinkOf(c) \notin req[c].began
       /\ ConfirmEmailChange(c) => mailed[Arg(c)] = [kind |-> "change", to |-> user'.email]]_vars

\* The codes the user was shown last, less the ones used, are the codes the row
\* accepts: no handler brings back an old set, a code that let somebody in
\* ("one-time-use enforcement"), or loses one.
ShownCodesAreStored == alive /\ user.totp => user.codes = CodesOf(sets) \ spent
=============================================================================
