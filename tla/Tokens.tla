------------------------------- MODULE Tokens -------------------------------
(***************************************************************************)
(* The tokens of one user and the table revoked_tokens: login, mfa_verify, *)
(* refresh with its rotation, logout (api/v1/auth.py, api/v1/mfa.py),      *)
(* get_current_user (core/deps.py), and the job that empties the table     *)
(* (scheduler.py).                                                         *)
(*                                                                         *)
(* refresh and logout read the table, and insert later: the primary key    *)
(* jti is what two of them race for.  A JWT's `exp' is a whole second and  *)
(* the token is good to the end of it; the job compares it with the clock  *)
(* as it is.  A tick is half a second.                                     *)
(***************************************************************************)
EXTENDS Naturals, Sequences

CONSTANTS
  Clients,       \* requests that may be under way at once
  AccessLife,    \* access_token_expire_minutes, in seconds
  RefreshLife,   \* refresh_token_expire_days, in seconds
  PreMfaLife,    \* PRE_MFA_TOKEN_TTL_SECONDS
  MaxTokens,     \* bound: tokens issued
  MaxTime        \* bound: ticks of the clock

VARIABLES
  time,       \* the clock, in half seconds
  account,    \* "open", "closed" by delete_me, or "gone" with hard delete
  tokens,     \* tokens issued; a token's jti is its place
  rows,       \* revoked_tokens: the jtis in the table
  asked,      \* the refresh or logout of each client
  ended       \* history: jtis that a commit put in the table

vars == <<time, account, tokens, rows, asked, ended>>

Jtis == 1 .. MaxTokens
NoJti == 0
Quiet == [op |-> "quiet"]
Accounts == {"open", "closed", "gone"}

Init ==
  /\ time = 0 /\ account = "open" /\ tokens = <<>> /\ rows = {}
  /\ asked = [c \in Clients |-> Quiet]
  /\ ended = {}

Second == time \div 2
Issued == 1 .. Len(tokens)
Exp(j) == tokens[j].exp
Decodes(j) == Second <= Exp(j)        \* decode_token: JWTError once exp is in the past
Refresh(j) == tokens[j].kind = "refresh"

\* create_access_token, create_refresh_token, create_pre_mfa_token
Kinds == {"access", "refresh", "pre_mfa"}
Token(kind, life) == [kind |-> kind, exp |-> Second + life]
Pair == <<Token("access", AccessLife), Token("refresh", RefreshLife)>>
PreMfa == <<Token("pre_mfa", PreMfaLife)>>
Mint(new) == Len(tokens) + Len(new) <= MaxTokens /\ tokens' = tokens \o new

Minted(new) == Mint(new) /\ UNCHANGED <<time, account, rows, asked, ended>>

\* login does not look at deleted_at: a closed account has its tokens too.
Login == account # "gone" /\ Minted(Pair)
LoginWithMfa == account # "gone" /\ Minted(PreMfa)

\* mfa_verify, the code being right: the token of the first step is not looked up in
\* the table, nor put there, so it is good again for as long as it decodes.
MfaVerify(j) ==
  /\ Decodes(j) /\ tokens[j].kind = "pre_mfa" /\ account = "open"
  /\ Minted(Pair)

-----------------------------------------------------------------------------
(* refresh: the look-up in the table, then the rotation *)

Ask(c, r) == /\ asked[c] = Quiet /\ asked' = [asked EXCEPT ![c] = r]
             /\ UNCHANGED <<time, account, tokens, rows, ended>>

\* The user has only to exist: refresh does not look at deleted_at.
RefreshReads(c, j) ==
  /\ Decodes(j) /\ Refresh(j) /\ j \notin rows /\ account # "gone"
  /\ Ask(c, [op |-> "refresh", jti |-> j])

Rotating(c) == asked[c] # Quiet /\ asked[c].op = "refresh"
Done(c) == asked' = [asked EXCEPT ![c] = Quiet]

\* mutant: the table takes a jti again, without an error
Free_always(js) == TRUE

\* The primary key takes each jti once.
Free(js) == js \cap rows = {}

\* The commit inserts the old jti; a new pair goes out.
RefreshRotates(c) ==
  /\ Rotating(c) /\ account # "gone" /\ Free({asked[c].jti})
  /\ rows' = rows \cup {asked[c].jti} /\ ended' = ended \cup {asked[c].jti}
  /\ Mint(Pair) /\ Done(c)
  /\ UNCHANGED <<time, account>>

\* The primary key is taken, or the user is gone: the handler rolls back and goes
\* on to user.id, which the rollback has expired; reading it raises.
RefreshCollides(c) ==
  /\ Rotating(c) /\ (account = "gone" \/ ~Free({asked[c].jti}))
  /\ Done(c) /\ UNCHANGED <<time, account, tokens, rows, ended>>

-----------------------------------------------------------------------------
(* logout: get_current_user, then both jtis in one transaction *)

\* get_current_user lets a token of any kind in the header.  A token in the body
\* that is no refresh token, or no longer decodes, is passed over.
LogoutReads(c, a, j) ==
  /\ Decodes(a) /\ a \notin rows /\ account = "open"
  /\ j # NoJti => Decodes(j) /\ Refresh(j)
  /\ Ask(c, [op |-> "logout", bearer |-> a, body |-> j])

LeavesWith(c) == {asked[c].bearer, asked[c].body} \ {NoJti}
LoggingOut(c) == asked[c] # Quiet /\ asked[c].op = "logout"

\* Both jtis are inserted: with one token in header and body, one of them twice.
Revocable(c) == Free(LeavesWith(c)) /\ asked[c].bearer # asked[c].body

LogoutRevokes(c) ==
  /\ LoggingOut(c) /\ account # "gone" /\ Revocable(c)
  /\ rows' = rows \cup LeavesWith(c) /\ ended' = ended \cup LeavesWith(c)
  /\ Done(c)
  /\ UNCHANGED <<time, account, tokens>>

\* One of the jtis is taken: log_audit's flush fails, the commit fails after
\* it, the rollback loses both rows and expires current_user, whose email the
\* handler logs next; reading it raises.
LogoutCollides(c) ==
  /\ LoggingOut(c) /\ (account = "gone" \/ ~Revocable(c))
  /\ Done(c) /\ UNCHANGED <<time, account, tokens, rows, ended>>

-----------------------------------------------------------------------------
(* The account, the clock, the clean-up *)

CloseAccount == /\ account = "open" /\ account' = "closed"
                /\ UNCHANGED <<time, tokens, rows, asked, ended>>

RemoveUser ==                         \* ON DELETE CASCADE takes the user's rows
  /\ account = "closed" /\ account' = "gone"
  /\ rows' = {} /\ UNCHANGED <<time, tokens, asked, ended>>

Expired(j) == 2 * Exp(j) < time

CleanUp ==                            \* _cleanup_revoked_tokens_job
  LET old == {j \in rows : Expired(j)}
  IN  /\ old # {} /\ rows' = rows \ old
      /\ UNCHANGED <<time, account, tokens, asked, ended>>

Tick == /\ time < MaxTime /\ time' = time + 1
        /\ UNCHANGED <<account, tokens, rows, asked, ended>>

Next ==
  \/ Login \/ LoginWithMfa \/ \E j \in Issued : MfaVerify(j)
  \/ CloseAccount \/ RemoveUser \/ CleanUp \/ Tick
  \/ \E c \in Clients :
       \/ RefreshRotates(c) \/ RefreshCollides(c) \/ LogoutRevokes(c) \/ LogoutCollides(c)
       \/ \E j \in Issued : RefreshReads(c, j)
       \/ \E a \in Issued, j \in Issued \cup {NoJti} : LogoutReads(c, a, j)

Spec == Init /\ [][Next]_vars

-----------------------------------------------------------------------------
(* Properties *)

\* Type invariant.
TypeOK ==
  /\ time \in Nat /\ account \in Accounts
  /\ tokens \in Seq([kind : Kinds, exp : Nat])
  /\ rows \subseteq Nat /\ ended \subseteq Nat
  /\ asked \in [Clients -> {Quiet} \cup [op : {"refresh"}, jti : Nat]
                                  \cup [op : {"logout"}, bearer : Nat, body : Nat]]

\* The clean-up takes no row whose token still has a whole second to live: a token
\* that was ended and is not in the table any more is in its last second or past it.
RowsOutliveTokens ==
  account # "gone" => \A j \in ended \ rows : Second >= Exp(j)

\* A refresh token that was rotated or logged out buys no other pair, however many
\* requests race for it, had looked in the table before, or come after the clean-up
\* took its row away; only in the last second of its life, when the row may be gone
\* and the token still decodes.
EndedStaysEnded ==
  [][\A c \in Clients : RefreshRotates(c) /\ asked[c].jti \in ended =>
       Second >= Exp(asked[c].jti)]_vars

\* A logout or refresh that meets one already done is answered like the first: "PRIMARY
\* KEY cakismasi olursa rollback yapilip basarili sayilir" (logout), "Rollback yapip
\* yeni token uretmeye devam" (refresh).
CollisionsAnswered ==
  [][account = "open" => \A c \in Clients : ~RefreshCollides(c) /\ ~LogoutCollides(c)]_vars
=============================================================================
