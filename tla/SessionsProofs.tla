----------------------------- MODULE SessionsProofs -----------------------------
(***************************************************************************)
(* The tokens of a user, for any lives of tokens, and the user's row with  *)
(* the requests that write it, for any passwords, addresses, links, codes  *)
(* and clients: first each by itself, then together.                       *)
(***************************************************************************)
EXTENDS MC_Sessions, Integers, FiniteSetTheorems, SequenceTheorems, TLAPS

-----------------------------------------------------------------------------
(* The tokens.                                                               *)

Lives == AccessLife \in Nat /\ RefreshLife \in Nat /\ PreMfaLife \in Nat

(* What a request has asked for is a token that was issued.                *)
AskedWasIssued ==
  /\ ended \subseteq Issued
  /\ \A c \in Clients :
       /\ Rotating(c) => asked[c].jti \in Issued
       /\ LoggingOut(c) => LeavesWith(c) \subseteq Issued

TokensInv == TypeOK /\ AskedWasIssued /\ RowsOutliveTokens

(* The tokens there are keep their ends when others are added.             *)
LEMMA TokensAreAdded ==
  ASSUME Lives, TypeOK, NEW new \in {Pair, PreMfa}, Mint(new)
  PROVE  /\ tokens' \in Seq([kind : Kinds, exp : Nat])
         /\ Issued \subseteq Issued'
         /\ \A j \in Issued : tokens'[j] = tokens[j]
  <1>1. Second \in Nat BY DEF TypeOK, Second
  <1> DEFINE T == [kind : Kinds, exp : Nat]
  <1>2. new \in Seq(T)
    <2>1. Token("access", AccessLife) \in T /\ Token("refresh", RefreshLife) \in T
          /\ Token("pre_mfa", PreMfaLife) \in T
      BY <1>1 DEF Lives, Token, Kinds
    <2> HIDE DEF T
    <2>2. Pair \in Seq(T) BY <2>1 DEF Pair
    <2>3. PreMfa \in Seq(T) BY <2>1 DEF PreMfa
    <2> QED BY <2>2, <2>3
  <1>3. tokens \in Seq(T) /\ tokens' = tokens \o new
    BY <1>2 DEF TypeOK, Mint
  <1> HIDE DEF T
  <1>4. /\ tokens' \in Seq(T)
        /\ Len(tokens') = Len(tokens) + Len(new)
        /\ \A j \in 1 .. Len(tokens) : tokens'[j] = tokens[j]
    BY <1>2, <1>3, ConcatProperties
  <1>5. Len(tokens) \in Nat /\ Len(new) \in Nat BY <1>2, <1>3, LenProperties
  <1> QED BY <1>4, <1>5 DEF T, Issued

(* A client's request may change, as long as it asks for what was issued.  *)
LEMMA AskedChanges ==
  ASSUME TypeOK, AskedWasIssued, NEW c \in Clients, NEW r,
         asked' = [asked EXCEPT ![c] = r],
         r.op = "refresh" => r.jti \in Issued,
         r.op = "logout" => {r.bearer, r.body} \ {NoJti} \subseteq Issued,
         Issued \subseteq Issued', ended' \subseteq Issued'
  PROVE  AskedWasIssued'
  <1> SUFFICES ASSUME NEW d \in Clients
               PROVE  /\ Rotating(d)' => asked'[d].jti \in Issued'
                      /\ LoggingOut(d)' => LeavesWith(d)' \subseteq Issued'
    BY DEF AskedWasIssued
  <1>1. CASE d = c
    <2>1. asked'[d] = r BY <1>1 DEF TypeOK
    <2> QED BY <2>1 DEF Rotating, LoggingOut, LeavesWith
  <1>2. CASE d # c
    <2>1. asked'[d] = asked[d] BY <1>2 DEF TypeOK
    <2> QED BY <2>1 DEF Rotating, LoggingOut, LeavesWith, AskedWasIssued
  <1> QED BY <1>1, <1>2

LEMMA TokensStart == Init => TokensInv
  BY DEF Init, TokensInv, TypeOK, AskedWasIssued, RowsOutliveTokens, Accounts,
         Rotating, LoggingOut, LeavesWith, Quiet, Issued

LEMMA TokensStep == Lives /\ TokensInv /\ [Next]_vars => TokensInv'
  <1> SUFFICES ASSUME Lives, TokensInv, [Next]_vars PROVE TokensInv'
    OBVIOUS
  <1> USE DEF TokensInv, AskedWasIssued
  <1>1. ASSUME NEW new \in {Pair, PreMfa}, Minted(new) PROVE TokensInv'
    <2>1. Mint(new) /\ UNCHANGED <<time, account, rows, asked, ended>>
      BY <1>1 DEF Minted
    <2>2. /\ tokens' \in Seq([kind : Kinds, exp : Nat])
          /\ Issued \subseteq Issued'
          /\ \A j \in Issued : tokens'[j] = tokens[j]
      BY <2>1, TokensAreAdded
    <2>3. TypeOK' BY <2>1, <2>2 DEF TypeOK
    <2>4. AskedWasIssued' BY <2>1, <2>2 DEF Rotating, LoggingOut, LeavesWith
    <2>5. RowsOutliveTokens' BY <2>1, <2>2 DEF RowsOutliveTokens, Exp, Second
    <2> QED BY <2>3, <2>4, <2>5
  <1>2. ASSUME NEW c \in Clients, NEW j \in Issued, RefreshReads(c, j) PROVE TokensInv'
    <2>1. /\ asked' = [asked EXCEPT ![c] = [op |-> "refresh", jti |-> j]]
          /\ UNCHANGED <<time, account, tokens, rows, ended>>
      BY <1>2 DEF RefreshReads, Ask
    <2>2. j \in Nat BY DEF Issued
    <2>3. TypeOK' BY <2>1, <2>2 DEF TypeOK
    <2>4. AskedWasIssued' BY <2>1, AskedChanges DEF Issued
    <2>5. RowsOutliveTokens' BY <2>1 DEF RowsOutliveTokens, Exp, Second
    <2> QED BY <2>1, <2>3, <2>4, <2>5
  <1>3. ASSUME NEW c \in Clients, NEW a \in Issued, NEW j \in Issued \cup {NoJti},
               LogoutReads(c, a, j)
        PROVE  TokensInv'
    <2>1. /\ asked' = [asked EXCEPT ![c] = [op |-> "logout", bearer |-> a, body |-> j]]
          /\ UNCHANGED <<time, account, tokens, rows, ended>>
      BY <1>3 DEF LogoutReads, Ask
    <2>2. a \in Nat /\ j \in Nat /\ {a, j} \ {NoJti} \subseteq Issued BY DEF Issued, NoJti
    <2>3. TypeOK' BY <2>1, <2>2 DEF TypeOK
    <2>4. AskedWasIssued' BY <2>1, <2>2, AskedChanges DEF Issued
    <2>5. RowsOutliveTokens' BY <2>1 DEF RowsOutliveTokens, Exp, Second
    <2> QED BY <2>3, <2>4, <2>5
  <1>4. ASSUME NEW c \in Clients, RefreshRotates(c) PROVE TokensInv'
    <2> DEFINE k == asked[c].jti
    <2>1. /\ Rotating(c) /\ Mint(Pair)
          /\ rows' = rows \cup {k} /\ ended' = ended \cup {k}
          /\ asked' = [asked EXCEPT ![c] = Quiet]
          /\ UNCHANGED <<time, account>>
      BY <1>4 DEF RefreshRotates, Done
    <2>2. k \in Issued /\ k \in Nat BY <2>1 DEF Issued
    <2>3. /\ tokens' \in Seq([kind : Kinds, exp : Nat])
          /\ Issued \subseteq Issued'
          /\ \A j \in Issued : tokens'[j] = tokens[j]
      BY <2>1, TokensAreAdded
    <2> HIDE DEF k
    <2>4. TypeOK' BY <2>1, <2>2, <2>3 DEF TypeOK
    <2>5. AskedWasIssued' BY <2>1, <2>2, <2>3, AskedChanges DEF Quiet
    <2>6. RowsOutliveTokens' BY <2>1, <2>3 DEF RowsOutliveTokens, Exp, Second
    <2> QED BY <2>1, <2>4, <2>5, <2>6
  <1>5. ASSUME NEW c \in Clients, LogoutRevokes(c) PROVE TokensInv'
    <2> DEFINE js == LeavesWith(c)
    <2>1. /\ LoggingOut(c)
          /\ rows' = rows \cup js /\ ended' = ended \cup js
          /\ asked' = [asked EXCEPT ![c] = Quiet]
          /\ UNCHANGED <<time, account, tokens>>
      BY <1>5 DEF LogoutRevokes, Done
    <2>2. js \subseteq Issued /\ js \subseteq Nat BY <2>1 DEF Issued
    <2> HIDE DEF js
    <2>3. TypeOK' BY <2>1, <2>2 DEF TypeOK
    <2>4. AskedWasIssued' BY <2>1, <2>2, AskedChanges DEF Quiet, Issued
    <2>5. RowsOutliveTokens' BY <2>1 DEF RowsOutliveTokens, Exp, Second
    <2> QED BY <2>1, <2>3, <2>4, <2>5
  <1>6. ASSUME NEW c \in Clients, RefreshCollides(c) \/ LogoutCollides(c) PROVE TokensInv'
    <2>1. /\ asked' = [asked EXCEPT ![c] = Quiet]
          /\ UNCHANGED <<time, account, tokens, rows, ended>>
      BY <1>6 DEF RefreshCollides, LogoutCollides, Done
    <2>2. TypeOK' BY <2>1 DEF TypeOK
    <2>3. AskedWasIssued' BY <2>1, AskedChanges DEF Quiet, Issued
    <2>4. RowsOutliveTokens' BY <2>1 DEF RowsOutliveTokens, Exp, Second
    <2> QED BY <2>1, <2>2, <2>3, <2>4
  <1>7. CASE CloseAccount \/ RemoveUser
    <2>1. /\ account' \in {"closed", "gone"}
          /\ UNCHANGED <<time, tokens, asked, ended>>
      BY <1>7 DEF CloseAccount, RemoveUser
    <2>2. /\ rows' \subseteq rows
          /\ account' = "gone" \/ (rows' = rows /\ account # "gone")
      BY <1>7 DEF CloseAccount, RemoveUser
    <2>3. TypeOK' BY <2>1, <2>2 DEF TypeOK, Accounts
    <2>4. AskedWasIssued' BY <2>1 DEF Rotating, LoggingOut, LeavesWith, Issued
    <2>5. RowsOutliveTokens' BY <2>1, <2>2 DEF RowsOutliveTokens, Exp, Second
    <2> QED BY <2>1, <2>2, <2>3, <2>4, <2>5
  <1>8. CASE CleanUp
    <2> DEFINE old == {j \in rows : Expired(j)}
    <2>1. /\ rows' = rows \ old
          /\ UNCHANGED <<time, account, tokens, asked, ended>>
      BY <1>8 DEF CleanUp
    <2>2. \A j \in ended \cap old : Second >= Exp(j)
      <3> SUFFICES ASSUME NEW j \in ended, Expired(j) PROVE Second >= Exp(j)
        OBVIOUS
      <3>1. j \in 1 .. Len(tokens) /\ time \in Nat BY DEF TypeOK, Issued
      <3> DEFINE T == [kind : Kinds, exp : Nat]
      <3>2. tokens \in Seq(T) BY DEF TypeOK
      <3>3. tokens[j] \in T
        <4> HIDE DEF T
        <4> QED BY <3>1, <3>2
      <3>4. Exp(j) \in Nat BY <3>3 DEF Exp
      <3>5. 2 * Exp(j) < time BY DEF Expired
      <3> QED BY <3>1, <3>4, <3>5 DEF Second
    <2>3. old \subseteq rows OBVIOUS
    <2> HIDE DEF old
    <2>4. TypeOK' BY <2>1, <2>3 DEF TypeOK
    <2>5. AskedWasIssued' BY <2>1 DEF Rotating, LoggingOut, LeavesWith, Issued
    <2>6. RowsOutliveTokens' BY <2>1, <2>2 DEF RowsOutliveTokens, Exp, Second
    <2> QED BY <2>1, <2>3, <2>4, <2>5, <2>6
  <1>9. CASE Tick
    <2>1. /\ time' = time + 1
          /\ UNCHANGED <<account, tokens, rows, asked, ended>>
      BY <1>9 DEF Tick
    <2>2. TypeOK' BY <2>1 DEF TypeOK
    <2>3. AskedWasIssued' BY <2>1 DEF Rotating, LoggingOut, LeavesWith, Issued
    <2>4. \A j \in ended : Second >= Exp(j) => Second' >= Exp(j)'
      <3> SUFFICES ASSUME NEW j \in ended, Second >= Exp(j) PROVE Second' >= Exp(j)'
        OBVIOUS
      <3>1. j \in 1 .. Len(tokens) /\ time \in Nat BY DEF TypeOK, Issued
      <3> DEFINE T == [kind : Kinds, exp : Nat]
      <3>2. tokens \in Seq(T) BY DEF TypeOK
      <3>3. tokens[j] \in T
        <4> HIDE DEF T
        <4> QED BY <3>1, <3>2
      <3>4. Exp(j) \in Nat BY <3>3 DEF Exp
      <3>5. Exp(j)' = Exp(j) BY <2>1 DEF Exp
      <3> QED BY <2>1, <3>1, <3>4, <3>5 DEF Second
    <2>5. RowsOutliveTokens' BY <2>1, <2>4 DEF RowsOutliveTokens
    <2> QED BY <2>1, <2>2, <2>3, <2>5
  <1>10. CASE UNCHANGED vars
    <2>1. TypeOK' BY <1>10 DEF vars, TypeOK
    <2>2. AskedWasIssued' BY <1>10 DEF vars, Rotating, LoggingOut, LeavesWith, Issued
    <2>3. RowsOutliveTokens' BY <1>10 DEF vars, RowsOutliveTokens, Exp, Second
    <2> QED BY <2>1, <2>2, <2>3
  <1> QED
    BY <1>1, <1>2, <1>3, <1>4, <1>5, <1>6, <1>7, <1>8, <1>9, <1>10
    DEF Next, Login, LoginWithMfa, MfaVerify

LEMMA TokensAlways ==
  ASSUME Lives
  PROVE  Spec => []TokensInv
  <1>1. TokensInv /\ [Next]_vars => TokensInv' BY TokensStep
  <1> QED BY TokensStart, <1>1, PTL DEF Spec

(* Type correctness.                                                       *)
THEOREM TokensTyped ==
  ASSUME Lives
  PROVE  Spec => []TypeOK
  <1>2. Spec => []TokensInv BY TokensAlways
  <1>3. TokensInv => TypeOK BY DEF TokensInv
  <1> QED BY <1>2, <1>3, PTL

(* The clean-up job takes no row away whose token is still good for a whole *)
(* second: what was ended stays refused for as long as it decodes, but for  *)
(* the last second.                                                         *)
THEOREM EndedStaysRefused ==
  ASSUME Lives
  PROVE  Spec => []RowsOutliveTokens
  <1>2. Spec => []TokensInv BY TokensAlways
  <1>3. TokensInv => RowsOutliveTokens BY DEF TokensInv
  <1> QED BY <1>2, <1>3, PTL

(* Whatever kind of token a logout came with, what was ended buys a pair    *)
(* in its last second at most, whoever races for it: the row is there to   *)
(* refuse the insert, or was taken away when only that second was left.    *)
THEOREM EndedForGood ==
  ASSUME Lives
  PROVE  Spec => EndedStaysEnded
  <1>2. Spec => []TokensInv BY TokensAlways
  <1>3. TokensInv /\ [Next]_vars =>
          [\A c \in Clients : RefreshRotates(c) /\ asked[c].jti \in ended =>
             Second >= Exp(asked[c].jti)]_vars
    <2> SUFFICES ASSUME TokensInv, NEW c \in Clients, RefreshRotates(c), asked[c].jti \in ended
                 PROVE  Second >= Exp(asked[c].jti)
      OBVIOUS
    <2>1. account # "gone" /\ asked[c].jti \notin rows BY DEF RefreshRotates, Free
    <2> QED BY <2>1 DEF TokensInv, RowsOutliveTokens
  <1> QED BY <1>2, <1>3, PTL DEF Spec, EndedStaysEnded

-----------------------------------------------------------------------------
(* The requests of a user (I): what a request holds while it is under way.  *)

Busy(c) == req[c] # I!Idle
Sent == 1 .. Len(mailed)

Holds(r) ==
  /\ r.op \in I!Ops \cap group.ops /\ r.seen \in I!Row
  /\ r.at \in 1 .. MaxNow /\ r.began \subseteq I!Links
  /\ r.op = "login" => r.arg \in Passwords
  /\ r.op \in {"verify", "confirm_email"} => r.arg \in Sent
  /\ r.op = "reset" => r.arg \in Sent \X Passwords
  /\ r.op = "change_password" => r.arg \in Passwords \X Passwords
  /\ r.op = "request_email" => r.arg \in Emails
  /\ r.op = "consent" => r.arg \in BOOLEAN
  /\ r.op \in {"mfa_enable", "mfa_disable", "mfa_verify"} => r.arg \in I!Factors

(* Typed, with the requests; and nobody is under way for a row that is gone. *)
RowTyped ==
  /\ I!TypeOK /\ group \in Groups
  /\ DOMAIN req = Clients
  /\ \A c \in Clients : Busy(c) => alive /\ Holds(req[c])

(* As many requests at once as the group lets; one that is alone has read   *)
(* the row as it is.                                                        *)
Crowd ==
  /\ group.overlap <= 1 => \A c, d \in Clients : Busy(c) /\ Busy(d) => c = d
  /\ group.overlap <= 2 => \A c, d, e \in Clients :
       Busy(c) /\ Busy(d) /\ Busy(e) => c = d \/ d = e \/ c = e
  /\ group.overlap <= 1 => \A c \in Clients : Busy(c) => req[c].seen = user

(* The links a row holds were mailed for the column they are in, and did    *)
(* nothing yet.                                                             *)
LinksFresh(u, done) ==
  \A k \in I!Kinds : u[k] # I!Never =>
    u[k] \in Sent /\ mailed[u[k]].kind = k /\ u[k] \notin done
Unspent ==
  /\ honoured \subseteq Sent
  /\ LinksFresh(user, honoured)
  /\ \A c \in Clients : Busy(c) => LinksFresh(req[c].seen, req[c].began)

(* The link that changes the address was mailed to the new one.             *)
AddressOps == {"request_email", "confirm_email"}
Addressed ==
  (group.overlap <= 1 \/ group.ops \cap AddressOps = {}) =>
    (user.change # I!Never => mailed[user.change].to = user.newEmail)

(* A code that let somebody in is of a set that was handed out.             *)
Shown ==
  /\ I!ShownCodesAreStored
  /\ alive /\ user.totp => sets >= 1
  /\ \A x \in spent : x[1] <= sets

(* How many failures a counter is away from the lock.                       *)
Level(failed) == IF failed < Threshold THEN Threshold - failed ELSE 1
Upper(a, b) == IF a >= b THEN a ELSE b
Lower(a, b) == IF a >= b THEN b ELSE a

(* Two requests at these two levels: as each failure takes a level down by   *)
(* one, no more than this many can still follow without a lock.             *)
Held(w, x, y) ==
  2 * w + 2 * Lower(x, y) + Upper(x, y) * Upper(x, y) - Upper(x, y) <= Threshold * Threshold + Threshold
Room(w, a, b) == Held(w, Level(a), Level(b))

Wronging(c) ==
  /\ Busy(c) /\ req[c].op = "login" /\ req[c].seen.locked <= req[c].at
  /\ req[c].arg # req[c].seen.password

Lockout ==
  /\ 2 * wrong + 2 <= Threshold * Threshold + Threshold
  /\ "login" \notin group.ops => wrong = 0
  /\ ~alive /\ user.deleted = I!Never => wrong = 0
  /\ alive =>
       /\ \A c, d \in Clients : Wronging(c) /\ Wronging(d) /\ c # d =>
            Room(wrong, req[c].seen.failed, req[d].seen.failed)
       /\ \A c \in Clients : Wronging(c) /\ (\A d \in Clients : Wronging(d) => d = c) =>
            Room(wrong, user.failed, req[c].seen.failed)
       /\ (\A c \in Clients : ~Wronging(c)) =>
            Room(wrong, user.failed, user.failed)

-----------------------------------------------------------------------------
(* The row of a user (I). *)

Columns == {"verified", "verify", "verifyEnd", "failed", "locked", "password", "reset", "resetEnd",
            "email", "newEmail", "change", "changeEnd", "totp", "secret", "codes", "consent", "deleted"}

(* What a column may hold.                                                       *)
ColumnFits(k, x) ==
  /\ k \in {"verified", "totp", "secret", "consent"} => x \in BOOLEAN
  /\ k \in {"verify", "reset", "change"} => x \in I!Links
  /\ k \in {"verifyEnd", "resetEnd", "changeEnd", "locked", "deleted"} => x \in I!Times
  /\ k = "failed" => x \in Nat
  /\ k = "password" => x \in Passwords
  /\ k = "email" => x \in Emails
  /\ k = "newEmail" => x \in Emails \cup {I!NoOne}
  /\ k = "codes" => x \subseteq I!AllCodes

LEMMA RowFits ==
  ASSUME NEW u \in I!Row
  PROVE  DOMAIN u = Columns /\ \A k \in Columns : ColumnFits(k, u[k])
  BY DEF I!Row, Columns, ColumnFits

LEMMA Written ==
  ASSUME NEW u \in I!Row, NEW seen, NEW cols,
         \A k \in DOMAIN cols \cap Columns : ColumnFits(k, cols[k])
  PROVE  [k \in DOMAIN u |-> IF k \in DOMAIN cols /\ (k = "password" \/ cols[k] # seen[k])
                             THEN cols[k] ELSE u[k]] \in I!Row
  <1> DEFINE v == [k \in Columns |-> IF k \in DOMAIN cols /\ (k = "password" \/ cols[k] # seen[k])
                                     THEN cols[k] ELSE u[k]]
  <1>1. DOMAIN u = Columns /\ \A k \in Columns : ColumnFits(k, u[k]) BY RowFits
  <1>2. \A k \in Columns : ColumnFits(k, v[k]) BY <1>1
  <1>3. v = [k \in Columns |-> v[k]] OBVIOUS
  <1> HIDE DEF v
  <1>4. v \in I!Row BY <1>2, <1>3 DEF I!Row, Columns, ColumnFits
  <1> QED BY <1>1, <1>4 DEF v
-----------------------------------------------------------------------------
(* How a request ends.                                                       *)

(* What a commit leaves in each column.                                      *)
LEMMA Column ==
  ASSUME user \in I!Row, NEW c \in Clients, NEW cols, I!Reply(c, cols)
  PROVE  \A k \in Columns :
           user'[k] = IF k \in DOMAIN cols /\ (k = "password" \/ cols[k] # req[c].seen[k])
                      THEN cols[k] ELSE user[k]
  BY RowFits DEF I!Reply, I!Write, I!Seen, Columns

LEMMA RefusalKeepsRow ==
  ASSUME user \in I!Row, NEW c \in Clients, I!Refuse(c)
  PROVE  user' = user
  <1>1. I!Reply(c, I!NoColumns) BY DEF I!Refuse
  <1>2. DOMAIN user = Columns BY RowFits
  <1>3. \A k \in Columns : k \notin DOMAIN I!NoColumns BY DEF I!NoColumns, Columns
  <1>4. user' = [k \in DOMAIN user |-> user[k]] BY <1>1, <1>2, <1>3 DEF I!Reply, I!Write
  <1>5. user = [k \in DOMAIN user |-> user[k]] BY DEF I!Row
  <1> QED BY <1>4, <1>5

Refusing(c) ==
  \/ I!LoginLocked(c) \/ I!LoginUnverified(c) \/ I!VerifyRefused(c) \/ I!ResendIgnored(c)
  \/ I!ForgotIgnored(c) \/ I!ResetRefused(c) \/ I!ChangeRefused(c) \/ I!RequestRefused(c)
  \/ I!ConfirmTaken(c) \/ I!ConfirmRefused(c) \/ I!MfaRefused(c)

LEMMA RefusingRefuses ==
  ASSUME NEW c \in Clients, Refusing(c)
  PROVE  I!Refuse(c)
  BY DEF Refusing, I!LoginLocked, I!LoginUnverified, I!VerifyRefused, I!ResendIgnored,
         I!ForgotIgnored, I!ResetRefused, I!ChangeRefused, I!RequestRefused,
         I!ConfirmTaken, I!ConfirmRefused, I!MfaRefused

-----------------------------------------------------------------------------
(* Type correctness of the row and its requests.                             *)

Letters == [kind : I!Kinds, to : Emails]
Mailing == mailed' = mailed \/ \E m \in Letters : Len(mailed) < MaxLinks /\ mailed' = Append(mailed, m)

LEMMA MailGrows ==
  ASSUME RowTyped, Mailing
  PROVE  /\ mailed' \in Seq(Letters) /\ Len(mailed') <= MaxLinks
         /\ Len(mailed') >= Len(mailed) /\ Sent \subseteq Sent'
         /\ \A i \in Sent : mailed'[i] = mailed[i]
  <1>1. mailed \in Seq(Letters) /\ Len(mailed) <= MaxLinks BY DEF RowTyped, I!TypeOK, Letters
  <1>2. MaxLinks \in Nat BY IdentityAssumption
  <1> HIDE DEF Letters
  <1>3. CASE mailed' = mailed BY <1>1, <1>3 DEF Sent
  <1>4. ASSUME NEW m \in Letters, Len(mailed) < MaxLinks, mailed' = Append(mailed, m)
        PROVE  /\ mailed' \in Seq(Letters) /\ Len(mailed') = Len(mailed) + 1
               /\ \A i \in 1 .. Len(mailed) : mailed'[i] = mailed[i]
    BY <1>1, <1>4, AppendProperties
  <1>5. CASE ~(mailed' = mailed)
    <2>1. PICK m \in Letters : Len(mailed) < MaxLinks /\ mailed' = Append(mailed, m)
      BY <1>5 DEF Mailing
    <2>2. /\ mailed' \in Seq(Letters) /\ Len(mailed') = Len(mailed) + 1
          /\ \A i \in 1 .. Len(mailed) : mailed'[i] = mailed[i]
      BY <2>1, <1>4
    <2>3. Len(mailed) \in Nat BY <1>1
    <2> QED BY <1>2, <2>1, <2>2, <2>3 DEF Sent
  <1> QED BY <1>3, <1>5

LEMMA HoldsOn ==
  ASSUME NEW r, Holds(r), group' = group, Sent \subseteq Sent'
  PROVE  Holds(r)'
  BY DEF Holds

(* What the columns a handler assigns have to be.                            *)
LEMMA AnswerTyped ==
  ASSUME RowTyped, NEW c \in Clients, NEW cols, I!Reply(c, cols), alive,
         \A k \in DOMAIN cols \cap Columns : ColumnFits(k, cols[k]),
         Mailing, sets' \in 0 .. MaxSets, wrong' \in Nat, honoured' \subseteq I!Links,
         spent' \subseteq I!AllCodes
  PROVE  RowTyped'
  <1>1. /\ user' = I!Write(c, cols) /\ req' = [req EXCEPT ![c] = I!Idle]
        /\ UNCHANGED <<now, alive, others, ledger, group>>
    BY DEF I!Reply
  <1>2. user' \in I!Row
    <2>1. user \in I!Row BY DEF RowTyped, I!TypeOK
    <2> QED BY <1>1, <2>1, Written DEF I!Write, I!Seen
  <1>3. /\ mailed' \in Seq([kind : I!Kinds, to : Emails]) /\ Len(mailed') <= MaxLinks
        /\ Sent \subseteq Sent'
    BY MailGrows DEF Letters
  <1>4. \A d \in Clients : Busy(d)' => d # c /\ req'[d] = req[d] /\ Busy(d)
    BY <1>1 DEF Busy, RowTyped
  <1>5. \A d \in Clients : Busy(d)' => Holds(req[d])'
    BY <1>1, <1>3, <1>4, HoldsOn DEF RowTyped
  <1>6. DOMAIN req' = Clients /\ group' \in Groups BY <1>1 DEF RowTyped
  <1>7. \A d \in Clients : Busy(d)' => alive' /\ Holds(req[d])'
    BY <1>1, <1>5
  <1>8. I!TypeOK'
    <2>1. \A d \in Clients : req'[d] # I!Idle => req'[d].op \in I!Ops /\ req'[d].seen \in I!Row
      BY <1>4 DEF Busy, RowTyped, Holds
    <2> QED BY <1>1, <1>2, <1>3, <2>1 DEF RowTyped, I!TypeOK
  <1> QED BY <1>6, <1>7, <1>8, <1>4 DEF RowTyped

LEMMA IdentityTimes ==
  /\ \A t \in 1 .. MaxNow : t + LinkTime \in I!Times /\ t + LockTime \in I!Times /\ t \in I!Times
  /\ I!Never \in I!Times /\ I!Never \in I!Links
  BY IdentityAssumption DEF I!Times, I!Never, I!Links

LEMMA HandlerTyped ==
  ASSUME RowTyped, NEW c \in Clients, I!Handle(c)
  PROVE  RowTyped'
  <1>a. /\ user \in I!Row /\ sets \in 0 .. MaxSets /\ wrong \in Nat
        /\ honoured \subseteq I!Links /\ spent \subseteq I!AllCodes
    BY DEF RowTyped, I!TypeOK
  <1>b. \A op : I!Doing(c, op) =>
           Busy(c) /\ alive /\ req[c].op = op /\ Holds(req[c]) /\ req[c].seen \in I!Row
    BY DEF I!Doing, Busy, RowTyped, Holds
  <1>c. Sent \subseteq I!Links /\ Len(mailed) \in Nat
    BY IdentityAssumption DEF RowTyped, I!TypeOK, Sent, I!Links
  <1>d. \A kind \in I!Kinds, to \in Emails : I!Mail(kind, to) =>
          /\ Mailing
          /\ I!NextLink \in I!Links
    <2> SUFFICES ASSUME NEW kind \in I!Kinds, NEW to \in Emails, I!Mail(kind, to)
                 PROVE  Mailing /\ I!NextLink \in I!Links
      OBVIOUS
    <2>1. [kind |-> kind, to |-> to] \in Letters BY DEF Letters
    <2>2. Len(mailed) + 1 <= MaxLinks /\ mailed' = Append(mailed, [kind |-> kind, to |-> to])
      BY DEF I!Mail, I!NextLink
    <2>3. Len(mailed) < MaxLinks BY <2>2, <1>c, IdentityAssumption
    <2>4. Mailing BY <2>1, <2>2, <2>3 DEF Mailing
    <2>5. I!NextLink \in I!Links BY <2>2, <1>c, IdentityAssumption DEF I!NextLink, I!Links
    <2> QED BY <2>4, <2>5
  <1> USE DEF Columns, ColumnFits, I!Seen, I!Arg, I!Never
  <1>1. CASE Refusing(c)
    <2>1. I!Reply(c, I!NoColumns) /\ UNCHANGED <<mailed, sets, wrong, honoured, spent>>
      BY <1>1, RefusingRefuses DEF I!Refuse
    <2>2. alive
      BY <1>1 DEF Refusing, I!LoginLocked, I!LoginUnverified, I!RightPassword, I!VerifyRefused,
         I!ResendIgnored, I!ForgotIgnored, I!ResetRefused, I!ChangeRefused, I!RequestRefused,
         I!ConfirmTaken, I!ConfirmRefused, I!MfaRefused, I!Doing
    <2>3. DOMAIN I!NoColumns \cap Columns = {} BY DEF I!NoColumns
    <2> QED BY <2>1, <2>2, <2>3, <1>a, AnswerTyped DEF Mailing
  <1>2. CASE I!LoginWrong(c)
    <2> DEFINE cols == I!WrongColumns(I!Seen(c), req[c].at)
    <2>1. /\ I!Reply(c, cols) /\ UNCHANGED <<mailed, sets, honoured, spent>>
          /\ wrong' \in {0, wrong + 1}
      BY <1>2 DEF I!LoginWrong
    <2>2. Holds(req[c]) /\ alive BY <1>2, <1>b DEF I!LoginWrong
    <2>3. req[c].seen.failed + 1 \in Nat BY <2>2 DEF Holds, I!Row
    <2>4. req[c].at + LockTime \in I!Times BY <2>2, IdentityTimes DEF Holds
    <2>5. \A k \in DOMAIN cols \cap Columns : ColumnFits(k, cols[k])
      BY <2>3, <2>4 DEF I!WrongColumns
    <2> HIDE DEF cols
    <2> QED BY <2>1, <2>2, <2>5, <1>a, AnswerTyped DEF Mailing
  <1>3. CASE I!Login(c)
    <2> DEFINE cols == [failed |-> 0, locked |-> I!Never]
    <2>1. /\ I!Reply(c, cols) /\ UNCHANGED <<mailed, sets, honoured, spent>> /\ wrong' = 0
      BY <1>3 DEF I!Login
    <2>2. alive BY <1>3, <1>b DEF I!Login, I!RightPassword
    <2>5. \A k \in DOMAIN cols \cap Columns : ColumnFits(k, cols[k]) BY IdentityTimes
    <2> HIDE DEF cols
    <2> QED BY <2>1, <2>2, <2>5, <1>a, AnswerTyped DEF Mailing
  <1>4. CASE I!VerifyEmail(c)
    <2> DEFINE cols == [verified |-> TRUE, verify |-> I!Never, verifyEnd |-> I!Never]
    <2>1. /\ I!Reply(c, cols) /\ UNCHANGED <<mailed, sets, wrong, spent>>
          /\ honoured' = honoured \cup {req[c].arg}
      BY <1>4 DEF I!VerifyEmail
    <2>2. alive /\ req[c].arg \in I!Links BY <1>4, <1>b, <1>c DEF I!VerifyEmail, Holds
    <2>5. \A k \in DOMAIN cols \cap Columns : ColumnFits(k, cols[k])
      <3>1. DOMAIN cols = {"verified", "verify", "verifyEnd"} OBVIOUS
      <3>2. cols["verified"] \in BOOLEAN OBVIOUS
      <3>3. cols["verify"] \in I!Links BY IdentityTimes
      <3>4. cols["verifyEnd"] \in I!Times BY IdentityTimes
      <3> HIDE DEF cols
      <3> QED BY <3>1, <3>2, <3>3, <3>4
    <2>6. honoured' \subseteq I!Links BY <2>1, <2>2, <1>a
    <2> HIDE DEF cols
    <2> QED BY <2>1, <2>2, <2>5, <2>6, <1>a, AnswerTyped DEF Mailing
  <1>5. CASE I!ResendVerification(c)
    <2> DEFINE cols == [verify |-> I!NextLink, verifyEnd |-> req[c].at + LinkTime]
    <2>1. /\ I!Reply(c, cols) /\ UNCHANGED <<sets, wrong, honoured, spent>>
          /\ I!Mail("verify", req[c].seen.email)
      BY <1>5 DEF I!ResendVerification
    <2>2. alive /\ Holds(req[c]) BY <1>5, <1>b DEF I!ResendVerification
    <2>3. req[c].seen.email \in Emails BY <2>2 DEF Holds, I!Row
    <2>4. Mailing /\ I!NextLink \in I!Links BY <2>1, <2>3, <1>d DEF I!Kinds
    <2>5. req[c].at + LinkTime \in I!Times BY <2>2, IdentityTimes DEF Holds
    <2>6. \A k \in DOMAIN cols \cap Columns : ColumnFits(k, cols[k]) BY <2>4, <2>5
    <2> HIDE DEF cols
    <2> QED BY <2>1, <2>2, <2>4, <2>6, <1>a, AnswerTyped
  <1>6. CASE I!ForgotPassword(c)
    <2> DEFINE cols == [reset |-> I!NextLink, resetEnd |-> req[c].at + LinkTime]
    <2>1. /\ I!Reply(c, cols) /\ UNCHANGED <<sets, wrong, honoured, spent>>
          /\ I!Mail("reset", req[c].seen.email)
      BY <1>6 DEF I!ForgotPassword
    <2>2. alive /\ Holds(req[c]) BY <1>6, <1>b DEF I!ForgotPassword
    <2>3. req[c].seen.email \in Emails BY <2>2 DEF Holds, I!Row
    <2>4. Mailing /\ I!NextLink \in I!Links BY <2>1, <2>3, <1>d DEF I!Kinds
    <2>5. req[c].at + LinkTime \in I!Times BY <2>2, IdentityTimes DEF Holds
    <2>6. \A k \in DOMAIN cols \cap Columns : ColumnFits(k, cols[k]) BY <2>4, <2>5
    <2> HIDE DEF cols
    <2> QED BY <2>1, <2>2, <2>4, <2>6, <1>a, AnswerTyped
  <1>7. CASE I!ResetPassword(c)
    <2> DEFINE cols == I!ResetColumns(req[c].arg[2])
    <2>1. /\ I!Reply(c, cols) /\ UNCHANGED <<mailed, sets, spent>> /\ wrong' = 0
          /\ honoured' = honoured \cup {req[c].arg[1]}
      BY <1>7 DEF I!ResetPassword
    <2>2. alive /\ req[c].arg \in Sent \X Passwords BY <1>7, <1>b DEF I!ResetPassword, Holds
    <2>3. req[c].arg[1] \in Sent /\ req[c].arg[2] \in Passwords BY <2>2
    <2>5. \A k \in DOMAIN cols \cap Columns : ColumnFits(k, cols[k])
      BY <2>3, IdentityTimes DEF I!ResetColumns
    <2>6. honoured' \subseteq I!Links BY <2>1, <2>3, <1>a, <1>c
    <2> HIDE DEF cols
    <2> QED BY <2>1, <2>2, <2>5, <2>6, <1>a, AnswerTyped DEF Mailing
  <1>8. CASE I!ChangePassword(c)
    <2> DEFINE cols == [password |-> req[c].arg[2]]
    <2>1. I!Reply(c, cols) /\ UNCHANGED <<mailed, sets, wrong, honoured, spent>>
      BY <1>8 DEF I!ChangePassword
    <2>2. alive /\ req[c].arg \in Passwords \X Passwords BY <1>8, <1>b DEF I!ChangePassword, Holds
    <2>5. \A k \in DOMAIN cols \cap Columns : ColumnFits(k, cols[k]) BY <2>2
    <2> HIDE DEF cols
    <2> QED BY <2>1, <2>2, <2>5, <1>a, AnswerTyped DEF Mailing
  <1>9. CASE I!RequestEmailChange(c)
    <2> DEFINE cols == [newEmail |-> req[c].arg, change |-> I!NextLink,
                        changeEnd |-> req[c].at + LinkTime]
    <2>1. /\ I!Reply(c, cols) /\ UNCHANGED <<sets, wrong, honoured, spent>>
          /\ I!Mail("change", req[c].arg)
      BY <1>9 DEF I!RequestEmailChange
    <2>2. alive /\ Holds(req[c]) /\ req[c].arg \in Emails
      BY <1>9, <1>b DEF I!RequestEmailChange, Holds
    <2>4. Mailing /\ I!NextLink \in I!Links BY <2>1, <2>2, <1>d DEF I!Kinds
    <2>5. req[c].at + LinkTime \in I!Times BY <2>2, IdentityTimes DEF Holds
    <2>6. \A k \in DOMAIN cols \cap Columns : ColumnFits(k, cols[k]) BY <2>2, <2>4, <2>5
    <2> HIDE DEF cols
    <2> QED BY <2>1, <2>2, <2>4, <2>6, <1>a, AnswerTyped
  <1>10. CASE I!ConfirmEmailChange(c)
    <2> DEFINE cols == I!ChangeColumns(req[c].seen)
    <2>1. /\ I!Reply(c, cols) /\ UNCHANGED <<mailed, sets, wrong, spent>>
          /\ honoured' = honoured \cup {req[c].arg} /\ req[c].seen.newEmail # I!NoOne
      BY <1>10 DEF I!ConfirmEmailChange, I!GoodChangeLink
    <2>2. alive /\ Holds(req[c]) /\ req[c].arg \in Sent
      BY <1>10, <1>b DEF I!ConfirmEmailChange, Holds
    <2>3. req[c].seen.newEmail \in Emails BY <2>1, <2>2 DEF Holds, I!Row
    <2>5. \A k \in DOMAIN cols \cap Columns : ColumnFits(k, cols[k])
      BY <2>3, IdentityTimes DEF I!ChangeColumns
    <2>6. honoured' \subseteq I!Links BY <2>1, <2>2, <1>a, <1>c
    <2> HIDE DEF cols
    <2> QED BY <2>1, <2>2, <2>5, <2>6, <1>a, AnswerTyped DEF Mailing
  <1>11. CASE I!SetConsent(c)
    <2> DEFINE cols == [consent |-> req[c].arg]
    <2>1. I!Reply(c, cols) /\ UNCHANGED <<mailed, sets, wrong, honoured, spent>>
      BY <1>11 DEF I!SetConsent
    <2>2. alive /\ req[c].arg \in BOOLEAN BY <1>11, <1>b DEF I!SetConsent, Holds
    <2>5. \A k \in DOMAIN cols \cap Columns : ColumnFits(k, cols[k]) BY <2>2
    <2> HIDE DEF cols
    <2> QED BY <2>1, <2>2, <2>5, <1>a, AnswerTyped DEF Mailing
  <1>12. CASE I!DeleteMe(c)
    <2> DEFINE cols == [deleted |-> req[c].at]
    <2>1. I!Reply(c, cols) /\ UNCHANGED <<mailed, sets, wrong, honoured, spent>>
      BY <1>12 DEF I!DeleteMe
    <2>2. alive /\ req[c].at \in I!Times BY <1>12, <1>b, IdentityTimes DEF I!DeleteMe, Holds
    <2>5. \A k \in DOMAIN cols \cap Columns : ColumnFits(k, cols[k]) BY <2>2
    <2> HIDE DEF cols
    <2> QED BY <2>1, <2>2, <2>5, <1>a, AnswerTyped DEF Mailing
  <1>13. CASE I!MfaSetup(c)
    <2> DEFINE cols == [secret |-> TRUE, codes |-> {}]
    <2>1. I!Reply(c, cols) /\ UNCHANGED <<mailed, sets, wrong, honoured, spent>>
      BY <1>13 DEF I!MfaSetup
    <2>2. alive BY <1>13, <1>b DEF I!MfaSetup
    <2>5. \A k \in DOMAIN cols \cap Columns : ColumnFits(k, cols[k])
      <3>1. DOMAIN cols = {"secret", "codes"} OBVIOUS
      <3>2. cols["secret"] \in BOOLEAN OBVIOUS
      <3>3. cols["codes"] \subseteq I!AllCodes OBVIOUS
      <3> HIDE DEF cols
      <3> QED BY <3>1, <3>2, <3>3
    <2> HIDE DEF cols
    <2> QED BY <2>1, <2>2, <2>5, <1>a, AnswerTyped DEF Mailing
  <1>14. CASE I!MfaEnable(c)
    <2> DEFINE cols == I!EnableColumns(sets + 1)
    <2>1. /\ I!Reply(c, cols) /\ UNCHANGED <<mailed, wrong, honoured, spent>>
          /\ sets' = sets + 1 /\ sets < MaxSets
      BY <1>14 DEF I!MfaEnable
    <2>2. alive BY <1>14, <1>b DEF I!MfaEnable
    <2>3. sets + 1 \in 1 .. MaxSets BY <2>1, <1>a, IdentityAssumption
    <2>4. I!CodesOf(sets + 1) \subseteq I!AllCodes BY <2>3 DEF I!AllCodes
    <2>5. \A k \in DOMAIN cols \cap Columns : ColumnFits(k, cols[k])
      <3>1. DOMAIN cols = {"totp", "codes"} BY DEF I!EnableColumns
      <3>2. cols["totp"] \in BOOLEAN BY DEF I!EnableColumns
      <3>3. cols["codes"] \subseteq I!AllCodes BY <2>4 DEF I!EnableColumns
      <3> HIDE DEF cols
      <3> QED BY <3>1, <3>2, <3>3
    <2>6. sets' \in 0 .. MaxSets BY <2>1, <2>3
    <2> HIDE DEF cols
    <2> QED BY <2>1, <2>2, <2>5, <2>6, <1>a, AnswerTyped DEF Mailing
  <1>15. CASE I!MfaDisable(c)
    <2> DEFINE cols == [totp |-> FALSE, secret |-> FALSE, codes |-> {}]
    <2>1. /\ I!Reply(c, cols) /\ UNCHANGED <<mailed, sets, wrong, honoured>>
          /\ spent' = spent \cup ({req[c].arg} \cap I!AllCodes)
      BY <1>15 DEF I!MfaDisable, I!Spend
    <2>2. alive BY <1>15, <1>b DEF I!MfaDisable
    <2>5. \A k \in DOMAIN cols \cap Columns : ColumnFits(k, cols[k])
      <3>1. DOMAIN cols = {"totp", "secret", "codes"} OBVIOUS
      <3>2. cols["totp"] \in BOOLEAN OBVIOUS
      <3>3. cols["secret"] \in BOOLEAN OBVIOUS
      <3>4. cols["codes"] \subseteq I!AllCodes OBVIOUS
      <3> HIDE DEF cols
      <3> QED BY <3>1, <3>2, <3>3, <3>4
    <2>6. spent' \subseteq I!AllCodes BY <2>1, <1>a
    <2> HIDE DEF cols
    <2> QED BY <2>1, <2>2, <2>5, <2>6, <1>a, AnswerTyped DEF Mailing
  <1>16. CASE I!MfaVerify(c)
    <2> DEFINE cols == [codes |-> I!CodesLeft(req[c].seen, req[c].arg)]
    <2>1. /\ I!Reply(c, cols) /\ UNCHANGED <<mailed, sets, wrong, honoured>>
          /\ spent' = spent \cup ({req[c].arg} \cap I!AllCodes)
      BY <1>16 DEF I!MfaVerify, I!Spend
    <2>2. alive /\ Holds(req[c]) BY <1>16, <1>b DEF I!MfaVerify
    <2>3. req[c].seen.codes \subseteq I!AllCodes BY <2>2 DEF Holds, I!Row
    <2>5. \A k \in DOMAIN cols \cap Columns : ColumnFits(k, cols[k])
      BY <2>3 DEF I!CodesLeft
    <2>6. spent' \subseteq I!AllCodes BY <2>1, <1>a
    <2> HIDE DEF cols
    <2> QED BY <2>1, <2>2, <2>5, <2>6, <1>a, AnswerTyped DEF Mailing
  <1> QED
    BY <1>1, <1>2, <1>3, <1>4, <1>5, <1>6, <1>7, <1>8, <1>9, <1>10, <1>11, <1>12, <1>13,
       <1>14, <1>15, <1>16 DEF I!Handle, Refusing
-----------------------------------------------------------------------------
(* How many requests overlap.                                                *)

LEMMA FewAlike ==
  ASSUME NEW S, IsFiniteSet(S), Cardinality(S) <= 1, NEW x \in S, NEW y \in S
  PROVE  x = y
  <1> SUFFICES ASSUME x # y PROVE FALSE
    OBVIOUS
  <1>1. IsFiniteSet(S \ {x}) /\ Cardinality(S \ {x}) = Cardinality(S) - 1 BY FS_RemoveElement
  <1>2. y \in S \ {x} OBVIOUS
  <1>3. Cardinality(S \ {x}) # 0 BY <1>1, <1>2, FS_EmptySet
  <1>4. Cardinality(S \ {x}) \in Nat /\ Cardinality(S) \in Nat BY <1>1, FS_CardinalityType
  <1> QED BY <1>1, <1>3, <1>4

(* Who may begin: nobody else is under way when one at a time may be, and at *)
(* most one when two may.                                                    *)
LEMMA BeginsInTheCrowd ==
  ASSUME RowTyped, NEW c \in Clients, NEW op, NEW arg, I!Begin(c, op, arg)
  PROVE  /\ ~Busy(c)
         /\ group.overlap <= 1 => \A d \in Clients : ~Busy(d)
         /\ group.overlap <= 2 => \A d, e \in Clients : Busy(d) /\ Busy(e) => d = e
  <1> DEFINE B == {d \in Clients : req[d] # I!Idle}
  <1>1. I!Cardinality(B) = Cardinality(B) BY DEF I!Cardinality, Cardinality
  <1>2. IsFiniteSet(B)
    <2>1. IsFiniteSet(Clients) BY IdentityAssumption
    <2>2. B \subseteq Clients OBVIOUS
    <2> HIDE DEF B
    <2> QED BY <2>1, <2>2, FS_Subset
  <1>3. Cardinality(B) < group.overlap /\ ~Busy(c) BY <1>1 DEF I!Begin, Busy
  <1>4. \A d \in Clients : Busy(d) <=> d \in B BY DEF Busy
  <1>5. group.overlap \in Nat BY IdentityAssumption DEF RowTyped
  <1> HIDE DEF B
  <1>6. Cardinality(B) \in Nat BY <1>2, FS_CardinalityType
  <1>7. ASSUME group.overlap <= 1 PROVE B = {} BY <1>2, <1>3, <1>5, <1>6, <1>7, FS_EmptySet
  <1>8. ASSUME group.overlap <= 2, NEW d \in B, NEW e \in B PROVE d = e
    <2>1. Cardinality(B) <= 1 BY <1>3, <1>5, <1>6, <1>8
    <2> QED BY <1>2, <1>8, <2>1, FewAlike
  <1> QED BY <1>3, <1>4, <1>7, <1>8

LEMMA BeginTyped ==
  ASSUME RowTyped, Crowd, NEW c \in Clients, NEW op \in I!Ops, NEW arg \in I!ArgsOf(op),
         I!Begin(c, op, arg)
  PROVE  RowTyped' /\ Crowd'
  <1>0. PICK r : r = [op |-> op, arg |-> arg, seen |-> user, at |-> now, began |-> honoured]
    OBVIOUS
  <1>1. /\ req' = [req EXCEPT ![c] = r] /\ alive /\ op \in group.ops /\ req[c] = I!Idle
        /\ UNCHANGED <<now, alive, user, others, ledger, mailed, sets, group, wrong, honoured, spent>>
    BY <1>0 DEF I!Begin, I!Offered
  <1>2. /\ user \in I!Row /\ now \in 1 .. MaxNow /\ honoured \subseteq I!Links
        /\ group \in Groups /\ DOMAIN req = Clients
    BY DEF RowTyped, I!TypeOK
  <1>3. Holds(r)
    <2>1. op = "login" => arg \in Passwords BY DEF I!ArgsOf
    <2>2. op \in {"verify", "confirm_email"} => arg \in Sent BY DEF I!ArgsOf, Sent
    <2>3. op = "reset" => arg \in Sent \X Passwords BY DEF I!ArgsOf, Sent
    <2>4. op = "change_password" => arg \in Passwords \X Passwords BY DEF I!ArgsOf
    <2>5. op = "request_email" => arg \in Emails BY DEF I!ArgsOf
    <2>6. op = "consent" => arg \in BOOLEAN BY DEF I!ArgsOf
    <2>7. op \in {"mfa_enable", "mfa_disable", "mfa_verify"} => arg \in I!Factors BY DEF I!ArgsOf
    <2> QED BY <1>0, <1>1, <1>2, <2>1, <2>2, <2>3, <2>4, <2>5, <2>6, <2>7 DEF Holds
  <1>4. r # I!Idle /\ r.seen = user /\ r.op \in I!Ops BY <1>0 DEF I!Idle
  <1>5. \A d \in Clients : req'[d] = IF d = c THEN r ELSE req[d] BY <1>1, <1>2
  <1>6. DOMAIN req' = Clients BY <1>1, <1>2
  <1>7. Sent' = Sent /\ user' = user /\ group' = group BY <1>1 DEF Sent
  <1>8. \A q : Holds(q) => Holds(q)' BY <1>7, HoldsOn
  <1>9. \A d \in Clients : Busy(d)' <=> Busy(d) \/ d = c BY <1>4, <1>5 DEF Busy
  <1>10. \A d \in Clients : Busy(d)' => alive' /\ Holds(req[d])'
    <2> SUFFICES ASSUME NEW d \in Clients, Busy(d)' PROVE Holds(req[d])'
      BY <1>1
    <2>1. CASE d = c
      <3>1. req'[d] = r BY <2>1, <1>5
      <3>2. Holds(r)' BY <1>3, <1>8
      <3> QED BY <3>1, <3>2
    <2>2. CASE d # c
      <3>1. req'[d] = req[d] /\ Busy(d) BY <2>2, <1>5, <1>9
      <3>2. Holds(req[d]) BY <3>1 DEF RowTyped
      <3> QED BY <3>1, <3>2, <1>8
    <2> QED BY <2>1, <2>2
  <1>11. I!TypeOK'
    <2>1. \A d \in Clients : req'[d] # I!Idle => req'[d].op \in I!Ops /\ req'[d].seen \in I!Row
      BY <1>2, <1>4, <1>5 DEF RowTyped, I!TypeOK
    <2> QED BY <1>1, <2>1 DEF RowTyped, I!TypeOK
  <1>12. Crowd'
    <2>1. /\ group.overlap <= 1 => \A d \in Clients : ~Busy(d)
          /\ group.overlap <= 2 => \A d, e \in Clients : Busy(d) /\ Busy(e) => d = e
      BY BeginsInTheCrowd
    <2>2. group.overlap <= 1 => \A d, e \in Clients : Busy(d)' /\ Busy(e)' => d = e
      BY <2>1, <1>9
    <2>3. group.overlap <= 2 => \A d, e, f \in Clients :
            Busy(d)' /\ Busy(e)' /\ Busy(f)' => d = e \/ e = f \/ d = f
      BY <2>1, <1>9
    <2>4. group.overlap <= 1 => \A d \in Clients : Busy(d)' => req'[d].seen = user'
      BY <2>1, <1>4, <1>5, <1>7, <1>9
    <2> QED BY <1>7, <2>2, <2>3, <2>4 DEF Crowd
  <1> QED BY <1>6, <1>7, <1>2, <1>10, <1>11, <1>12 DEF RowTyped

LEMMA HandlersReply ==
  ASSUME NEW c \in Clients, I!Handle(c)
  PROVE  req' = [req EXCEPT ![c] = I!Idle] /\ group' = group
  <1>1. \E cols : I!Reply(c, cols)
    BY DEF I!Handle, I!Refuse, I!LoginLocked, I!LoginWrong, I!LoginUnverified, I!Login,
       I!VerifyEmail, I!VerifyRefused, I!ResendVerification, I!ResendIgnored,
       I!ForgotPassword, I!ForgotIgnored, I!ResetPassword, I!ResetRefused,
       I!ChangePassword, I!ChangeRefused, I!RequestEmailChange, I!RequestRefused,
       I!ConfirmEmailChange, I!ConfirmTaken, I!ConfirmRefused, I!SetConsent, I!DeleteMe,
       I!MfaSetup, I!MfaEnable, I!MfaDisable, I!MfaVerify, I!MfaRefused
  <1> QED BY <1>1 DEF I!Reply

LEMMA HandlerCrowd ==
  ASSUME RowTyped, Crowd, NEW c \in Clients, I!Handle(c)
  PROVE  Crowd'
  <1>2. req' = [req EXCEPT ![c] = I!Idle] /\ group' = group BY HandlersReply
  <1>3. \A d \in Clients : Busy(d)' => Busy(d) /\ d # c BY <1>2 DEF Busy, RowTyped
  <1>4. Busy(c)
    BY DEF I!Handle, I!LoginLocked, I!LoginWrong, I!LoginUnverified, I!Login, I!RightPassword,
       I!VerifyEmail, I!VerifyRefused, I!ResendVerification, I!ResendIgnored,
       I!ForgotPassword, I!ForgotIgnored, I!ResetPassword, I!ResetRefused,
       I!ChangePassword, I!ChangeRefused, I!RequestEmailChange, I!RequestRefused,
       I!ConfirmEmailChange, I!ConfirmTaken, I!ConfirmRefused, I!SetConsent, I!DeleteMe,
       I!MfaSetup, I!MfaEnable, I!MfaDisable, I!MfaVerify, I!MfaRefused, I!Doing, Busy
  <1>5. group.overlap <= 1 => \A d \in Clients : ~Busy(d)' BY <1>3, <1>4 DEF Crowd
  <1>6. group.overlap <= 2 => \A d, e, f \in Clients :
          Busy(d)' /\ Busy(e)' /\ Busy(f)' => d = e \/ e = f \/ d = f
    BY <1>3 DEF Crowd
  <1> QED BY <1>2, <1>5, <1>6 DEF Crowd

(* The steps nobody asks for: another account, the clock, the ledger.        *)
Elsewhere == (\E e \in Emails : I!OtherTakes(e)) \/ I!Tick \/ I!LedgerGrows

LEMMA ElsewhereKeeps ==
  ASSUME RowTyped, Elsewhere
  PROVE  /\ UNCHANGED <<alive, user, mailed, sets, req, group, wrong, honoured, spent>>
         /\ now' \in 1 .. MaxNow /\ others' \subseteq Emails /\ ledger' \in BOOLEAN
  <1>1. now \in 1 .. MaxNow /\ others \subseteq Emails /\ ledger \in BOOLEAN
    BY DEF RowTyped, I!TypeOK
  <1>2. CASE \E e \in Emails : I!OtherTakes(e) BY <1>1, <1>2 DEF I!OtherTakes
  <1>3. CASE I!Tick BY <1>1, <1>3, IdentityAssumption DEF I!Tick
  <1>4. CASE I!LedgerGrows BY <1>1, <1>4 DEF I!LedgerGrows
  <1> QED BY <1>2, <1>3, <1>4 DEF Elsewhere

LEMMA ElsewhereTyped ==
  ASSUME RowTyped, Crowd, Elsewhere
  PROVE  RowTyped' /\ Crowd'
  <1>1. /\ UNCHANGED <<alive, user, mailed, sets, req, group, wrong, honoured, spent>>
        /\ now' \in 1 .. MaxNow /\ others' \subseteq Emails /\ ledger' \in BOOLEAN
    BY ElsewhereKeeps
  <1>2. \A c \in Clients : (Busy(c)' <=> Busy(c)) /\ req'[c] = req[c] BY <1>1 DEF Busy
  <1>3. Sent' = Sent BY <1>1 DEF Sent
  <1>4. \A c \in Clients : Busy(c) => Holds(req[c])' BY <1>1, <1>3, HoldsOn DEF RowTyped
  <1>5. I!TypeOK' BY <1>1 DEF RowTyped, I!TypeOK
  <1>6. \A c \in Clients : Busy(c)' => alive' /\ Holds(req[c])' BY <1>1, <1>2, <1>4 DEF RowTyped
  <1>7. Crowd' BY <1>1, <1>2 DEF Crowd
  <1> QED BY <1>1, <1>5, <1>6, <1>7 DEF RowTyped

LEMMA GoneTyped ==
  ASSUME RowTyped, I!HardDelete
  PROVE  RowTyped' /\ Crowd'
  <1>1. /\ alive' = FALSE /\ req' = [c \in Clients |-> I!Idle]
        /\ UNCHANGED <<now, user, others, ledger, mailed, sets, group, wrong, honoured, spent>>
    BY DEF I!HardDelete
  <1>2. \A c \in Clients : ~Busy(c)' BY <1>1 DEF Busy
  <1>3. I!TypeOK' BY <1>1 DEF RowTyped, I!TypeOK
  <1>4. RowTyped' BY <1>1, <1>2, <1>3 DEF RowTyped
  <1> QED BY <1>2, <1>4 DEF Crowd

LEMMA RegisterTyped ==
  ASSUME RowTyped, NEW p \in Passwords, I!Register(p)
  PROVE  RowTyped' /\ Crowd'
  <1>1. /\ ~alive /\ alive' = TRUE /\ user' = I!Fresh(user.email, p, I!NextLink)
        /\ I!Mail("verify", user.email)
        /\ UNCHANGED <<now, others, ledger, sets, req, group, wrong, honoured, spent>>
    BY DEF I!Register
  <1>2. \A c \in Clients : ~Busy(c) BY <1>1 DEF RowTyped
  <1>3. \A c \in Clients : ~Busy(c)' BY <1>1, <1>2 DEF Busy
  <1>4. user \in I!Row /\ now \in 1 .. MaxNow /\ Len(mailed) \in Nat BY DEF RowTyped, I!TypeOK
  <1>5. user.email \in Emails BY <1>4 DEF I!Row
  <1>6. Len(mailed) + 1 <= MaxLinks /\ mailed' = Append(mailed, [kind |-> "verify", to |-> user.email])
    BY <1>1 DEF I!Mail, I!NextLink
  <1>7. Mailing
    <2>1. [kind |-> "verify", to |-> user.email] \in Letters BY <1>5 DEF Letters, I!Kinds
    <2>2. Len(mailed) < MaxLinks BY <1>4, <1>6, IdentityAssumption
    <2> QED BY <1>6, <2>1, <2>2 DEF Mailing
  <1>8. mailed' \in Seq([kind : I!Kinds, to : Emails]) /\ Len(mailed') <= MaxLinks
    BY <1>7, MailGrows DEF Letters
  <1>9. I!NextLink \in I!Links BY <1>4, <1>6, IdentityAssumption DEF I!NextLink, I!Links
  <1>10. user' \in I!Row
    <2>1. now + LinkTime \in I!Times BY <1>4, IdentityTimes
    <2>2. {} \in SUBSET I!AllCodes OBVIOUS
    <2> QED BY <1>1, <1>5, <1>9, <2>1, <2>2, IdentityTimes DEF I!Fresh, I!Row
  <1>11. I!TypeOK' BY <1>1, <1>3, <1>8, <1>10 DEF RowTyped, I!TypeOK, Busy
  <1>12. RowTyped' BY <1>1, <1>3, <1>11 DEF RowTyped
  <1> QED BY <1>3, <1>12 DEF Crowd

LEMMA RowInit == I!Init => RowTyped /\ Crowd
  <1> SUFFICES ASSUME I!Init PROVE RowTyped /\ Crowd
    OBVIOUS
  <1>1. \A c \in Clients : ~Busy(c) BY DEF I!Init, Busy
  <1>2. user \in I!Row
    <2>1. (CHOOSE e \in Emails : TRUE) \in Emails BY IdentityAssumption
    <2>2. (CHOOSE p \in Passwords : TRUE) \in Passwords BY IdentityAssumption
    <2>3. 1 + LinkTime \in I!Times BY IdentityTimes, IdentityAssumption
    <2>4. {} \in SUBSET I!AllCodes OBVIOUS
    <2>5. user = I!Fresh(CHOOSE e \in Emails : TRUE, CHOOSE p \in Passwords : TRUE, I!Never)
          /\ now = 1
      BY DEF I!Init
    <2> QED BY <2>1, <2>2, <2>3, <2>4, <2>5, IdentityTimes DEF I!Fresh, I!Row
  <1>3. mailed \in Seq([kind : I!Kinds, to : Emails]) /\ Len(mailed) <= MaxLinks
    BY IdentityAssumption DEF I!Init
  <1>4. I!TypeOK
    <2>1. now \in 1 .. MaxNow /\ sets \in 0 .. MaxSets BY IdentityAssumption DEF I!Init
    <2>2. others \subseteq Emails /\ honoured \subseteq I!Links /\ spent \subseteq I!AllCodes
      BY DEF I!Init
    <2>3. alive \in BOOLEAN /\ ledger \in BOOLEAN /\ wrong \in Nat BY DEF I!Init
    <2> QED BY <1>1, <1>2, <1>3, <2>1, <2>2, <2>3 DEF I!TypeOK, Busy
  <1>5. DOMAIN req = Clients /\ group \in Groups BY DEF I!Init
  <1> QED BY <1>1, <1>4, <1>5 DEF RowTyped, Crowd

LEMMA RowStep == RowTyped /\ Crowd /\ [I!Next]_(I!vars) => RowTyped' /\ Crowd'
  <1> SUFFICES ASSUME RowTyped, Crowd, [I!Next]_(I!vars) PROVE RowTyped' /\ Crowd'
    OBVIOUS
  <1>1. ASSUME NEW p \in Passwords, I!Register(p) PROVE RowTyped' /\ Crowd'
    BY <1>1, RegisterTyped
  <1>2. ASSUME NEW c \in Clients, NEW op \in I!Ops, NEW arg \in I!ArgsOf(op), I!Begin(c, op, arg)
        PROVE  RowTyped' /\ Crowd'
    BY <1>2, BeginTyped
  <1>3. ASSUME NEW c \in Clients, I!Handle(c) PROVE RowTyped' /\ Crowd'
    BY <1>3, HandlerTyped, HandlerCrowd
  <1>4. CASE Elsewhere BY <1>4, ElsewhereTyped
  <1>5. CASE I!HardDelete BY <1>5, GoneTyped
  <1>6. CASE UNCHANGED I!vars
    <2>1. UNCHANGED <<now, alive, user, others, ledger, mailed, sets, req, group, wrong, honoured, spent>>
      BY <1>6 DEF I!vars
    <2>2. RowTyped' BY <2>1 DEF RowTyped, I!TypeOK, Busy, Holds, Sent
    <2>3. Crowd' BY <2>1 DEF Crowd, Busy
    <2> QED BY <2>2, <2>3
  <1> QED BY <1>1, <1>2, <1>3, <1>4, <1>5, <1>6 DEF I!Next, Elsewhere
-----------------------------------------------------------------------------
(* The links.                                                                *)

Others(c) ==
  \/ Refusing(c) \/ I!LoginWrong(c) \/ I!Login(c) \/ I!ChangePassword(c) \/ I!SetConsent(c)
  \/ I!DeleteMe(c) \/ I!MfaSetup(c) \/ I!MfaEnable(c) \/ I!MfaDisable(c) \/ I!MfaVerify(c)

Linked == I!Kinds \cup {"newEmail", "email"}

(* Ten kinds of handlers neither write nor send a link.                       *)
LEMMA OthersLeaveLinks ==
  ASSUME RowTyped, NEW c \in Clients, Others(c)
  PROVE  /\ \A k \in Linked : user'[k] = user[k]
         /\ UNCHANGED <<mailed, honoured>>
         /\ req' = [req EXCEPT ![c] = I!Idle] /\ group' = group
  <1>1. user \in I!Row BY DEF RowTyped, I!TypeOK
  <1> USE DEF Linked, I!Kinds, Columns
  <1>2. ASSUME NEW cols, I!Reply(c, cols), DOMAIN cols \cap Linked = {}
        PROVE  /\ \A k \in Linked : user'[k] = user[k]
               /\ req' = [req EXCEPT ![c] = I!Idle] /\ group' = group
    <2>1. \A k \in Columns : k \notin DOMAIN cols => user'[k] = user[k] BY <1>1, <1>2, Column
    <2>2. Linked \subseteq Columns OBVIOUS
    <2>3. \A k \in Linked : user'[k] = user[k] BY <1>2, <2>1, <2>2
    <2> QED BY <1>2, <2>3 DEF I!Reply
  <1>3. CASE Refusing(c)
    <2>1. user' = user BY <1>1, <1>3, RefusingRefuses, RefusalKeepsRow
    <2> QED BY <1>3, <2>1, RefusingRefuses DEF I!Refuse, I!Reply
  <1>4. CASE I!LoginWrong(c)
    <2>1. /\ I!Reply(c, I!WrongColumns(I!Seen(c), req[c].at)) /\ UNCHANGED <<mailed, honoured>>
      BY <1>4 DEF I!LoginWrong
    <2>2. DOMAIN I!WrongColumns(I!Seen(c), req[c].at) \subseteq {"failed", "locked"}
      BY DEF I!WrongColumns
    <2> QED BY <2>1, <2>2, <1>2
  <1>5. CASE I!Login(c)
    <2>1. /\ I!Reply(c, [failed |-> 0, locked |-> I!Never]) /\ UNCHANGED <<mailed, honoured>>
      BY <1>5 DEF I!Login
    <2>2. DOMAIN [failed |-> 0, locked |-> I!Never] \subseteq {"failed", "locked"} OBVIOUS
    <2> QED BY <2>1, <2>2, <1>2
  <1>6. CASE I!ChangePassword(c)
    <2>1. /\ I!Reply(c, [password |-> I!Arg(c)[2]]) /\ UNCHANGED <<mailed, honoured>>
      BY <1>6 DEF I!ChangePassword
    <2>2. DOMAIN [password |-> I!Arg(c)[2]] = {"password"} OBVIOUS
    <2> QED BY <2>1, <2>2, <1>2
  <1>7. CASE I!SetConsent(c)
    <2>1. /\ I!Reply(c, [consent |-> I!Arg(c)]) /\ UNCHANGED <<mailed, honoured>>
      BY <1>7 DEF I!SetConsent
    <2>2. DOMAIN [consent |-> I!Arg(c)] = {"consent"} OBVIOUS
    <2> QED BY <2>1, <2>2, <1>2
  <1>8. CASE I!DeleteMe(c)
    <2>1. /\ I!Reply(c, [deleted |-> req[c].at]) /\ UNCHANGED <<mailed, honoured>>
      BY <1>8 DEF I!DeleteMe
    <2>2. DOMAIN [deleted |-> req[c].at] = {"deleted"} OBVIOUS
    <2> QED BY <2>1, <2>2, <1>2
  <1>9. CASE I!MfaSetup(c)
    <2>1. /\ I!Reply(c, [secret |-> TRUE, codes |-> {}]) /\ UNCHANGED <<mailed, honoured>>
      BY <1>9 DEF I!MfaSetup
    <2>2. DOMAIN [secret |-> TRUE, codes |-> {}] = {"secret", "codes"} OBVIOUS
    <2> QED BY <2>1, <2>2, <1>2
  <1>10. CASE I!MfaEnable(c)
    <2>1. /\ I!Reply(c, I!EnableColumns(sets')) /\ UNCHANGED <<mailed, honoured>>
      BY <1>10 DEF I!MfaEnable
    <2>2. DOMAIN I!EnableColumns(sets') = {"totp", "codes"} BY DEF I!EnableColumns
    <2> QED BY <2>1, <2>2, <1>2
  <1>11. CASE I!MfaDisable(c)
    <2>1. /\ I!Reply(c, [totp |-> FALSE, secret |-> FALSE, codes |-> {}])
          /\ UNCHANGED <<mailed, honoured>>
      BY <1>11 DEF I!MfaDisable
    <2>2. DOMAIN [totp |-> FALSE, secret |-> FALSE, codes |-> {}] = {"totp", "secret", "codes"}
      OBVIOUS
    <2> QED BY <2>1, <2>2, <1>2
  <1>12. CASE I!MfaVerify(c)
    <2>1. /\ I!Reply(c, [codes |-> I!CodesLeft(I!Seen(c), I!Arg(c))])
          /\ UNCHANGED <<mailed, honoured>>
      BY <1>12 DEF I!MfaVerify
    <2>2. DOMAIN [codes |-> I!CodesLeft(I!Seen(c), I!Arg(c))] = {"codes"} OBVIOUS
    <2> QED BY <2>1, <2>2, <1>2
  <1> QED
    BY <1>3, <1>4, <1>5, <1>6, <1>7, <1>8, <1>9, <1>10, <1>11, <1>12 DEF Others

LEMMA MailSends ==
  ASSUME RowTyped, NEW kind, NEW to, I!Mail(kind, to), kind \in I!Kinds, to \in Emails
  PROVE  /\ Len(mailed') = Len(mailed) + 1 /\ I!NextLink = Len(mailed) + 1
         /\ mailed'[I!NextLink] = [kind |-> kind, to |-> to]
         /\ \A i \in Sent : mailed'[i] = mailed[i]
         /\ Len(mailed) \in Nat
  <1>1. mailed \in Seq(Letters) BY DEF RowTyped, I!TypeOK, Letters
  <1>2. [kind |-> kind, to |-> to] \in Letters BY DEF Letters
  <1>3. I!NextLink = Len(mailed) + 1 /\ mailed' = Append(mailed, [kind |-> kind, to |-> to])
    BY DEF I!Mail, I!NextLink
  <1> HIDE DEF Letters
  <1> QED BY <1>1, <1>2, <1>3, AppendProperties DEF Sent

(* Three handlers send a link and put it in its column; three honour the     *)
(* link that their copy of the row has in a column, and empty the column.    *)
Sends(c) ==
  \E k \in I!Kinds :
    /\ Len(mailed') = Len(mailed) + 1 /\ mailed'[Len(mailed) + 1].kind = k
    /\ \A i \in Sent : mailed'[i] = mailed[i]
    /\ user'[k] = Len(mailed) + 1
    /\ \A j \in I!Kinds \ {k} : user'[j] = user[j]
    /\ honoured' = honoured

Honours(c) ==
  \E k \in I!Kinds :
    /\ req[c].seen[k] \in Sent /\ honoured' = honoured \cup {req[c].seen[k]}
    /\ user'[k] = I!Never
    /\ \A j \in I!Kinds \ {k} : user'[j] = user[j]
    /\ mailed' = mailed

LEMMA SeenLinks ==
  ASSUME RowTyped, Unspent, NEW c \in Clients, Busy(c), NEW k \in I!Kinds
  PROVE  /\ req[c].seen[k] \in 0 .. Len(mailed)
         /\ req[c].seen[k] # I!Never => req[c].seen[k] \notin req[c].began
  <1>1. LinksFresh(req[c].seen, req[c].began) BY DEF Unspent
  <1>2. Len(mailed) \in Nat BY DEF RowTyped, I!TypeOK
  <1> QED BY <1>1, <1>2 DEF LinksFresh, Sent, I!Never

LEMMA Senders ==
  ASSUME RowTyped, Unspent, NEW c \in Clients,
         I!ResendVerification(c) \/ I!ForgotPassword(c) \/ I!RequestEmailChange(c)
  PROVE  /\ Sends(c)
         /\ req' = [req EXCEPT ![c] = I!Idle] /\ group' = group
  <1>1. user \in I!Row BY DEF RowTyped, I!TypeOK
  <1>2. Busy(c) /\ Holds(req[c])
    BY DEF I!ResendVerification, I!ForgotPassword, I!RequestEmailChange, I!Doing, Busy, RowTyped
  <1>3. req[c].seen.email \in Emails BY <1>2 DEF Holds, I!Row
  <1>4. \A k \in I!Kinds : req[c].seen[k] \in 0 .. Len(mailed) BY <1>2, SeenLinks
  <1> USE DEF I!Kinds, Columns
  <1>5. CASE I!ResendVerification(c)
    <2> DEFINE cols == [verify |-> I!NextLink, verifyEnd |-> req[c].at + LinkTime]
    <2>1. I!Reply(c, cols) /\ I!Mail("verify", req[c].seen.email) /\ UNCHANGED honoured
      BY <1>5 DEF I!ResendVerification, I!Seen
    <2>2. /\ Len(mailed') = Len(mailed) + 1 /\ I!NextLink = Len(mailed) + 1
          /\ mailed'[Len(mailed) + 1].kind = "verify" /\ Len(mailed) \in Nat
          /\ \A i \in Sent : mailed'[i] = mailed[i]
      <3>1. I!Mail("verify", req[c].seen.email) /\ "verify" \in I!Kinds BY <2>1
      <3> HIDE DEF I!Kinds, Columns, cols
      <3>2. /\ Len(mailed') = Len(mailed) + 1 /\ I!NextLink = Len(mailed) + 1
            /\ mailed'[I!NextLink] = [kind |-> "verify", to |-> req[c].seen.email]
            /\ \A i \in Sent : mailed'[i] = mailed[i]
            /\ Len(mailed) \in Nat
        BY <1>3, <3>1, MailSends
      <3> QED BY <3>2
    <2>3. cols["verify"] = Len(mailed) + 1 /\ DOMAIN cols = {"verify", "verifyEnd"} BY <2>2
    <2> HIDE DEF cols
    <2>4. cols["verify"] # req[c].seen["verify"] BY <1>4, <2>2, <2>3
    <2>5. user'["verify"] = Len(mailed) + 1 BY <1>1, <2>1, <2>3, <2>4, Column
    <2>6. user'["reset"] = user["reset"] /\ user'["change"] = user["change"]
      BY <1>1, <2>1, <2>3, Column
    <2> QED BY <2>1, <2>2, <2>5, <2>6 DEF Sends, I!Reply
  <1>6. CASE I!ForgotPassword(c)
    <2> DEFINE cols == [reset |-> I!NextLink, resetEnd |-> req[c].at + LinkTime]
    <2>1. I!Reply(c, cols) /\ I!Mail("reset", req[c].seen.email) /\ UNCHANGED honoured
      BY <1>6 DEF I!ForgotPassword, I!Seen
    <2>2. /\ Len(mailed') = Len(mailed) + 1 /\ I!NextLink = Len(mailed) + 1
          /\ mailed'[Len(mailed) + 1].kind = "reset" /\ Len(mailed) \in Nat
          /\ \A i \in Sent : mailed'[i] = mailed[i]
      <3>1. I!Mail("reset", req[c].seen.email) /\ "reset" \in I!Kinds BY <2>1
      <3> HIDE DEF I!Kinds, Columns, cols
      <3>2. /\ Len(mailed') = Len(mailed) + 1 /\ I!NextLink = Len(mailed) + 1
            /\ mailed'[I!NextLink] = [kind |-> "reset", to |-> req[c].seen.email]
            /\ \A i \in Sent : mailed'[i] = mailed[i]
            /\ Len(mailed) \in Nat
        BY <1>3, <3>1, MailSends
      <3> QED BY <3>2
    <2>3. cols["reset"] = Len(mailed) + 1 /\ DOMAIN cols = {"reset", "resetEnd"} BY <2>2
    <2> HIDE DEF cols
    <2>4. cols["reset"] # req[c].seen["reset"] BY <1>4, <2>2, <2>3
    <2>5. user'["reset"] = Len(mailed) + 1 BY <1>1, <2>1, <2>3, <2>4, Column
    <2>6. user'["verify"] = user["verify"] /\ user'["change"] = user["change"]
      BY <1>1, <2>1, <2>3, Column
    <2> QED BY <2>1, <2>2, <2>5, <2>6 DEF Sends, I!Reply
  <1>7. CASE I!RequestEmailChange(c)
    <2> DEFINE cols == [newEmail |-> req[c].arg, change |-> I!NextLink,
                        changeEnd |-> req[c].at + LinkTime]
    <2>1. I!Reply(c, cols) /\ I!Mail("change", req[c].arg) /\ UNCHANGED honoured
      BY <1>7 DEF I!RequestEmailChange, I!Arg
    <2>0. req[c].arg \in Emails BY <1>2, <1>7 DEF I!RequestEmailChange, I!Doing, Holds
    <2>2. /\ Len(mailed') = Len(mailed) + 1 /\ I!NextLink = Len(mailed) + 1
          /\ mailed'[Len(mailed) + 1].kind = "change" /\ Len(mailed) \in Nat
          /\ \A i \in Sent : mailed'[i] = mailed[i]
      <3>1. I!Mail("change", req[c].arg) /\ "change" \in I!Kinds BY <2>1
      <3> HIDE DEF I!Kinds, Columns, cols
      <3>2. /\ Len(mailed') = Len(mailed) + 1 /\ I!NextLink = Len(mailed) + 1
            /\ mailed'[I!NextLink] = [kind |-> "change", to |-> req[c].arg]
            /\ \A i \in Sent : mailed'[i] = mailed[i]
            /\ Len(mailed) \in Nat
        BY <2>0, <3>1, MailSends
      <3> QED BY <3>2
    <2>3. cols["change"] = Len(mailed) + 1 /\ DOMAIN cols = {"newEmail", "change", "changeEnd"}
      BY <2>2
    <2> HIDE DEF cols
    <2>4. cols["change"] # req[c].seen["change"] BY <1>4, <2>2, <2>3
    <2>5. user'["change"] = Len(mailed) + 1 BY <1>1, <2>1, <2>3, <2>4, Column
    <2>6. user'["verify"] = user["verify"] /\ user'["reset"] = user["reset"]
      BY <1>1, <2>1, <2>3, Column
    <2> QED BY <2>1, <2>2, <2>5, <2>6 DEF Sends, I!Reply
  <1> QED BY <1>5, <1>6, <1>7

LEMMA Honouring ==
  ASSUME RowTyped, NEW c \in Clients,
         I!VerifyEmail(c) \/ I!ResetPassword(c) \/ I!ConfirmEmailChange(c)
  PROVE  /\ Honours(c) /\ Busy(c)
         /\ \E k \in I!Kinds : I!LinkOf(c) = req[c].seen[k] /\ I!LinkOf(c) \in Sent
         /\ req' = [req EXCEPT ![c] = I!Idle] /\ group' = group
  <1>1. user \in I!Row BY DEF RowTyped, I!TypeOK
  <1>2. Busy(c) /\ Holds(req[c])
    BY DEF I!VerifyEmail, I!ResetPassword, I!ConfirmEmailChange, I!Doing, Busy, RowTyped
  <1>3. 0 \notin Sent BY DEF Sent
  <1> USE DEF I!Kinds, Columns
  <1>5. CASE I!VerifyEmail(c)
    <2> DEFINE cols == [verified |-> TRUE, verify |-> I!Never, verifyEnd |-> I!Never]
    <2>1. /\ I!Reply(c, cols) /\ honoured' = honoured \cup {req[c].arg} /\ mailed' = mailed
          /\ req[c].arg = req[c].seen["verify"] /\ req[c].op = "verify"
      BY <1>5 DEF I!VerifyEmail, I!Seen, I!Arg, I!LinkIs, I!Doing
    <2>2. req[c].arg \in Sent BY <1>2, <2>1 DEF Holds
    <2>3. cols["verify"] = 0 /\ DOMAIN cols = {"verified", "verify", "verifyEnd"} BY DEF I!Never
    <2> HIDE DEF cols
    <2>4. user'["verify"] = 0 BY <1>1, <1>3, <2>1, <2>2, <2>3, Column
    <2>5. user'["reset"] = user["reset"] /\ user'["change"] = user["change"]
      BY <1>1, <2>1, <2>3, Column
    <2>6. I!LinkOf(c) = req[c].seen["verify"] BY <2>1 DEF I!LinkOf, I!Arg
    <2> QED BY <1>2, <2>1, <2>2, <2>4, <2>5, <2>6 DEF Honours, I!Reply, I!Never
  <1>6. CASE I!ResetPassword(c)
    <2> DEFINE cols == I!ResetColumns(req[c].arg[2])
    <2>1. /\ I!Reply(c, cols) /\ honoured' = honoured \cup {req[c].arg[1]} /\ mailed' = mailed
          /\ req[c].arg[1] = req[c].seen["reset"] /\ req[c].op = "reset"
      BY <1>6 DEF I!ResetPassword, I!Seen, I!Arg, I!Doing
    <2>2. req[c].arg[1] \in Sent
      <3>1. req[c].arg \in Sent \X Passwords BY <1>2, <2>1 DEF Holds
      <3> QED BY <3>1
    <2>3. cols["reset"] = 0 /\ DOMAIN cols = {"password", "reset", "resetEnd", "failed", "locked"}
      BY DEF I!Never, I!ResetColumns
    <2> HIDE DEF cols
    <2>4. user'["reset"] = 0 BY <1>1, <1>3, <2>1, <2>2, <2>3, Column
    <2>5. user'["verify"] = user["verify"] /\ user'["change"] = user["change"]
      BY <1>1, <2>1, <2>3, Column
    <2>6. I!LinkOf(c) = req[c].seen["reset"] BY <2>1 DEF I!LinkOf, I!Arg
    <2> QED BY <1>2, <2>1, <2>2, <2>4, <2>5, <2>6 DEF Honours, I!Reply, I!Never
  <1>7. CASE I!ConfirmEmailChange(c)
    <2> DEFINE cols == I!ChangeColumns(req[c].seen)
    <2>1. /\ I!Reply(c, cols) /\ honoured' = honoured \cup {req[c].arg} /\ mailed' = mailed
          /\ req[c].arg = req[c].seen["change"] /\ req[c].op = "confirm_email"
      BY <1>7 DEF I!ConfirmEmailChange, I!GoodChangeLink, I!Seen, I!Arg, I!LinkIs, I!Doing
    <2>2. req[c].arg \in Sent BY <1>2, <2>1 DEF Holds
    <2>3. cols["change"] = 0 /\ DOMAIN cols = {"email", "newEmail", "change", "changeEnd"}
      BY DEF I!Never, I!ChangeColumns
    <2> HIDE DEF cols
    <2>4. user'["change"] = 0 BY <1>1, <1>3, <2>1, <2>2, <2>3, Column
    <2>5. user'["verify"] = user["verify"] /\ user'["reset"] = user["reset"]
      BY <1>1, <2>1, <2>3, Column
    <2>6. I!LinkOf(c) = req[c].seen["change"] BY <2>1 DEF I!LinkOf, I!Arg
    <2> QED BY <1>2, <2>1, <2>2, <2>4, <2>5, <2>6 DEF Honours, I!Reply, I!Never
  <1> QED BY <1>5, <1>6, <1>7

LEMMA HandlersByLinks ==
  ASSUME NEW c \in Clients, I!Handle(c)
  PROVE  \/ Others(c)
         \/ I!ResendVerification(c) \/ I!ForgotPassword(c) \/ I!RequestEmailChange(c)
         \/ I!VerifyEmail(c) \/ I!ResetPassword(c) \/ I!ConfirmEmailChange(c)
  BY DEF I!Handle, Others, Refusing
LEMMA FreshOn ==
  ASSUME NEW u, NEW done, LinksFresh(u, done), Sent \subseteq Sent',
         \A i \in Sent : mailed'[i] = mailed[i]
  PROVE  LinksFresh(u, done)'
  BY DEF LinksFresh

LEMMA SeenFresh ==
  ASSUME RowTyped, Unspent, NEW c \in Clients, req' = [req EXCEPT ![c] = I!Idle],
         Sent \subseteq Sent', \A i \in Sent : mailed'[i] = mailed[i]
  PROVE  \A d \in Clients : Busy(d)' => LinksFresh(req[d].seen, req[d].began)'
  <1> SUFFICES ASSUME NEW d \in Clients, Busy(d)' PROVE LinksFresh(req[d].seen, req[d].began)'
    OBVIOUS
  <1>1. req'[d] = req[d] /\ Busy(d) BY DEF Busy, RowTyped
  <1>2. LinksFresh(req[d].seen, req[d].began) BY <1>1 DEF Unspent
  <1>3. \A u, done : LinksFresh(u, done) => LinksFresh(u, done)' BY FreshOn
  <1> QED BY <1>1, <1>2, <1>3

LEMMA HandlerUnspent ==
  ASSUME RowTyped, Unspent, NEW c \in Clients, I!Handle(c)
  PROVE  Unspent'
  <1>1. honoured \subseteq Sent /\ LinksFresh(user, honoured) /\ Len(mailed) \in Nat
    BY DEF Unspent, RowTyped, I!TypeOK
  <1>2. CASE Others(c)
    <2>1. /\ \A k \in I!Kinds : user'[k] = user[k]
          /\ UNCHANGED <<mailed, honoured>> /\ req' = [req EXCEPT ![c] = I!Idle]
      BY <1>2, OthersLeaveLinks DEF Linked
    <2>2. Sent' = Sent BY <2>1 DEF Sent
    <2>3. LinksFresh(user, honoured)' BY <1>1, <2>1, <2>2 DEF LinksFresh
    <2>4. \A d \in Clients : Busy(d)' => LinksFresh(req[d].seen, req[d].began)'
      BY <2>1, <2>2, SeenFresh
    <2> QED BY <1>1, <2>1, <2>2, <2>3, <2>4 DEF Unspent
  <1>3. CASE I!ResendVerification(c) \/ I!ForgotPassword(c) \/ I!RequestEmailChange(c)
    <2>1. Sends(c) /\ req' = [req EXCEPT ![c] = I!Idle] BY <1>3, Senders
    <2>2. PICK k \in I!Kinds :
            /\ Len(mailed') = Len(mailed) + 1 /\ mailed'[Len(mailed) + 1].kind = k
            /\ \A i \in Sent : mailed'[i] = mailed[i]
            /\ user'[k] = Len(mailed) + 1
            /\ \A j \in I!Kinds \ {k} : user'[j] = user[j]
            /\ honoured' = honoured
      BY <2>1 DEF Sends
    <2>3. Sent \subseteq Sent' /\ Len(mailed) + 1 \in Sent' /\ Len(mailed) + 1 \notin Sent
      BY <1>1, <2>2 DEF Sent
    <2>4. LinksFresh(user, honoured)'
      <3> SUFFICES ASSUME NEW j \in I!Kinds, user'[j] # I!Never
                   PROVE  /\ user'[j] \in Sent' /\ mailed'[user'[j]].kind = j
                          /\ user'[j] \notin honoured'
        BY DEF LinksFresh
      <3>1. CASE j = k BY <3>1, <1>1, <2>2, <2>3
      <3>2. CASE j # k
        <4>1. user'[j] = user[j] BY <3>2, <2>2
        <4>2. user[j] \in Sent /\ mailed[user[j]].kind = j /\ user[j] \notin honoured
          BY <4>1, <1>1 DEF LinksFresh
        <4> QED BY <4>1, <4>2, <2>2, <2>3
      <3> QED BY <3>1, <3>2
    <2>5. \A d \in Clients : Busy(d)' => LinksFresh(req[d].seen, req[d].began)'
      BY <2>1, <2>2, <2>3, SeenFresh
    <2>6. honoured' \subseteq Sent' BY <1>1, <2>2, <2>3
    <2> QED BY <2>4, <2>5, <2>6 DEF Unspent
  <1>4. CASE I!VerifyEmail(c) \/ I!ResetPassword(c) \/ I!ConfirmEmailChange(c)
    <2>1. Honours(c) /\ Busy(c) /\ req' = [req EXCEPT ![c] = I!Idle] BY <1>4, Honouring
    <2>2. PICK k \in I!Kinds :
            /\ req[c].seen[k] \in Sent /\ honoured' = honoured \cup {req[c].seen[k]}
            /\ user'[k] = I!Never
            /\ \A j \in I!Kinds \ {k} : user'[j] = user[j]
            /\ mailed' = mailed
      BY <2>1 DEF Honours
    <2>3. Sent' = Sent BY <2>2 DEF Sent
    <2>4. mailed[req[c].seen[k]].kind = k
      <3>1. LinksFresh(req[c].seen, req[c].began) BY <2>1 DEF Unspent
      <3>2. req[c].seen[k] # I!Never BY <2>2 DEF Sent, I!Never
      <3> QED BY <3>1, <3>2 DEF LinksFresh
    <2>5. LinksFresh(user, honoured)'
      <3> SUFFICES ASSUME NEW j \in I!Kinds, user'[j] # I!Never
                   PROVE  /\ user'[j] \in Sent' /\ mailed'[user'[j]].kind = j
                          /\ user'[j] \notin honoured'
        BY DEF LinksFresh
      <3>1. j # k /\ user'[j] = user[j] BY <2>2
      <3>2. user[j] \in Sent /\ mailed[user[j]].kind = j /\ user[j] \notin honoured
        BY <3>1, <1>1 DEF LinksFresh
      <3>3. user[j] # req[c].seen[k] BY <3>1, <3>2, <2>4
      <3> QED BY <3>1, <3>2, <3>3, <2>2, <2>3
    <2>6. \A d \in Clients : Busy(d)' => LinksFresh(req[d].seen, req[d].began)'
      BY <2>1, <2>2, <2>3, SeenFresh
    <2>7. honoured' \subseteq Sent' BY <1>1, <2>2, <2>3
    <2> QED BY <2>5, <2>6, <2>7 DEF Unspent
  <1> QED BY <1>2, <1>3, <1>4, HandlersByLinks

LEMMA UnspentStep ==
  ASSUME RowTyped, Unspent, [I!Next]_(I!vars)
  PROVE  Unspent'
  <1>0. honoured \subseteq Sent /\ LinksFresh(user, honoured) /\ Len(mailed) \in Nat
        /\ DOMAIN req = Clients
    BY DEF Unspent, RowTyped, I!TypeOK
  <1>1. ASSUME NEW p \in Passwords, I!Register(p) PROVE Unspent'
    <2>1. /\ ~alive /\ user' = I!Fresh(user.email, p, I!NextLink)
          /\ I!Mail("verify", user.email) /\ UNCHANGED <<req, honoured>>
      BY <1>1 DEF I!Register
    <2>2. "verify" \in I!Kinds /\ user.email \in Emails
      BY DEF I!Kinds, RowTyped, I!TypeOK, I!Row
    <2>3. /\ Len(mailed') = Len(mailed) + 1 /\ I!NextLink = Len(mailed) + 1
          /\ mailed'[I!NextLink] = [kind |-> "verify", to |-> user.email]
          /\ \A i \in Sent : mailed'[i] = mailed[i]
      BY <2>1, <2>2, MailSends
    <2>4. Sent \subseteq Sent' /\ I!NextLink \in Sent' /\ I!NextLink \notin Sent
      BY <1>0, <2>3 DEF Sent
    <2>5. user'["verify"] = I!NextLink /\ user'["reset"] = I!Never /\ user'["change"] = I!Never
      BY <2>1 DEF I!Fresh
    <2>6. LinksFresh(user, honoured)'
      BY <1>0, <2>1, <2>3, <2>4, <2>5 DEF LinksFresh, I!Kinds
    <2>7. \A c \in Clients : ~Busy(c)' BY <2>1 DEF RowTyped, Busy
    <2> QED BY <1>0, <2>1, <2>4, <2>6, <2>7 DEF Unspent
  <1>2. ASSUME NEW c \in Clients, NEW op \in I!Ops, NEW arg \in I!ArgsOf(op), I!Begin(c, op, arg)
        PROVE  Unspent'
    <2>1. PICK r : r = [op |-> op, arg |-> arg, seen |-> user, at |-> now, began |-> honoured]
      OBVIOUS
    <2>2. req' = [req EXCEPT ![c] = r] /\ UNCHANGED <<user, mailed, honoured>>
      BY <1>2, <2>1 DEF I!Begin
    <2>3. Sent' = Sent /\ r.seen = user /\ r.began = honoured BY <2>1, <2>2 DEF Sent
    <2>4. \A u, done : LinksFresh(u, done) => LinksFresh(u, done)' BY <2>2, <2>3, FreshOn
    <2>5. ASSUME NEW d \in Clients, Busy(d)' PROVE LinksFresh(req[d].seen, req[d].began)'
      <3>1. CASE d = c
        <4>1. req'[d] = r BY <3>1, <1>0, <2>2
        <4>2. LinksFresh(r.seen, r.began) BY <1>0, <2>3
        <4> QED BY <4>1, <4>2, <2>4
      <3>2. CASE d # c
        <4>1. req'[d] = req[d] BY <3>2, <1>0, <2>2
        <4>2. LinksFresh(req[d].seen, req[d].began) BY <4>1, <2>5 DEF Unspent, Busy
        <4> QED BY <4>1, <4>2, <2>4
      <3> QED BY <3>1, <3>2
    <2>6. LinksFresh(user, honoured)'
      <3>1. LinksFresh(user, honoured)' <=> LinksFresh(user, honoured)
        BY <2>2, <2>3 DEF LinksFresh
      <3> QED BY <1>0, <3>1
    <2>7. honoured' \subseteq Sent' BY <1>0, <2>2, <2>3
    <2> QED BY <2>5, <2>6, <2>7 DEF Unspent
  <1>3. ASSUME NEW c \in Clients, I!Handle(c) PROVE Unspent'
    BY <1>3, HandlerUnspent
  <1>4. CASE Elsewhere \/ UNCHANGED I!vars
    <2>1. UNCHANGED <<user, mailed, req, honoured>>
      BY <1>4, ElsewhereKeeps DEF I!vars
    <2> QED BY <2>1 DEF Unspent, LinksFresh, Sent, Busy
  <1>5. CASE I!HardDelete
    <2>1. req' = [c \in Clients |-> I!Idle] /\ UNCHANGED <<user, mailed, honoured>>
      BY <1>5 DEF I!HardDelete
    <2>2. \A c \in Clients : ~Busy(c)' BY <2>1 DEF Busy
    <2> QED BY <2>1, <2>2 DEF Unspent, LinksFresh, Sent
  <1> QED BY <1>1, <1>2, <1>3, <1>4, <1>5 DEF I!Next, Elsewhere

(* The address a link was mailed to is the address it brings.                *)
LEMMA HandlerAddressed ==
  ASSUME RowTyped, Crowd, Unspent, Addressed, NEW c \in Clients, I!Handle(c)
  PROVE  Addressed'
  <1>1. user \in I!Row /\ Len(mailed) \in Nat BY DEF RowTyped, I!TypeOK
  <1>2. user["change"] # I!Never => user["change"] \in Sent
    BY DEF Unspent, LinksFresh, I!Kinds
  <1> USE DEF I!Kinds
  <1>3. ASSUME user'["change"] = user["change"], user'["newEmail"] = user["newEmail"],
               group' = group, \A i \in Sent : mailed'[i] = mailed[i]
        PROVE  Addressed'
    BY <1>2, <1>3 DEF Addressed
  <1>4. CASE Others(c)
    BY <1>3, <1>4, OthersLeaveLinks DEF Linked
  <1>5. CASE I!ResendVerification(c) \/ I!ForgotPassword(c)
    <2>1. Sends(c) /\ group' = group BY <1>5, Senders
    <2>2. \A i \in Sent : mailed'[i] = mailed[i] BY <2>1 DEF Sends
    <2>3. PICK cols : I!Reply(c, cols) /\ DOMAIN cols \cap {"change", "newEmail"} = {}
      <3>1. CASE I!ResendVerification(c)
        <4> DEFINE w == [verify |-> I!NextLink, verifyEnd |-> req[c].at + LinkTime]
        <4>1. I!Reply(c, w) BY <3>1 DEF I!ResendVerification
        <4>2. DOMAIN w = {"verify", "verifyEnd"} OBVIOUS
        <4> QED BY <4>1, <4>2
      <3>2. CASE I!ForgotPassword(c)
        <4> DEFINE w == [reset |-> I!NextLink, resetEnd |-> req[c].at + LinkTime]
        <4>1. I!Reply(c, w) BY <3>2 DEF I!ForgotPassword
        <4>2. DOMAIN w = {"reset", "resetEnd"} OBVIOUS
        <4> QED BY <4>1, <4>2
      <3> QED BY <1>5, <3>1, <3>2
    <2>4. user'["change"] = user["change"] /\ user'["newEmail"] = user["newEmail"]
      BY <1>1, <2>3, Column DEF Columns
    <2> QED BY <1>3, <2>1, <2>2, <2>4
  <1>6. CASE I!VerifyEmail(c) \/ I!ResetPassword(c)
    <2>1. Honours(c) /\ group' = group BY <1>6, Honouring
    <2>2. mailed' = mailed BY <2>1 DEF Honours
    <2>3. PICK cols : I!Reply(c, cols) /\ DOMAIN cols \cap {"change", "newEmail"} = {}
      <3>1. CASE I!VerifyEmail(c)
        <4> DEFINE w == [verified |-> TRUE, verify |-> I!Never, verifyEnd |-> I!Never]
        <4>1. I!Reply(c, w) BY <3>1 DEF I!VerifyEmail
        <4>2. DOMAIN w = {"verified", "verify", "verifyEnd"} OBVIOUS
        <4> HIDE DEF w
        <4> QED BY <4>1, <4>2
      <3>2. CASE I!ResetPassword(c)
        <4> DEFINE w == I!ResetColumns(I!Arg(c)[2])
        <4>1. I!Reply(c, w) BY <3>2 DEF I!ResetPassword
        <4>2. DOMAIN w = {"password", "reset", "resetEnd", "failed", "locked"}
          BY DEF I!ResetColumns
        <4> HIDE DEF w
        <4> QED BY <4>1, <4>2
      <3> QED BY <1>6, <3>1, <3>2
    <2>4. user'["change"] = user["change"] /\ user'["newEmail"] = user["newEmail"]
      BY <1>1, <2>3, Column DEF Columns
    <2> QED BY <1>3, <2>1, <2>2, <2>4
  <1>7. CASE I!RequestEmailChange(c)
    <2>1. Busy(c) /\ Holds(req[c]) /\ req[c].op = "request_email"
      BY <1>7 DEF I!RequestEmailChange, I!Doing, Busy, RowTyped
    <2> DEFINE cols == [newEmail |-> req[c].arg, change |-> I!NextLink,
                        changeEnd |-> req[c].at + LinkTime]
    <2>2. I!Reply(c, cols) /\ I!Mail("change", req[c].arg)
      BY <1>7 DEF I!RequestEmailChange, I!Arg
    <2>3. req[c].arg \in Emails BY <2>1 DEF Holds
    <2>4. /\ I!NextLink = Len(mailed) + 1
          /\ mailed'[I!NextLink] = [kind |-> "change", to |-> req[c].arg]
      <3>1. "change" \in I!Kinds OBVIOUS
      <3> HIDE DEF cols, I!Kinds
      <3> QED BY <2>2, <2>3, <3>1, MailSends
    <2>5. mailed'[I!NextLink].to = req[c].arg BY <2>4
    <2>6. /\ cols["newEmail"] = req[c].arg /\ cols["change"] = Len(mailed) + 1
          /\ DOMAIN cols = {"newEmail", "change", "changeEnd"}
      BY <2>4
    <2> HIDE DEF cols
    <2>7. req[c].seen["change"] \in 0 .. Len(mailed) BY <2>1, SeenLinks
    <2>8. cols["change"] # req[c].seen["change"] BY <1>1, <2>6, <2>7
    <2>9. user'["change"] = Len(mailed) + 1
      BY <1>1, <2>2, <2>6, <2>8, Column DEF Columns
    <2>10. user'["newEmail"] = IF req[c].arg # req[c].seen["newEmail"]
                               THEN req[c].arg ELSE user["newEmail"]
      BY <1>1, <2>2, <2>6, Column DEF Columns
    <2>11. SUFFICES ASSUME (group.overlap <= 1 \/ group.ops \cap AddressOps = {})'
                    PROVE  mailed'[user'.change].to = user'.newEmail
      BY DEF Addressed
    <2>12. group' = group BY <2>2 DEF I!Reply
    <2>13. group.overlap <= 1 BY <2>1, <2>11, <2>12 DEF Holds, AddressOps
    <2>14. req[c].seen = user BY <2>1, <2>13 DEF Crowd
    <2>15. user'["newEmail"] = req[c].arg BY <2>10, <2>14
    <2> QED BY <2>4, <2>5, <2>9, <2>15
  <1>8. CASE I!ConfirmEmailChange(c)
    <2> DEFINE cols == I!ChangeColumns(req[c].seen)
    <2>1. I!Reply(c, cols) /\ req[c].arg = req[c].seen["change"] /\ Busy(c) /\ Holds(req[c])
          /\ req[c].op = "confirm_email"
      BY <1>8 DEF I!ConfirmEmailChange, I!GoodChangeLink, I!Seen, I!Arg, I!LinkIs, I!Doing,
         Busy, RowTyped
    <2>2. req[c].arg \in Sent BY <2>1 DEF Holds
    <2>3. cols["change"] = 0 /\ DOMAIN cols = {"email", "newEmail", "change", "changeEnd"}
      BY DEF I!Never, I!ChangeColumns
    <2> HIDE DEF cols
    <2>4. 0 \notin Sent BY DEF Sent
    <2>5. user'["change"] = 0 BY <1>1, <2>1, <2>2, <2>3, <2>4, Column DEF Columns
    <2> QED BY <2>5 DEF Addressed, I!Never
  <1> QED BY <1>4, <1>5, <1>6, <1>7, <1>8, HandlersByLinks

LEMMA AddressedStep ==
  ASSUME RowTyped, Crowd, Unspent, Addressed, [I!Next]_(I!vars)
  PROVE  Addressed'
  <1>1. ASSUME NEW p \in Passwords, I!Register(p) PROVE Addressed'
    <2>1. user' = I!Fresh(user.email, p, I!NextLink) BY <1>1 DEF I!Register
    <2>2. user'.change = I!Never BY <2>1 DEF I!Fresh
    <2> QED BY <2>2 DEF Addressed
  <1>2. ASSUME NEW c \in Clients, NEW op \in I!Ops, NEW arg \in I!ArgsOf(op), I!Begin(c, op, arg)
        PROVE  Addressed'
    BY <1>2 DEF I!Begin, Addressed
  <1>3. ASSUME NEW c \in Clients, I!Handle(c) PROVE Addressed'
    BY <1>3, HandlerAddressed
  <1>4. CASE Elsewhere \/ UNCHANGED I!vars
    <2>1. UNCHANGED <<user, mailed, group>> BY <1>4, ElsewhereKeeps DEF I!vars
    <2> QED BY <2>1 DEF Addressed
  <1>5. CASE I!HardDelete BY <1>5 DEF I!HardDelete, Addressed
  <1> QED BY <1>1, <1>2, <1>3, <1>4, <1>5 DEF I!Next, Elsewhere

LEMMA LinksInit == I!Init => Unspent /\ Addressed
  <1> SUFFICES ASSUME I!Init PROVE Unspent /\ Addressed
    OBVIOUS
  <1>1. user.verify = I!Never /\ user.reset = I!Never /\ user.change = I!Never
    BY DEF I!Init, I!Fresh
  <1>2. honoured = {} /\ \A c \in Clients : ~Busy(c) BY DEF I!Init, Busy
  <1> QED BY <1>1, <1>2 DEF Unspent, Addressed, LinksFresh, I!Kinds

(* A link is used only by a request that began when it had not been used.     *)
LEMMA LinkUnused ==
  ASSUME RowTyped, Unspent, NEW c \in Clients, I!UsesLink(c)
  PROVE  I!LinkOf(c) \notin req[c].began
  <1>1. Busy(c) /\ \E k \in I!Kinds : I!LinkOf(c) = req[c].seen[k] /\ I!LinkOf(c) \in Sent
    BY Honouring DEF I!UsesLink
  <1>2. PICK k \in I!Kinds : I!LinkOf(c) = req[c].seen[k] /\ I!LinkOf(c) \in Sent BY <1>1
  <1>3. req[c].seen[k] # I!Never BY <1>2 DEF Sent, I!Never
  <1> QED BY <1>1, <1>2, <1>3, SeenLinks

OneAddressAtATime == \A g \in Groups : g.ops \cap AddressOps # {} => g.overlap <= 1

LEMMA LinksKeptByStep ==
  ASSUME OneAddressAtATime, RowTyped, Crowd, Unspent, Addressed, NEW c \in Clients
  PROVE  /\ I!UsesLink(c) => I!LinkOf(c) \notin req[c].began
         /\ I!ConfirmEmailChange(c) =>
              mailed[I!Arg(c)] = [kind |-> "change", to |-> user'.email]
  <1>1. ASSUME I!UsesLink(c) PROVE I!LinkOf(c) \notin req[c].began BY <1>1, LinkUnused
  <1>2. ASSUME I!ConfirmEmailChange(c)
        PROVE  mailed[I!Arg(c)] = [kind |-> "change", to |-> user'.email]
    <2> DEFINE cols == I!ChangeColumns(req[c].seen)
    <2>1. I!Reply(c, cols) /\ req[c].arg = req[c].seen["change"] /\ Busy(c) /\ Holds(req[c])
          /\ req[c].op = "confirm_email"
      BY <1>2 DEF I!ConfirmEmailChange, I!GoodChangeLink, I!Seen, I!Arg, I!LinkIs, I!Doing,
         Busy, RowTyped
    <2>2. req[c].arg \in Sent BY <2>1 DEF Holds
    <2>3. cols["email"] = req[c].seen["newEmail"]
          /\ DOMAIN cols = {"email", "newEmail", "change", "changeEnd"}
      BY DEF I!ChangeColumns
    <2> HIDE DEF cols
    <2>4. group.overlap <= 1 BY <2>1 DEF OneAddressAtATime, RowTyped, Holds, AddressOps
    <2>5. req[c].seen = user BY <2>1, <2>4 DEF Crowd
    <2>6. user \in I!Row BY DEF RowTyped, I!TypeOK
    <2>7. user'["email"] = user["newEmail"] BY <2>1, <2>3, <2>5, <2>6, Column DEF Columns
    <2>8. user["change"] = req[c].arg /\ user["change"] # I!Never
      BY <2>1, <2>2, <2>5 DEF Sent, I!Never
    <2>9. mailed[user["change"]].kind = "change" BY <2>8 DEF Unspent, LinksFresh, I!Kinds
    <2>10. mailed[user["change"]].to = user["newEmail"] BY <2>4, <2>8 DEF Addressed
    <2>11. mailed[req[c].arg] \in Letters
      <3>1. mailed \in Seq(Letters) BY DEF RowTyped, I!TypeOK, Letters
      <3> HIDE DEF Letters
      <3> QED BY <2>2, <3>1 DEF Sent
    <2> QED BY <2>7, <2>8, <2>9, <2>10, <2>11 DEF Letters, I!Arg
  <1> QED BY <1>1, <1>2
-----------------------------------------------------------------------------
(* The recovery codes.                                                       *)

NoFactor(c) ==
  \/ Refusing(c) \/ I!LoginWrong(c) \/ I!Login(c) \/ I!VerifyEmail(c) \/ I!ResendVerification(c)
  \/ I!ForgotPassword(c) \/ I!ResetPassword(c) \/ I!ChangePassword(c)
  \/ I!RequestEmailChange(c) \/ I!ConfirmEmailChange(c) \/ I!SetConsent(c) \/ I!DeleteMe(c)

LEMMA HandlersByFactor ==
  ASSUME NEW c \in Clients, I!Handle(c)
  PROVE  NoFactor(c) \/ I!MfaSetup(c) \/ I!MfaEnable(c) \/ I!MfaDisable(c) \/ I!MfaVerify(c)
  BY DEF I!Handle, NoFactor, Refusing

LEMMA NoFactorKeepsCodes ==
  ASSUME RowTyped, NEW c \in Clients, NoFactor(c)
  PROVE  /\ user'["totp"] = user["totp"] /\ user'["codes"] = user["codes"]
         /\ UNCHANGED <<alive, sets, spent>>
  <1>1. user \in I!Row BY DEF RowTyped, I!TypeOK
  <1>2. ASSUME NEW cols, I!Reply(c, cols), "totp" \notin DOMAIN cols, "codes" \notin DOMAIN cols
        PROVE  /\ user'["totp"] = user["totp"] /\ user'["codes"] = user["codes"]
               /\ alive' = alive
    <2>1. \A k \in Columns : k \notin DOMAIN cols => user'[k] = user[k] BY <1>1, <1>2, Column
    <2>2. "totp" \in Columns /\ "codes" \in Columns BY DEF Columns
    <2> QED BY <1>2, <2>1, <2>2 DEF I!Reply
  <1>3. CASE Refusing(c)
    <2>1. user' = user BY <1>1, <1>3, RefusingRefuses, RefusalKeepsRow
    <2> QED BY <1>3, <2>1, RefusingRefuses DEF I!Refuse, I!Reply
  <1>4. CASE I!LoginWrong(c)
    <2>1. I!Reply(c, I!WrongColumns(I!Seen(c), req[c].at)) /\ UNCHANGED <<sets, spent>>
      BY <1>4 DEF I!LoginWrong
    <2>2. DOMAIN I!WrongColumns(I!Seen(c), req[c].at) \subseteq {"failed", "locked"}
      BY DEF I!WrongColumns
    <2> QED BY <2>1, <2>2, <1>2
  <1>5. CASE I!Login(c)
    <2>1. I!Reply(c, [failed |-> 0, locked |-> I!Never]) /\ UNCHANGED <<sets, spent>>
      BY <1>5 DEF I!Login
    <2>2. DOMAIN [failed |-> 0, locked |-> I!Never] = {"failed", "locked"} OBVIOUS
    <2> QED BY <2>1, <2>2, <1>2
  <1>6. CASE I!VerifyEmail(c)
    <2> DEFINE cols == [verified |-> TRUE, verify |-> I!Never, verifyEnd |-> I!Never]
    <2>1. I!Reply(c, cols) /\ UNCHANGED <<sets, spent>> BY <1>6 DEF I!VerifyEmail
    <2>2. DOMAIN cols = {"verified", "verify", "verifyEnd"} OBVIOUS
    <2> HIDE DEF cols
    <2> QED BY <2>1, <2>2, <1>2
  <1>7. CASE I!ResendVerification(c)
    <2> DEFINE cols == [verify |-> I!NextLink, verifyEnd |-> req[c].at + LinkTime]
    <2>1. I!Reply(c, cols) /\ UNCHANGED <<sets, spent>> BY <1>7 DEF I!ResendVerification
    <2>2. DOMAIN cols = {"verify", "verifyEnd"} OBVIOUS
    <2> HIDE DEF cols
    <2> QED BY <2>1, <2>2, <1>2
  <1>8. CASE I!ForgotPassword(c)
    <2> DEFINE cols == [reset |-> I!NextLink, resetEnd |-> req[c].at + LinkTime]
    <2>1. I!Reply(c, cols) /\ UNCHANGED <<sets, spent>> BY <1>8 DEF I!ForgotPassword
    <2>2. DOMAIN cols = {"reset", "resetEnd"} OBVIOUS
    <2> HIDE DEF cols
    <2> QED BY <2>1, <2>2, <1>2
  <1>9. CASE I!ResetPassword(c)
    <2> DEFINE cols == I!ResetColumns(I!Arg(c)[2])
    <2>1. I!Reply(c, cols) /\ UNCHANGED <<sets, spent>> BY <1>9 DEF I!ResetPassword
    <2>2. DOMAIN cols = {"password", "reset", "resetEnd", "failed", "locked"}
      BY DEF I!ResetColumns
    <2> HIDE DEF cols
    <2> QED BY <2>1, <2>2, <1>2
  <1>10. CASE I!ChangePassword(c)
    <2> DEFINE cols == [password |-> I!Arg(c)[2]]
    <2>1. I!Reply(c, cols) /\ UNCHANGED <<sets, spent>> BY <1>10 DEF I!ChangePassword
    <2>2. DOMAIN cols = {"password"} OBVIOUS
    <2> HIDE DEF cols
    <2> QED BY <2>1, <2>2, <1>2
  <1>11. CASE I!RequestEmailChange(c)
    <2> DEFINE cols == [newEmail |-> I!Arg(c), change |-> I!NextLink,
                        changeEnd |-> req[c].at + LinkTime]
    <2>1. I!Reply(c, cols) /\ UNCHANGED <<sets, spent>> BY <1>11 DEF I!RequestEmailChange
    <2>2. DOMAIN cols = {"newEmail", "change", "changeEnd"} OBVIOUS
    <2> HIDE DEF cols
    <2> QED BY <2>1, <2>2, <1>2
  <1>12. CASE I!ConfirmEmailChange(c)
    <2> DEFINE cols == I!ChangeColumns(I!Seen(c))
    <2>1. I!Reply(c, cols) /\ UNCHANGED <<sets, spent>> BY <1>12 DEF I!ConfirmEmailChange
    <2>2. DOMAIN cols = {"email", "newEmail", "change", "changeEnd"} BY DEF I!ChangeColumns
    <2> HIDE DEF cols
    <2> QED BY <2>1, <2>2, <1>2
  <1>13. CASE I!SetConsent(c)
    <2>1. I!Reply(c, [consent |-> I!Arg(c)]) /\ UNCHANGED <<sets, spent>>
      BY <1>13 DEF I!SetConsent
    <2>2. DOMAIN [consent |-> I!Arg(c)] = {"consent"} OBVIOUS
    <2> QED BY <2>1, <2>2, <1>2
  <1>14. CASE I!DeleteMe(c)
    <2>1. I!Reply(c, [deleted |-> req[c].at]) /\ UNCHANGED <<sets, spent>> BY <1>14 DEF I!DeleteMe
    <2>2. DOMAIN [deleted |-> req[c].at] = {"deleted"} OBVIOUS
    <2> QED BY <2>1, <2>2, <1>2
  <1> QED
    BY <1>3, <1>4, <1>5, <1>6, <1>7, <1>8, <1>9, <1>10, <1>11, <1>12, <1>13, <1>14 DEF NoFactor

(* The request at mfa.py that commits has read the columns of MFA as they    *)
(* still are.                                                                *)
MfaCommits(c) == I!MfaSetup(c) \/ I!MfaEnable(c) \/ I!MfaDisable(c) \/ I!MfaVerify(c)
FactorsCurrent(c) ==
  MfaCommits(c) => /\ req[c].seen["totp"] = user["totp"]
                   /\ req[c].seen["codes"] = user["codes"]

LEMMA CodeOfSet ==
  ASSUME NEW n, NEW x \in I!CodesOf(n)
  PROVE  x[1] = n
  BY DEF I!CodesOf

LEMMA TotpIsNoCode == I!Totp \notin I!AllCodes
  BY DEF I!Totp, I!AllCodes, I!CodesOf

LEMMA HandlerShown ==
  ASSUME RowTyped, Crowd, Shown, NEW c \in Clients, FactorsCurrent(c), I!Handle(c)
  PROVE  Shown'
  <1>1. /\ user \in I!Row /\ sets \in Nat /\ spent \subseteq I!AllCodes
        /\ user["totp"] \in BOOLEAN
    BY IdentityAssumption DEF RowTyped, I!TypeOK, I!Row
  <1>2. /\ alive /\ user["totp"] => user["codes"] = I!CodesOf(sets) \ spent /\ sets >= 1
        /\ \A x \in spent : x[1] <= sets
    BY DEF Shown, I!ShownCodesAreStored
  <1>3. CASE NoFactor(c)
    <2>1. /\ user'["totp"] = user["totp"] /\ user'["codes"] = user["codes"]
          /\ UNCHANGED <<alive, sets, spent>>
      BY <1>3, NoFactorKeepsCodes
    <2>2. I!CodesOf(sets)' = I!CodesOf(sets) BY <2>1 DEF I!CodesOf
    <2> QED BY <1>2, <2>1, <2>2 DEF Shown, I!ShownCodesAreStored
  <1>4. CASE I!MfaSetup(c)
    <2> DEFINE cols == [secret |-> TRUE, codes |-> {}]
    <2>1. /\ I!Reply(c, cols) /\ I!Doing(c, "mfa_setup") /\ ~req[c].seen["totp"]
          /\ UNCHANGED <<sets, spent>>
      BY <1>4 DEF I!MfaSetup, I!Seen
    <2>2. DOMAIN cols = {"secret", "codes"} OBVIOUS
    <2> HIDE DEF cols
    <2>3. /\ req[c].seen["totp"] = user["totp"] /\ req[c].seen["codes"] = user["codes"]
      BY <1>4 DEF FactorsCurrent, MfaCommits
    <2>4. user'["totp"] = user["totp"] BY <1>1, <2>1, <2>2, Column DEF Columns
    <2>5. ~user'["totp"] BY <2>1, <2>3, <2>4
    <2> QED BY <1>2, <2>1, <2>5 DEF Shown, I!ShownCodesAreStored
  <1>5. CASE I!MfaEnable(c)
    <2> DEFINE cols == I!EnableColumns(sets + 1)
    <2>1. /\ I!Reply(c, cols) /\ I!Doing(c, "mfa_enable")
          /\ sets' = sets + 1 /\ UNCHANGED spent
      BY <1>5 DEF I!MfaEnable
    <2>2. DOMAIN cols = {"totp", "codes"} /\ cols["codes"] = I!CodesOf(sets + 1)
      BY DEF I!EnableColumns
    <2> HIDE DEF cols
    <2>3. /\ req[c].seen["totp"] = user["totp"] /\ req[c].seen["codes"] = user["codes"]
      BY <1>5 DEF FactorsCurrent, MfaCommits
    <2>4. user'["codes"] = I!CodesOf(sets + 1) BY <1>1, <2>1, <2>2, <2>3, Column DEF Columns
    <2>5. \A x \in I!CodesOf(sets + 1) : x \notin spent
      <3> SUFFICES ASSUME NEW x \in I!CodesOf(sets + 1), x \in spent PROVE FALSE
        OBVIOUS
      <3>1. x[1] = sets + 1 BY CodeOfSet
      <3>2. x[1] <= sets BY <1>2
      <3> QED BY <1>1, <3>1, <3>2
    <2>6. I!CodesOf(sets + 1) = I!CodesOf(sets + 1) \ spent BY <2>5
    <2>7. I!CodesOf(sets)' = I!CodesOf(sets + 1) BY <2>1 DEF I!CodesOf
    <2>8. I!ShownCodesAreStored'
      BY <2>1, <2>4, <2>6, <2>7 DEF I!ShownCodesAreStored
    <2>9. \A x \in spent : x[1] <= sets + 1
      <3> SUFFICES ASSUME NEW x \in spent PROVE x[1] <= sets + 1
        OBVIOUS
      <3>1. x \in I!AllCodes /\ x[1] <= sets BY <1>1, <1>2
      <3>2. x[1] \in Nat BY <3>1 DEF I!AllCodes, I!CodesOf
      <3> QED BY <1>1, <3>1, <3>2
    <2> QED BY <1>1, <2>1, <2>8, <2>9 DEF Shown
  <1>6. CASE I!MfaDisable(c)
    <2> DEFINE cols == [totp |-> FALSE, secret |-> FALSE, codes |-> {}]
    <2>1. /\ I!Reply(c, cols) /\ I!Doing(c, "mfa_disable") /\ req[c].seen["totp"]
          /\ (req[c].arg = I!Totp \/ req[c].arg \in req[c].seen["codes"])
          /\ UNCHANGED sets /\ spent' = spent \cup ({req[c].arg} \cap I!AllCodes)
          /\ alive
      BY <1>6 DEF I!MfaDisable, I!Seen, I!FactorOk, I!Spend, I!Arg, I!Doing
    <2>2. DOMAIN cols = {"totp", "secret", "codes"} /\ cols["totp"] = FALSE OBVIOUS
    <2> HIDE DEF cols
    <2>3. /\ req[c].seen["totp"] = user["totp"] /\ req[c].seen["codes"] = user["codes"]
      BY <1>6 DEF FactorsCurrent, MfaCommits
    <2>4. user'["totp"] = FALSE BY <1>1, <2>1, <2>2, Column DEF Columns
    <2>5. ~user'["totp"] BY <2>4
    <2>6. \A x \in spent' : x[1] <= sets
      <3>1. user["codes"] = I!CodesOf(sets) \ spent BY <1>2, <2>1, <2>3
      <3>2. req[c].arg \in I!AllCodes => req[c].arg[1] = sets
        BY <2>1, <2>3, <3>1, TotpIsNoCode, CodeOfSet
      <3> QED BY <1>1, <1>2, <2>1, <3>2
    <2> QED BY <2>1, <2>5, <2>6 DEF Shown, I!ShownCodesAreStored
  <1>7. CASE I!MfaVerify(c)
    <2> DEFINE cols == [codes |-> I!CodesLeft(req[c].seen, req[c].arg)]
    <2>1. /\ I!Reply(c, cols) /\ I!Doing(c, "mfa_verify") /\ req[c].seen["totp"]
          /\ (req[c].arg = I!Totp \/ req[c].arg \in req[c].seen["codes"])
          /\ UNCHANGED sets /\ spent' = spent \cup ({req[c].arg} \cap I!AllCodes)
          /\ alive /\ alive' = alive
      BY <1>7 DEF I!MfaVerify, I!Seen, I!FactorOk, I!Spend, I!Arg, I!Doing, I!Reply
    <2>2. DOMAIN cols = {"codes"} /\ cols["codes"] = req[c].seen["codes"] \ {req[c].arg}
      BY DEF I!CodesLeft
    <2> HIDE DEF cols
    <2>3. /\ req[c].seen["totp"] = user["totp"] /\ req[c].seen["codes"] = user["codes"]
      BY <1>7 DEF FactorsCurrent, MfaCommits
    <2>4. user'["codes"] = user["codes"] \ {req[c].arg}
      BY <1>1, <2>1, <2>2, <2>3, Column DEF Columns
    <2>5. user["codes"] = I!CodesOf(sets) \ spent /\ sets >= 1 BY <1>2, <2>1, <2>3
    <2>6. user["codes"] \subseteq I!AllCodes BY <1>1 DEF I!Row
    <2>7. req[c].arg \in I!AllCodes => req[c].arg[1] = sets
      BY <2>1, <2>3, <2>5, TotpIsNoCode, CodeOfSet
    <2>8. \A x \in spent' : x[1] <= sets BY <1>1, <1>2, <2>1, <2>7
    <2>9. user'["codes"] = I!CodesOf(sets) \ spent'
      <3>1. CASE req[c].arg \in I!AllCodes BY <3>1, <2>1, <2>4, <2>5
      <3>2. CASE req[c].arg \notin I!AllCodes
        <4>1. user["codes"] \ {req[c].arg} = user["codes"] BY <2>6, <3>2
        <4>2. spent' = spent BY <2>1, <3>2
        <4> QED BY <2>4, <2>5, <4>1, <4>2
      <3> QED BY <3>1, <3>2
    <2>10. I!CodesOf(sets)' = I!CodesOf(sets) BY <2>1 DEF I!CodesOf
    <2> QED BY <2>1, <2>5, <2>8, <2>9, <2>10 DEF Shown, I!ShownCodesAreStored
  <1> QED BY <1>3, <1>4, <1>5, <1>6, <1>7, HandlersByFactor

LEMMA ShownStep ==
  ASSUME RowTyped, Crowd, Shown, \A c \in Clients : FactorsCurrent(c), [I!Next]_(I!vars)
  PROVE  Shown'
  <1>1. ASSUME NEW p \in Passwords, I!Register(p) PROVE Shown'
    <2>1. user' = I!Fresh(user.email, p, I!NextLink) /\ UNCHANGED <<sets, spent>>
      BY <1>1 DEF I!Register
    <2>2. ~user'.totp BY <2>1 DEF I!Fresh
    <2> QED BY <2>1, <2>2 DEF Shown, I!ShownCodesAreStored
  <1>2. ASSUME NEW c \in Clients, I!Handle(c) PROVE Shown'
    BY <1>2, HandlerShown
  <1>3. ASSUME UNCHANGED <<user, sets, spent>>, alive' => alive PROVE Shown'
    <2>1. I!CodesOf(sets)' = I!CodesOf(sets) BY <1>3 DEF I!CodesOf
    <2> QED BY <1>3, <2>1 DEF Shown, I!ShownCodesAreStored
  <1>4. ASSUME NEW c \in Clients, NEW op \in I!Ops, NEW arg \in I!ArgsOf(op), I!Begin(c, op, arg)
        PROVE  Shown'
    BY <1>3, <1>4 DEF I!Begin
  <1>5. CASE Elsewhere \/ UNCHANGED I!vars BY <1>3, <1>5, ElsewhereKeeps DEF I!vars
  <1>6. CASE I!HardDelete BY <1>3, <1>6 DEF I!HardDelete
  <1> QED BY <1>1, <1>2, <1>4, <1>5, <1>6 DEF I!Next, Elsewhere

LEMMA ShownStutters == Shown /\ UNCHANGED I!vars => Shown'
  <1> SUFFICES ASSUME Shown, UNCHANGED I!vars PROVE Shown'
    OBVIOUS
  <1>1. I!CodesOf(sets)' = I!CodesOf(sets) BY DEF I!vars, I!CodesOf
  <1> QED BY <1>1 DEF I!vars, Shown, I!ShownCodesAreStored

LEMMA ShownInit == I!Init => Shown
  BY DEF I!Init, I!Fresh, Shown, I!ShownCodesAreStored

(* The codes in the row, and in every copy of it, are of one set.             *)
OfOneSet(codes) == \E n \in 0 .. sets : codes \subseteq I!CodesOf(n)
OneSet ==
  /\ OfOneSet(user["codes"])
  /\ \A c \in Clients : Busy(c) => OfOneSet(req[c].seen["codes"])

(* What a handler leaves in the column is what was there, what its copy held, *)
(* nothing, or a set just handed out.                                          *)
LEMMA HandlerCodes ==
  ASSUME RowTyped, OneSet, NEW c \in Clients, I!Handle(c)
  PROVE  /\ sets' \in {sets, sets + 1}
         /\ \/ user'["codes"] \subseteq user["codes"]
            \/ Busy(c) /\ user'["codes"] \subseteq req[c].seen["codes"]
            \/ user'["codes"] \subseteq I!CodesOf(sets')
  <1>1. user \in I!Row BY DEF RowTyped, I!TypeOK
  <1>2. "codes" \in Columns BY DEF Columns
  <1>3. CASE NoFactor(c) BY <1>3, NoFactorKeepsCodes
  <1>4. CASE I!MfaSetup(c)
    <2> DEFINE cols == [secret |-> TRUE, codes |-> {}]
    <2>1. I!Reply(c, cols) /\ UNCHANGED sets BY <1>4 DEF I!MfaSetup
    <2>2. DOMAIN cols = {"secret", "codes"} /\ cols["codes"] = {} OBVIOUS
    <2> HIDE DEF cols
    <2> QED BY <1>1, <1>2, <2>1, <2>2, Column
  <1>5. CASE I!MfaEnable(c)
    <2> DEFINE cols == I!EnableColumns(sets')
    <2>1. I!Reply(c, cols) /\ sets' = sets + 1 BY <1>5 DEF I!MfaEnable
    <2>2. DOMAIN cols = {"totp", "codes"} /\ cols["codes"] = I!CodesOf(sets')
      BY DEF I!EnableColumns
    <2> HIDE DEF cols
    <2> QED BY <1>1, <1>2, <2>1, <2>2, Column
  <1>6. CASE I!MfaDisable(c)
    <2> DEFINE cols == [totp |-> FALSE, secret |-> FALSE, codes |-> {}]
    <2>1. I!Reply(c, cols) /\ UNCHANGED sets BY <1>6 DEF I!MfaDisable
    <2>2. DOMAIN cols = {"totp", "secret", "codes"} /\ cols["codes"] = {} OBVIOUS
    <2> HIDE DEF cols
    <2> QED BY <1>1, <1>2, <2>1, <2>2, Column
  <1>7. CASE I!MfaVerify(c)
    <2> DEFINE cols == [codes |-> I!CodesLeft(req[c].seen, req[c].arg)]
    <2>1. I!Reply(c, cols) /\ UNCHANGED sets /\ Busy(c)
      BY <1>7 DEF I!MfaVerify, I!Seen, I!Arg, I!Doing, Busy
    <2>2. DOMAIN cols = {"codes"} /\ cols["codes"] \subseteq req[c].seen["codes"]
      BY DEF I!CodesLeft
    <2> HIDE DEF cols
    <2> QED BY <1>1, <1>2, <2>1, <2>2, Column
  <1> QED BY <1>3, <1>4, <1>5, <1>6, <1>7, HandlersByFactor

LEMMA OneSetStep ==
  ASSUME RowTyped, OneSet, [I!Next]_(I!vars)
  PROVE  OneSet'
  <1>1. sets \in Nat BY IdentityAssumption DEF RowTyped, I!TypeOK
  <1>2. ASSUME sets' \in {sets, sets + 1}, OfOneSet(user["codes"])',
               \A d \in Clients : Busy(d)' =>
                 \/ Busy(d) /\ req'[d].seen = req[d].seen
                 \/ req'[d].seen = user
        PROVE  OneSet'
    <2>1. ASSUME NEW d \in Clients, Busy(d)' PROVE OfOneSet(req[d].seen["codes"])'
      <3>1. CASE Busy(d) /\ req'[d].seen = req[d].seen
        <4>1. OfOneSet(req[d].seen["codes"]) BY <3>1 DEF OneSet
        <4>2. PICK n \in 0 .. sets : req[d].seen["codes"] \subseteq I!CodesOf(n) BY <4>1 DEF OfOneSet
        <4>3. n \in 0 .. sets' BY <1>1, <1>2, <4>2
        <4> QED BY <3>1, <4>2, <4>3 DEF OfOneSet, I!CodesOf
      <3>2. CASE req'[d].seen = user
        <4>1. PICK n \in 0 .. sets : user["codes"] \subseteq I!CodesOf(n) BY DEF OneSet, OfOneSet
        <4>2. n \in 0 .. sets' BY <1>1, <1>2, <4>1
        <4> QED BY <3>2, <4>1, <4>2 DEF OfOneSet, I!CodesOf
      <3> QED BY <1>2, <2>1, <3>1, <3>2
    <2> QED BY <1>2, <2>1 DEF OneSet, OfOneSet, I!CodesOf
  <1>3. ASSUME UNCHANGED <<user, sets>>,
               \A d \in Clients : Busy(d)' =>
                 \/ Busy(d) /\ req'[d].seen = req[d].seen
                 \/ req'[d].seen = user
        PROVE  OneSet'
    <2>1. OfOneSet(user["codes"])' BY <1>3 DEF OneSet, OfOneSet, I!CodesOf
    <2> QED BY <1>2, <1>3, <2>1
  <1>4. ASSUME NEW p \in Passwords, I!Register(p) PROVE OneSet'
    <2>1. user' = I!Fresh(user.email, p, I!NextLink) /\ UNCHANGED <<sets, req>>
      BY <1>4 DEF I!Register
    <2>2. user'["codes"] = {} BY <2>1 DEF I!Fresh
    <2>3. OfOneSet(user["codes"])' BY <1>1, <2>1, <2>2 DEF OfOneSet
    <2> QED BY <1>2, <2>1, <2>3 DEF Busy
  <1>5. ASSUME NEW c \in Clients, I!Handle(c) PROVE OneSet'
    <2>1. /\ sets' \in {sets, sets + 1}
          /\ \/ user'["codes"] \subseteq user["codes"]
             \/ Busy(c) /\ user'["codes"] \subseteq req[c].seen["codes"]
             \/ user'["codes"] \subseteq I!CodesOf(sets')
      BY <1>5, HandlerCodes
    <2>2. \E n \in 0 .. sets' : user'["codes"] \subseteq I!CodesOf(n)
      <3>1. CASE user'["codes"] \subseteq user["codes"]
        <4>1. PICK n \in 0 .. sets : user["codes"] \subseteq I!CodesOf(n) BY DEF OneSet, OfOneSet
        <4>2. n \in 0 .. sets' BY <1>1, <2>1
        <4> QED BY <3>1, <4>1, <4>2
      <3>2. CASE Busy(c) /\ user'["codes"] \subseteq req[c].seen["codes"]
        <4>1. PICK n \in 0 .. sets : req[c].seen["codes"] \subseteq I!CodesOf(n)
          BY <3>2 DEF OneSet, OfOneSet
        <4>2. n \in 0 .. sets' BY <1>1, <2>1
        <4> QED BY <3>2, <4>1, <4>2
      <3>3. CASE user'["codes"] \subseteq I!CodesOf(sets')
        <4>1. sets' \in 0 .. sets' BY <1>1, <2>1
        <4> QED BY <3>3, <4>1
      <3> QED BY <2>1, <3>1, <3>2, <3>3
    <2>3. OfOneSet(user["codes"])' BY <2>2 DEF OfOneSet, I!CodesOf
    <2>4. req' = [req EXCEPT ![c] = I!Idle] BY <1>5, HandlersReply
    <2>5. \A d \in Clients : Busy(d)' => Busy(d) /\ req'[d] = req[d]
      BY <2>4 DEF Busy, RowTyped
    <2> QED BY <1>2, <2>1, <2>3, <2>5
  <1>6. ASSUME NEW c \in Clients, NEW op \in I!Ops, NEW arg \in I!ArgsOf(op), I!Begin(c, op, arg)
        PROVE  OneSet'
    <2>1. PICK r : r.seen = user /\ req' = [req EXCEPT ![c] = r] /\ UNCHANGED <<user, sets>>
      BY <1>6 DEF I!Begin
    <2>2. \A d \in Clients : Busy(d)' =>
                 \/ Busy(d) /\ req'[d].seen = req[d].seen
                 \/ req'[d].seen = user
      BY <2>1 DEF Busy, RowTyped
    <2> QED BY <1>3, <2>1, <2>2
  <1>7. CASE Elsewhere \/ UNCHANGED I!vars BY <1>3, <1>7, ElsewhereKeeps DEF I!vars, Busy
  <1>8. CASE I!HardDelete BY <1>3, <1>8 DEF I!HardDelete, Busy
  <1> QED BY <1>4, <1>5, <1>6, <1>7, <1>8 DEF I!Next, Elsewhere

LEMMA OneSetInit == I!Init => OneSet
  BY IdentityAssumption DEF I!Init, I!Fresh, OneSet, OfOneSet, Busy
-----------------------------------------------------------------------------
(* The lock-out.                                                             *)

Levels == 1 .. Threshold

LEMMA LevelIs ==
  ASSUME NEW f \in Nat
  PROVE  /\ Level(f) \in Levels
         /\ f + 1 < Threshold => Level(f) >= 2 /\ Level(f + 1) = Level(f) - 1
  BY IdentityAssumption DEF Level, Levels

LEMMA Squares ==
  ASSUME NEW x \in Nat, NEW y \in Nat, x <= y
  PROVE  x * x <= y * y
  <1>1. PICK d \in Nat : y = x + d
    <2>1. y - x \in Nat /\ y = x + (y - x) OBVIOUS
    <2> QED BY <2>1
  <1>2. y * y = x * x + 2 * (x * d) + d * d BY <1>1
  <1>3. x * d \in Nat /\ d * d \in Nat /\ x * x \in Nat OBVIOUS
  <1> QED BY <1>2, <1>3

(* x (x - 1) grows with x.                                                   *)
LEMMA Pronic ==
  ASSUME NEW x \in Nat \ {0}, NEW y \in Nat \ {0}, x <= y
  PROVE  x * x - x <= y * y - y
  <1>1. PICK d \in Nat : y = x + d
    <2>1. y - x \in Nat /\ y = x + (y - x) OBVIOUS
    <2> QED BY <2>1
  <1>2. CASE d = 0 BY <1>1, <1>2
  <1>3. CASE d # 0
    <2>1. y * y = x * x + 2 * (x * d) + d * d BY <1>1
    <2>2. x * d >= d
      <3>1. PICK e \in Nat : x = e + 1
        <4>1. x - 1 \in Nat /\ x = (x - 1) + 1 OBVIOUS
        <4> QED BY <4>1
      <3>2. x * d = e * d + d BY <3>1
      <3>3. e * d \in Nat OBVIOUS
      <3> QED BY <3>2, <3>3
    <2>3. d * d \in Nat /\ x * d \in Nat /\ x * x \in Nat /\ y * y \in Nat OBVIOUS
    <2> QED BY <1>1, <2>1, <2>2, <2>3
  <1> QED BY <1>2, <1>3

LEMMA HeldSwaps ==
  ASSUME NEW w \in Nat, NEW x \in Levels, NEW y \in Levels, Held(w, x, y)
  PROVE  Held(w, y, x)
  <1>1. Upper(x, y) = Upper(y, x) /\ Lower(x, y) = Lower(y, x)
    BY IdentityAssumption DEF Upper, Lower, Levels
  <1> QED BY <1>1 DEF Held

LEMMA HeldAtZero ==
  ASSUME NEW x \in Levels, NEW y \in Levels
  PROVE  Held(0, x, y)
  <1> DEFINE u == Upper(x, y)
             v == Lower(x, y)
  <1>1. u \in Nat /\ v \in Nat /\ v <= u /\ u <= Threshold /\ Threshold \in Nat
    BY IdentityAssumption DEF Upper, Lower, Levels
  <1>2. 2 * 0 + 2 * v + u * u - u <= Threshold * Threshold + Threshold
    <2> HIDE DEF u, v
    <2>1. u * u <= Threshold * Threshold BY <1>1, Squares
    <2>2. u * u \in Nat /\ Threshold * Threshold \in Nat BY <1>1
    <2> QED BY <1>1, <2>1, <2>2
  <1> QED BY <1>2 DEF Held

LEMMA HeldBounds ==
  ASSUME NEW w \in Nat, NEW x \in Levels, NEW y \in Levels, Held(w, x, y)
  PROVE  2 * w + 2 <= Threshold * Threshold + Threshold
  <1> DEFINE u == Upper(x, y)
             v == Lower(x, y)
  <1>1. u \in Nat \ {0} /\ v \in Nat \ {0} BY IdentityAssumption DEF Upper, Lower, Levels
  <1>2. 2 * w + 2 * v + u * u - u <= Threshold * Threshold + Threshold BY DEF Held
  <1>3. Threshold * Threshold + Threshold \in Nat BY IdentityAssumption
  <1> HIDE DEF u, v
  <1>4. 1 * 1 - 1 <= u * u - u BY <1>1, Pronic
  <1>5. u * u \in Nat BY <1>1
  <1> QED BY <1>1, <1>2, <1>3, <1>4, <1>5

(* A failure of the request at level x, which goes on at x - 1.              *)
LEMMA HeldFails ==
  ASSUME NEW w \in Nat, NEW x \in Levels, NEW y \in Levels, Held(w, x, y), x >= 2
  PROVE  Held(w + 1, x - 1, y) /\ Held(w + 1, x - 1, x - 1) /\ x - 1 \in Levels
  <1> DEFINE S == Threshold * Threshold + Threshold
  <1>1. S \in Nat /\ Threshold \in Nat BY IdentityAssumption
  <1>2. x \in Nat \ {0} /\ y \in Nat \ {0} /\ x - 1 \in Nat \ {0} /\ x * x \in Nat /\ y * y \in Nat
    BY <1>1 DEF Levels
  <1>3. (x - 1) * (x - 1) = x * x - 2 * x + 1 BY <1>2
  <1>4. x - 1 \in Levels BY <1>1 DEF Levels
  <1>5. CASE x > y
    <2>1. 2 * w + 2 * y + x * x - x <= S BY <1>2, <1>5 DEF Held, Upper, Lower
    <2>2. 2 * (w + 1) + 2 * y + (x - 1) * (x - 1) - (x - 1) <= S
      <3> HIDE DEF S
      <3> QED BY <1>1, <1>2, <1>3, <2>1
    <2>3. 2 * (w + 1) + 2 * (x - 1) + (x - 1) * (x - 1) - (x - 1) <= S
      <3> HIDE DEF S
      <3> QED BY <1>1, <1>2, <1>3, <2>1
    <2>4. Upper(x - 1, y) = x - 1 /\ Lower(x - 1, y) = y BY <1>2, <1>5 DEF Upper, Lower
    <2>5. Upper(x - 1, x - 1) = x - 1 /\ Lower(x - 1, x - 1) = x - 1 BY <1>2 DEF Upper, Lower
    <2> QED BY <1>4, <2>2, <2>3, <2>4, <2>5 DEF Held
  <1>6. CASE x <= y
    <2>1. 2 * w + 2 * x + y * y - y <= S
      <3>1. Upper(x, y) = y /\ Lower(x, y) = x BY <1>2, <1>6 DEF Upper, Lower
      <3> QED BY <3>1 DEF Held
    <2>2. 2 * (w + 1) + 2 * (x - 1) + y * y - y <= S
      <3> HIDE DEF S
      <3> QED BY <1>1, <1>2, <2>1
    <2>3. x * x - x <= y * y - y BY <1>2, <1>6, Pronic
    <2>4. 2 * (w + 1) + 2 * (x - 1) + (x - 1) * (x - 1) - (x - 1) <= S
      <3> HIDE DEF S
      <3> QED BY <1>1, <1>2, <1>3, <2>1, <2>3
    <2>5. Upper(x - 1, y) = y /\ Lower(x - 1, y) = x - 1 BY <1>2, <1>6 DEF Upper, Lower
    <2>6. Upper(x - 1, x - 1) = x - 1 /\ Lower(x - 1, x - 1) = x - 1 BY <1>2 DEF Upper, Lower
    <2> QED BY <1>4, <2>2, <2>4, <2>5, <2>6 DEF Held
  <1> QED BY <1>2, <1>5, <1>6
TwoLoginsAtMost == \A g \in Groups : "login" \in g.ops => g.overlap <= 2

(* The counter a request has read, and the one in the row.                   *)
LEMMA Counters ==
  ASSUME RowTyped
  PROVE  /\ user.failed \in Nat /\ wrong \in Nat
         /\ \A c \in Clients : Busy(c) => req[c].seen.failed \in Nat
  BY DEF RowTyped, I!TypeOK, I!Row, Holds

(* With no failure on the books every counter leaves room.                   *)
LEMMA NoneWrong ==
  ASSUME RowTyped', wrong' = 0
  PROVE  Lockout'
  <1>1. \A a, b \in Nat : Room(0, a, b) BY LevelIs, HeldAtZero DEF Room
  <1>2. /\ user'.failed \in Nat
        /\ \A c \in Clients : Busy(c)' => req'[c].seen.failed \in Nat
    BY DEF RowTyped, I!TypeOK, I!Row, Holds, Busy
  <1>3. \A c \in Clients : Wronging(c)' => req'[c].seen.failed \in Nat
    BY <1>2 DEF Wronging
  <1>4. 2 * 0 + 2 <= Threshold * Threshold + Threshold
    <2>1. 1 * 1 <= Threshold * Threshold BY IdentityAssumption, Squares
    <2>2. Threshold * Threshold \in Nat BY IdentityAssumption
    <2> QED BY <2>1, <2>2, IdentityAssumption
  <1>5. \A a, b \in Nat : Room(wrong', a, b) BY <1>1
  <1>6. \A a, b \in Nat : Room(wrong, a, b)' BY <1>5 DEF Room, Held
  <1>7. \A c, d \in Clients : Wronging(c)' /\ Wronging(d)' /\ c # d =>
          Room(wrong, req[c].seen.failed, req[d].seen.failed)'
    BY <1>3, <1>5 DEF Room, Held
  <1>8. \A c \in Clients : Wronging(c)' => Room(wrong, user.failed, req[c].seen.failed)'
    BY <1>2, <1>3, <1>5 DEF Room, Held
  <1>9. Room(wrong, user.failed, user.failed)' BY <1>2, <1>5 DEF Room, Held
  <1> QED BY <1>4, <1>7, <1>8, <1>9 DEF Lockout

NoLogin(c) ==
  \/ Refusing(c) \/ I!VerifyEmail(c) \/ I!ResendVerification(c)
  \/ I!ForgotPassword(c) \/ I!ChangePassword(c)
  \/ I!RequestEmailChange(c) \/ I!ConfirmEmailChange(c) \/ I!SetConsent(c) \/ I!DeleteMe(c)
  \/ I!MfaSetup(c) \/ I!MfaEnable(c) \/ I!MfaDisable(c) \/ I!MfaVerify(c)

LEMMA HandlersByLogin ==
  ASSUME NEW c \in Clients, I!Handle(c)
  PROVE  NoLogin(c) \/ I!LoginWrong(c) \/ I!Login(c) \/ I!ResetPassword(c)
  BY DEF I!Handle, NoLogin, Refusing

LEMMA NoLoginKeepsCounter ==
  ASSUME RowTyped, NEW c \in Clients, NoLogin(c)
  PROVE  /\ user'["failed"] = user["failed"] /\ ~Wronging(c)
         /\ UNCHANGED <<alive, wrong, group>> /\ req' = [req EXCEPT ![c] = I!Idle] /\ alive
  <1>1. user \in I!Row BY DEF RowTyped, I!TypeOK
  <1>2. ASSUME NEW cols, I!Reply(c, cols), "failed" \notin DOMAIN cols
        PROVE  /\ user'["failed"] = user["failed"]
               /\ UNCHANGED <<alive, group>> /\ req' = [req EXCEPT ![c] = I!Idle]
    <2>1. \A k \in Columns : k \notin DOMAIN cols => user'[k] = user[k] BY <1>1, <1>2, Column
    <2>2. "failed" \in Columns BY DEF Columns
    <2> QED BY <1>2, <2>1, <2>2 DEF I!Reply
  <1>3. CASE Refusing(c)
    <2>1. user' = user BY <1>1, <1>3, RefusingRefuses, RefusalKeepsRow
    <2>2. ~Wronging(c) /\ alive
      <3>1. CASE I!LoginLocked(c)
        <4>1. alive /\ Busy(c) /\ Holds(req[c]) /\ req[c].seen.locked > req[c].at
          BY <3>1 DEF I!LoginLocked, I!Doing, I!Seen, Busy, RowTyped
        <4>2. req[c].seen.locked \in I!Times /\ req[c].at \in Nat BY <4>1 DEF Holds, I!Row
        <4>3. req[c].seen.locked \in Nat BY <4>2 DEF I!Times
        <4> QED BY <4>1, <4>2, <4>3 DEF Wronging
      <3>2. CASE I!LoginUnverified(c)
        BY <3>2 DEF I!LoginUnverified, I!RightPassword, I!Doing, I!Seen, I!Arg, Wronging
      <3>3. CASE ~I!LoginLocked(c) /\ ~I!LoginUnverified(c)
        <4>1. \E op : op # "login" /\ I!Doing(c, op)
          BY <1>3, <3>3 DEF Refusing, I!VerifyRefused, I!ResendIgnored, I!ForgotIgnored,
             I!ResetRefused, I!ChangeRefused, I!RequestRefused, I!ConfirmTaken,
             I!ConfirmRefused, I!MfaRefused
        <4> QED BY <4>1 DEF I!Doing, Wronging
      <3> QED BY <3>1, <3>2, <3>3
    <2> QED BY <1>3, <2>1, <2>2, RefusingRefuses DEF I!Refuse, I!Reply
  <1>4. CASE I!VerifyEmail(c)
    <2> DEFINE cols == [verified |-> TRUE, verify |-> I!Never, verifyEnd |-> I!Never]
    <2>1. I!Reply(c, cols) /\ UNCHANGED wrong BY <1>4 DEF I!VerifyEmail
    <2>2. DOMAIN cols = {"verified", "verify", "verifyEnd"} OBVIOUS
    <2> HIDE DEF cols
    <2>3. ~Wronging(c) /\ alive BY <1>4 DEF I!VerifyEmail, I!Doing, Wronging
    <2> QED BY <2>1, <2>2, <2>3, <1>2
  <1>5. CASE I!ResendVerification(c)
    <2> DEFINE cols == [verify |-> I!NextLink, verifyEnd |-> req[c].at + LinkTime]
    <2>1. I!Reply(c, cols) /\ UNCHANGED wrong BY <1>5 DEF I!ResendVerification
    <2>2. DOMAIN cols = {"verify", "verifyEnd"} OBVIOUS
    <2> HIDE DEF cols
    <2>3. ~Wronging(c) /\ alive BY <1>5 DEF I!ResendVerification, I!Doing, Wronging
    <2> QED BY <2>1, <2>2, <2>3, <1>2
  <1>6. CASE I!ForgotPassword(c)
    <2> DEFINE cols == [reset |-> I!NextLink, resetEnd |-> req[c].at + LinkTime]
    <2>1. I!Reply(c, cols) /\ UNCHANGED wrong BY <1>6 DEF I!ForgotPassword
    <2>2. DOMAIN cols = {"reset", "resetEnd"} OBVIOUS
    <2> HIDE DEF cols
    <2>3. ~Wronging(c) /\ alive BY <1>6 DEF I!ForgotPassword, I!Doing, Wronging
    <2> QED BY <2>1, <2>2, <2>3, <1>2
  <1>7. CASE I!ChangePassword(c)
    <2> DEFINE cols == [password |-> I!Arg(c)[2]]
    <2>1. I!Reply(c, cols) /\ UNCHANGED wrong BY <1>7 DEF I!ChangePassword
    <2>2. DOMAIN cols = {"password"} OBVIOUS
    <2> HIDE DEF cols
    <2>3. ~Wronging(c) /\ alive BY <1>7 DEF I!ChangePassword, I!Doing, Wronging
    <2> QED BY <2>1, <2>2, <2>3, <1>2
  <1>8. CASE I!RequestEmailChange(c)
    <2> DEFINE cols == [newEmail |-> I!Arg(c), change |-> I!NextLink,
                        changeEnd |-> req[c].at + LinkTime]
    <2>1. I!Reply(c, cols) /\ UNCHANGED wrong BY <1>8 DEF I!RequestEmailChange
    <2>2. DOMAIN cols = {"newEmail", "change", "changeEnd"} OBVIOUS
    <2> HIDE DEF cols
    <2>3. ~Wronging(c) /\ alive BY <1>8 DEF I!RequestEmailChange, I!Doing, Wronging
    <2> QED BY <2>1, <2>2, <2>3, <1>2
  <1>9. CASE I!ConfirmEmailChange(c)
    <2> DEFINE cols == I!ChangeColumns(I!Seen(c))
    <2>1. I!Reply(c, cols) /\ UNCHANGED wrong BY <1>9 DEF I!ConfirmEmailChange
    <2>2. DOMAIN cols = {"email", "newEmail", "change", "changeEnd"} BY DEF I!ChangeColumns
    <2> HIDE DEF cols
    <2>3. ~Wronging(c) /\ alive BY <1>9 DEF I!ConfirmEmailChange, I!Doing, Wronging
    <2> QED BY <2>1, <2>2, <2>3, <1>2
  <1>10. CASE I!SetConsent(c)
    <2> DEFINE cols == [consent |-> I!Arg(c)]
    <2>1. I!Reply(c, cols) /\ UNCHANGED wrong BY <1>10 DEF I!SetConsent
    <2>2. DOMAIN cols = {"consent"} OBVIOUS
    <2> HIDE DEF cols
    <2>3. ~Wronging(c) /\ alive BY <1>10 DEF I!SetConsent, I!Doing, Wronging
    <2> QED BY <2>1, <2>2, <2>3, <1>2
  <1>11. CASE I!DeleteMe(c)
    <2> DEFINE cols == [deleted |-> req[c].at]
    <2>1. I!Reply(c, cols) /\ UNCHANGED wrong BY <1>11 DEF I!DeleteMe
    <2>2. DOMAIN cols = {"deleted"} OBVIOUS
    <2> HIDE DEF cols
    <2>3. ~Wronging(c) /\ alive BY <1>11 DEF I!DeleteMe, I!Doing, Wronging
    <2> QED BY <2>1, <2>2, <2>3, <1>2
  <1>12. CASE I!MfaSetup(c)
    <2> DEFINE cols == [secret |-> TRUE, codes |-> {}]
    <2>1. I!Reply(c, cols) /\ UNCHANGED wrong BY <1>12 DEF I!MfaSetup
    <2>2. DOMAIN cols = {"secret", "codes"} OBVIOUS
    <2> HIDE DEF cols
    <2>3. ~Wronging(c) /\ alive BY <1>12 DEF I!MfaSetup, I!Doing, Wronging
    <2> QED BY <2>1, <2>2, <2>3, <1>2
  <1>13. CASE I!MfaEnable(c)
    <2>1. I!Reply(c, I!EnableColumns(sets')) /\ UNCHANGED wrong BY <1>13 DEF I!MfaEnable
    <2>2. DOMAIN I!EnableColumns(sets') = {"totp", "codes"} BY DEF I!EnableColumns
    <2>3. ~Wronging(c) /\ alive BY <1>13 DEF I!MfaEnable, I!Doing, Wronging
    <2> QED BY <2>1, <2>2, <2>3, <1>2
  <1>14. CASE I!MfaDisable(c)
    <2> DEFINE cols == [totp |-> FALSE, secret |-> FALSE, codes |-> {}]
    <2>1. I!Reply(c, cols) /\ UNCHANGED wrong BY <1>14 DEF I!MfaDisable
    <2>2. DOMAIN cols = {"totp", "secret", "codes"} OBVIOUS
    <2> HIDE DEF cols
    <2>3. ~Wronging(c) /\ alive BY <1>14 DEF I!MfaDisable, I!Doing, Wronging
    <2> QED BY <2>1, <2>2, <2>3, <1>2
  <1>15. CASE I!MfaVerify(c)
    <2> DEFINE cols == [codes |-> I!CodesLeft(I!Seen(c), I!Arg(c))]
    <2>1. I!Reply(c, cols) /\ UNCHANGED wrong BY <1>15 DEF I!MfaVerify
    <2>2. DOMAIN cols = {"codes"} OBVIOUS
    <2> HIDE DEF cols
    <2>3. ~Wronging(c) /\ alive BY <1>15 DEF I!MfaVerify, I!Doing, Wronging
    <2> QED BY <2>1, <2>2, <2>3, <1>2
  <1> QED
    BY <1>3, <1>4, <1>5, <1>6, <1>7, <1>8, <1>9, <1>10, <1>11, <1>12, <1>13, <1>14, <1>15
    DEF NoLogin

(* A wrong password: the lock, which clears the count, or one failure more.  *)
LEMMA WrongLockout ==
  ASSUME TwoLoginsAtMost, RowTyped, RowTyped', Crowd, Lockout,
         NEW c \in Clients, I!LoginWrong(c)
  PROVE  Lockout'
  <1>1. user \in I!Row BY DEF RowTyped, I!TypeOK
  <1> DEFINE f == req[c].seen.failed
             cols == I!WrongColumns(I!Seen(c), req[c].at)
  <1>2. /\ I!Reply(c, cols) /\ Wronging(c) /\ Busy(c) /\ alive /\ Holds(req[c])
        /\ wrong' = IF "locked" \in DOMAIN cols THEN 0 ELSE wrong + 1
    BY DEF I!LoginWrong, I!Doing, I!Seen, I!Arg, Wronging, Busy, RowTyped
  <1>3. group \in Groups /\ group.overlap <= 2
    BY <1>2 DEF RowTyped, Holds, Wronging, TwoLoginsAtMost
  <1>4. f \in Nat /\ user.failed \in Nat /\ wrong \in Nat BY <1>2, Counters
  <1>5. CASE f + 1 >= Threshold
    <2>1. "locked" \in DOMAIN cols BY <1>5 DEF I!WrongColumns, I!Seen
    <2>2. wrong' = 0 BY <1>2, <2>1
    <2> QED BY <2>2, NoneWrong
  <1>6. CASE ~(f + 1 >= Threshold)
    <2>1. f + 1 < Threshold BY <1>4, <1>6, IdentityAssumption
    <2>2. cols = [failed |-> f + 1] BY <1>6 DEF I!WrongColumns, I!Seen
    <2>3. wrong' = wrong + 1 BY <1>2, <2>2
    <2>4. DOMAIN cols = {"failed"} /\ cols["failed"] = f + 1 BY <2>2
    <2> HIDE DEF cols
    <2>5. user'["failed"] = f + 1 BY <1>1, <1>2, <1>4, <2>4, Column DEF Columns
    <2>6. req' = [req EXCEPT ![c] = I!Idle] /\ UNCHANGED <<alive, group>>
      BY <1>2 DEF I!Reply
    <2>7. \A d \in Clients : Wronging(d)' <=> Wronging(d) /\ d # c
      BY <2>6 DEF Wronging, Busy, RowTyped
    <2>8. \A d \in Clients : d # c => req'[d] = req[d] BY <2>6
    <2>9. Level(f) \in Levels /\ Level(f) >= 2 /\ Level(f + 1) = Level(f) - 1
      BY <1>4, <2>1, LevelIs
    <2>10. \A d, e \in Clients : Wronging(d)' /\ Wronging(e)' => d = e
      BY <1>2, <1>3, <2>7 DEF Crowd, Wronging
    <2> HIDE DEF f
    <2>11. ASSUME NEW d \in Clients, Wronging(d)'
           PROVE  /\ Held(wrong + 1, Level(f + 1), Level(req[d].seen.failed))
                  /\ 2 * (wrong + 1) + 2 <= Threshold * Threshold + Threshold
      <3>1. Wronging(d) /\ d # c BY <2>7, <2>11
      <3>2. Room(wrong, f, req[d].seen.failed) BY <1>2, <3>1 DEF Lockout, f
      <3>3. req[d].seen.failed \in Nat BY <3>1, Counters DEF Wronging
      <3>4. Level(req[d].seen.failed) \in Levels BY <3>3, LevelIs
      <3>5. /\ Held(wrong + 1, Level(f) - 1, Level(req[d].seen.failed))
            /\ Level(f) - 1 \in Levels
        BY <1>4, <2>9, <3>2, <3>4, HeldFails DEF Room
      <3>6. wrong + 1 \in Nat BY <1>4
      <3>7. 2 * (wrong + 1) + 2 <= Threshold * Threshold + Threshold
        BY <3>4, <3>5, <3>6, HeldBounds
      <3> QED BY <2>9, <3>5, <3>7
    <2>12. ASSUME \A d \in Clients : ~Wronging(d)'
           PROVE  /\ Held(wrong + 1, Level(f + 1), Level(f + 1))
                  /\ 2 * (wrong + 1) + 2 <= Threshold * Threshold + Threshold
      <3>1. \A d \in Clients : Wronging(d) => d = c BY <2>7, <2>12
      <3>2. Room(wrong, user.failed, f) BY <1>2, <3>1 DEF Lockout, f
      <3>3. Level(user.failed) \in Levels BY <1>4, LevelIs
      <3>4. Held(wrong, Level(f), Level(user.failed))
        BY <1>4, <2>9, <3>2, <3>3, HeldSwaps DEF Room
      <3>5. /\ Held(wrong + 1, Level(f) - 1, Level(f) - 1) /\ Level(f) - 1 \in Levels
        BY <1>4, <2>9, <3>3, <3>4, HeldFails
      <3>6. wrong + 1 \in Nat BY <1>4
      <3>7. 2 * (wrong + 1) + 2 <= Threshold * Threshold + Threshold
        BY <3>5, <3>6, HeldBounds
      <3> QED BY <2>9, <3>5, <3>7
    <2>13. 2 * wrong' + 2 <= Threshold * Threshold + Threshold
      BY <2>3, <2>11, <2>12
    <2>14. "login" \in group'.ops BY <1>2, <2>6 DEF Wronging, Holds
    <2>15. ASSUME NEW d \in Clients, Wronging(d)'
           PROVE  Room(wrong, user.failed, req[d].seen.failed)'
      <3>1. Held(wrong + 1, Level(f + 1), Level(req[d].seen.failed)) BY <2>11, <2>15
      <3>2. req'[d] = req[d] BY <2>7, <2>8, <2>15
      <3> QED BY <2>3, <2>5, <3>1, <3>2 DEF Room, Held, Level
    <2>16. (\A d \in Clients : ~Wronging(d)') => Room(wrong, user.failed, user.failed)'
      <3> SUFFICES ASSUME \A d \in Clients : ~Wronging(d)'
                   PROVE  Room(wrong, user.failed, user.failed)'
        OBVIOUS
      <3>1. Held(wrong + 1, Level(f + 1), Level(f + 1)) BY <2>12
      <3> QED BY <2>3, <2>5, <3>1 DEF Room, Held, Level
    <2>17. alive' BY <1>2, <2>6
    <2>18. \A d, e \in Clients : Wronging(d)' /\ Wronging(e)' /\ d # e =>
             Room(wrong, req[d].seen.failed, req[e].seen.failed)'
      BY <2>10
    <2> QED BY <2>13, <2>14, <2>15, <2>16, <2>17, <2>18 DEF Lockout
  <1> QED BY <1>5, <1>6

LEMMA HandlerLockout ==
  ASSUME TwoLoginsAtMost, RowTyped, RowTyped', Crowd, Lockout, NEW c \in Clients, I!Handle(c)
  PROVE  Lockout'
  <1>1. CASE I!LoginWrong(c) BY <1>1, WrongLockout
  <1>2. CASE I!Login(c) \/ I!ResetPassword(c)
    BY <1>2, NoneWrong DEF I!Login, I!ResetPassword
  <1>3. CASE NoLogin(c)
    <2>1. /\ user'["failed"] = user["failed"] /\ ~Wronging(c)
          /\ UNCHANGED <<alive, wrong, group>> /\ req' = [req EXCEPT ![c] = I!Idle] /\ alive
      BY <1>3, NoLoginKeepsCounter
    <2>2. \A d \in Clients : Wronging(d)' <=> Wronging(d)
      BY <2>1 DEF Wronging, Busy, RowTyped
    <2>3. \A d \in Clients : Wronging(d) => req'[d] = req[d] BY <2>1
    <2> QED BY <2>1, <2>2, <2>3 DEF Lockout, Room, Held, Level
  <1> QED BY <1>1, <1>2, <1>3, HandlersByLogin

LEMMA BeginLockout ==
  ASSUME TwoLoginsAtMost, RowTyped, RowTyped', Crowd, Lockout,
         NEW c \in Clients, NEW op, NEW arg, I!Begin(c, op, arg)
  PROVE  Lockout'
  <1>1. PICK r : r = [op |-> op, arg |-> arg, seen |-> user, at |-> now, began |-> honoured]
    OBVIOUS
  <1>2. /\ req' = [req EXCEPT ![c] = r] /\ alive /\ op \in group.ops
        /\ UNCHANGED <<alive, user, wrong, group>>
    BY <1>1 DEF I!Begin, I!Offered
  <1>3. CASE "login" \notin group.ops
    BY <1>2, <1>3, NoneWrong DEF Lockout
  <1>4. CASE "login" \in group.ops
    <2>1. group \in Groups /\ group.overlap <= 2 BY <1>4 DEF RowTyped, TwoLoginsAtMost
    <2>2. ~Busy(c) /\ \A d, e \in Clients : Busy(d) /\ Busy(e) => d = e
      BY <2>1, BeginsInTheCrowd
    <2>3. req'[c] = r /\ r.seen = user /\ \A d \in Clients : d # c => req'[d] = req[d]
      BY <1>1, <1>2 DEF RowTyped
    <2>4. \A d \in Clients : d # c => (Wronging(d)' <=> Wronging(d))
      BY <2>3 DEF Wronging, Busy
    <2>5. ~Wronging(c) BY <2>2 DEF Wronging
    <2>6. user.failed \in Nat /\ wrong \in Nat
          /\ \A d \in Clients : Wronging(d) => req[d].seen.failed \in Nat
      BY Counters DEF Wronging
    <2>7. \A d \in Clients : Wronging(d) => Room(wrong, user.failed, req[d].seen.failed)
      BY <1>2, <2>2 DEF Lockout, Wronging
    <2>8. \A d \in Clients : Wronging(d) => Room(wrong, req[d].seen.failed, user.failed)
      BY <2>6, <2>7, LevelIs, HeldSwaps DEF Room
    <2>9. (\A d \in Clients : ~Wronging(d)) => Room(wrong, user.failed, user.failed)
      BY <1>2 DEF Lockout
    <2>10. \A d, e \in Clients : Wronging(d)' /\ Wronging(e)' /\ d # e =>
             Room(wrong, req[d].seen.failed, req[e].seen.failed)'
      <3> SUFFICES ASSUME NEW d \in Clients, NEW e \in Clients, Wronging(d)', Wronging(e)', d # e
                   PROVE  Room(wrong', req'[d].seen.failed, req'[e].seen.failed)
        BY DEF Room, Held, Level
      <3>1. CASE d = c
        <4>1. Wronging(e) /\ req'[e] = req[e] BY <3>1, <2>3, <2>4
        <4> QED BY <1>2, <2>3, <2>7, <3>1, <4>1
      <3>2. CASE e = c
        <4>1. Wronging(d) /\ req'[d] = req[d] BY <3>2, <2>3, <2>4
        <4> QED BY <1>2, <2>3, <2>8, <3>2, <4>1
      <3>3. CASE d # c /\ e # c
        <4>1. Wronging(d) /\ Wronging(e) BY <3>3, <2>4
        <4> QED BY <4>1, <2>2 DEF Wronging
      <3> QED BY <3>1, <3>2, <3>3
    <2>11. \A d \in Clients : Wronging(d)' /\ (\A e \in Clients : Wronging(e)' => e = d) =>
             Room(wrong, user.failed, req[d].seen.failed)'
      <3> SUFFICES ASSUME NEW d \in Clients, Wronging(d)',
                          \A e \in Clients : Wronging(e)' => e = d
                   PROVE  Room(wrong', user'.failed, req'[d].seen.failed)
        BY DEF Room, Held, Level
      <3>1. CASE d = c
        <4>1. \A e \in Clients : ~Wronging(e) BY <3>1, <2>4, <2>5
        <4> QED BY <1>2, <2>3, <2>9, <3>1, <4>1
      <3>2. CASE d # c
        <4>1. Wronging(d) /\ req'[d] = req[d] BY <3>2, <2>3, <2>4
        <4> QED BY <1>2, <2>7, <4>1
      <3> QED BY <3>1, <3>2
    <2>12. (\A d \in Clients : ~Wronging(d)') => Room(wrong, user.failed, user.failed)'
      <3> SUFFICES ASSUME \A d \in Clients : ~Wronging(d)'
                   PROVE  Room(wrong', user'.failed, user'.failed)
        BY DEF Room, Held, Level
      <3>1. \A d \in Clients : ~Wronging(d) BY <2>4, <2>5
      <3> QED BY <1>2, <2>9, <3>1
    <2>13. 2 * wrong' + 2 <= Threshold * Threshold + Threshold BY <1>2 DEF Lockout
    <2> QED BY <1>2, <1>4, <2>10, <2>11, <2>12, <2>13 DEF Lockout
  <1> QED BY <1>3, <1>4

LEMMA LockoutStep ==
  ASSUME TwoLoginsAtMost, RowTyped, RowTyped', Crowd, Lockout, [I!Next]_(I!vars)
  PROVE  Lockout'
  <1>1. ASSUME NEW p \in Passwords, I!Register(p) PROVE Lockout'
    <2>1. wrong' = 0 BY <1>1 DEF I!Register, Lockout, I!Never
    <2> QED BY <2>1, NoneWrong
  <1>2. ASSUME NEW c \in Clients, I!Handle(c) PROVE Lockout'
    BY <1>2, HandlerLockout
  <1>3. ASSUME NEW c \in Clients, NEW op \in I!Ops, NEW arg \in I!ArgsOf(op), I!Begin(c, op, arg)
        PROVE  Lockout'
    BY <1>3, BeginLockout
  <1>4. CASE Elsewhere \/ UNCHANGED I!vars
    <2>1. UNCHANGED <<alive, user, req, group, wrong>> BY <1>4, ElsewhereKeeps DEF I!vars
    <2> QED BY <2>1 DEF Lockout, Room, Held, Level, Wronging, Busy
  <1>5. CASE I!HardDelete
    <2>1. ~alive' /\ user.deleted # I!Never /\ UNCHANGED <<user, group, wrong>>
      BY <1>5 DEF I!HardDelete
    <2> QED BY <2>1 DEF Lockout
  <1> QED BY <1>1, <1>2, <1>3, <1>4, <1>5 DEF I!Next, Elsewhere

LEMMA LockoutInit == I!Init /\ RowTyped => Lockout
  <1> SUFFICES ASSUME I!Init PROVE Lockout
    OBVIOUS
  <1>1. wrong = 0 /\ ~alive BY DEF I!Init
  <1>2. 1 * 1 <= Threshold * Threshold /\ Threshold * Threshold \in Nat
    BY IdentityAssumption, Squares
  <1>3. 2 * 0 + 2 <= Threshold * Threshold + Threshold BY <1>2, IdentityAssumption
  <1> QED BY <1>1, <1>3 DEF Lockout

LEMMA LockoutBounds ==
  ASSUME RowTyped, Lockout
  PROVE  I!LockoutHolds
  <1>1. PICK X \in Nat : X = Threshold * (Threshold + 1) BY IdentityAssumption
  <1>2. X = Threshold * Threshold + Threshold BY <1>1, IdentityAssumption
  <1>3. 2 * wrong + 2 <= X /\ wrong \in Nat BY <1>2, Counters DEF Lockout
  <1>4. wrong < X \div 2 BY <1>3
  <1> QED BY <1>1, <1>4 DEF I!LockoutHolds

-----------------------------------------------------------------------------
(* Each by itself, and the two together: a behaviour is one of the row and   *)
(* one of the tokens, of which one stutters.                                 *)

RowInv == RowTyped /\ Crowd /\ Unspent /\ Addressed

LEMMA RowSafe == I!Spec => []RowInv
  <1>1. I!Init => RowInv BY RowInit, LinksInit DEF RowInv
  <1>2. RowInv /\ [I!Next]_(I!vars) => RowInv'
    BY RowStep, UnspentStep, AddressedStep DEF RowInv
  <1> QED BY <1>1, <1>2, PTL DEF I!Spec

LEMMA BothStart == MCInit => Init /\ I!Init
  BY DEF MCInit

LEMMA BothStep == [MCNext]_<<identityVars, vars>> => [I!Next]_(I!vars) /\ [Next]_vars
  <1> SUFFICES ASSUME [MCNext]_<<identityVars, vars>>
               PROVE  [I!Next]_(I!vars) /\ [Next]_vars
    OBVIOUS
  <1> DEFINE RowMoves == I!Next /\ UNCHANGED vars
             TokensMove == Next /\ UNCHANGED identityVars
  <1>1. RowMoves \/ TokensMove \/ UNCHANGED <<identityVars, vars>> BY DEF MCNext
  <1>2. I!vars = identityVars /\ I!vars' = identityVars' BY DEF I!vars, identityVars
  <1>3. UNCHANGED <<identityVars, vars>> => UNCHANGED identityVars /\ UNCHANGED vars OBVIOUS
  <1> QED BY <1>1, <1>2, <1>3

(* A user's row and a user's tokens run as their modules say.                *)
THEOREM BothRun == MCSpec => Spec /\ I!Spec
  BY BothStart, BothStep, PTL DEF MCSpec, Spec, I!Spec

(* The run's groups are as the theorems below ask for.                       *)
LEMMA GroupsOfTheRun ==
  ASSUME Groups = MCGroups
  PROVE  OneAddressAtATime /\ TwoLoginsAtMost
  BY DEF MCGroups, TokenOps, OneAddressAtATime, TwoLoginsAtMost, AddressOps

(* Every column of a user's row and every token keeps its type, whichever    *)
(* endpoints of auth.py, user.py and mfa.py overlap, and a request that is    *)
(* under way has a row it has read.                                          *)
THEOREM TypesOKAlways ==
  ASSUME Lives
  PROVE  MCSpec => []TypesOK
  <1>1. RowInv => I!TypeOK BY DEF RowInv, RowTyped
  <1>2. Spec => []TypeOK BY TokensTyped
  <1> QED BY <1>1, <1>2, RowSafe, BothRun, PTL DEF TypesOK

(* A link that did its work is refused by every request that starts after it,  *)
(* whichever endpoints overlap and how many requests (verify_email,             *)
(* reset_password, confirm_email_change).                                      *)
THEOREM LinksWorkOnce ==
  MCSpec => [][\A c \in Clients : I!UsesLink(c) => I!LinkOf(c) \notin req[c].began]_(I!vars)
  <1>1. RowInv /\ [I!Next]_(I!vars) =>
          [\A c \in Clients : I!UsesLink(c) => I!LinkOf(c) \notin req[c].began]_(I!vars)
    BY LinkUnused DEF RowInv
  <1> QED BY <1>1, RowSafe, BothRun, PTL DEF I!Spec

(* A link that did its work is refused by every request that starts after it; *)
(* and with one request at a time at the endpoints that *)
(* change the address, the address becomes the one the link was mailed to      *)
(* (verify_email, reset_password, confirm_email_change).                       *)
THEOREM LinksKeptAlways ==
  ASSUME OneAddressAtATime
  PROVE  MCSpec => LinksKept
  <1>1. RowInv /\ [I!Next]_(I!vars) =>
          [\A c \in Clients :
             /\ I!UsesLink(c) => I!LinkOf(c) \notin req[c].began
             /\ I!ConfirmEmailChange(c) =>
                  mailed[I!Arg(c)] = [kind |-> "change", to |-> user'.email]]_(I!vars)
    BY LinksKeptByStep DEF RowInv
  <1> QED BY <1>1, RowSafe, BothRun, PTL DEF LinksKept, I!LinksKept, I!Spec

(* However many requests overlap at the endpoints of mfa.py and elsewhere: as    *)
(* long as none of mfa.py commits over columns that changed since it read them, *)
(* the recovery codes in the row are those of the set shown last, less the ones *)
(* that let somebody in; a stale copy is the only way to lose or revive a code.  *)
THEOREM ShownUnlessStale ==
  MCSpec /\ [][\A c \in Clients : FactorsCurrent(c)]_(I!vars) => []ShownCodesAreStored
  <1>1. RowInv /\ Shown /\ [I!Next]_(I!vars) /\ [\A c \in Clients : FactorsCurrent(c)]_(I!vars)
          => Shown'
    BY ShownStep, ShownStutters DEF RowInv
  <1>2. I!Spec /\ [][\A c \in Clients : FactorsCurrent(c)]_(I!vars) => []Shown
    BY <1>1, ShownInit, RowSafe, PTL DEF I!Spec
  <1>3. Shown => I!ShownCodesAreStored BY DEF Shown
  <1> QED BY <1>2, <1>3, BothRun, PTL DEF ShownCodesAreStored

(* Whichever requests overlap, and however stale their copies: the codes a row  *)
(* accepts are of one set, that was handed out (mfa_enable,                     *)
(* _consume_recovery_code).                                                     *)
THEOREM CodesOfOneSet ==
  MCSpec => [](\E n \in 0 .. sets : user.codes \subseteq I!CodesOf(n))
  <1>1. RowInv /\ OneSet /\ [I!Next]_(I!vars) => OneSet' BY OneSetStep DEF RowInv
  <1>2. I!Spec => []OneSet BY <1>1, OneSetInit, RowSafe, PTL DEF I!Spec
  <1>3. OneSet => \E n \in 0 .. sets : user.codes \subseteq I!CodesOf(n) BY DEF OneSet, OfOneSet
  <1> QED BY <1>2, <1>3, BothRun, PTL

(* With at most two requests at a time at login and what overlaps with it,      *)
(* there are never as many as T (T + 1) / 2 wrong passwords without a lock or a *)
(* right one, for any threshold T: _handle_failed_login raises the counter of   *)
(* its copy of the row.                                                        *)
THEOREM LockoutAlways ==
  ASSUME TwoLoginsAtMost
  PROVE  MCSpec => []LockoutHolds
  <1>1. I!Init => Lockout BY RowInit, LockoutInit
  <1>2. RowInv /\ RowInv' /\ Lockout /\ [I!Next]_(I!vars) => Lockout'
    BY LockoutStep DEF RowInv
  <1>3. I!Spec => []Lockout BY <1>1, <1>2, RowSafe, PTL DEF I!Spec
  <1>4. RowInv /\ Lockout => I!LockoutHolds BY LockoutBounds DEF RowInv
  <1> QED BY <1>3, <1>4, RowSafe, BothRun, PTL DEF LockoutHolds
=============================================================================
