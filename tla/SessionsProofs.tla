----------------------------- MODULE SessionsProofs -----------------------------
(***************************************************************************)
(* Theorems about Sessions, for any number of calls in flight, of seconds  *)
(* and of letters.                                                         *)
(*                                                                         *)
(* The strengthening: the current refresh token never gave way, no code or *)
(* token on the row has done its work, and while nobody has written since  *)
(* a call began, what it compared with the row is still on the row.        *)
(***************************************************************************)
EXTENDS Sessions, TLAPS

RowHolds ==
    /\ account \in AccountRow
    /\ second \in 1..MaxSeconds
    /\ letters \in Letter
    /\ account.verified => account.exists
    /\ account.emailToken # 0 => account.exists

TokensHold ==
    /\ replaced \subseteq 1..MaxSeconds
    /\ account.refreshToken \notin replaced

LettersHold ==
    /\ account.resetCode \in 0..letters
    /\ account.resetToken \in 0..letters
    /\ spent \subseteq {"code", "token"} \X (1..letters)
    /\ <<"code", account.resetCode>> \notin spent
    /\ <<"token", account.resetToken>> \notin spent

AuthCallHolds(c) ==
    /\ c \in AuthCall
    /\ c.step \in {"sign", "store"} => c.op \in {"register", "login", "refreshTokens"}
    /\ c.step \in {"mail", "confirm"} => account.exists
    /\ c.step = "insert" => c.op = "register"
    /\ c.step \in {"grant", "reset"} => c.using \in 1..letters
    /\ c.alone =>
        /\ c.op = "refreshTokens" /\ c.step # "revoke" =>
               c.token = account.refreshToken /\ c.token # 0
        /\ c.step = "grant" => c.using = account.resetCode
        /\ c.step = "reset" => c.using = account.resetToken
        /\ c.step = "mail" => ~account.verified

AuthCallsHold ==
    /\ call = [g \in Handlers |-> call[g]]
    /\ \A h \in Handlers : InFlight(h) => AuthCallHolds(call[h])

SessionsInv == RowHolds /\ TokensHold /\ LettersHold /\ AuthCallsHold

LEMMA IdleIsNoAuthCall == Idle \notin AuthCall
BY DEF AuthCall, Idle, AuthMethod

LEMMA SessionsInvInit == SessionsInit /\ CallsInit => SessionsInv
<1> SUFFICES ASSUME SessionsInit, CallsInit PROVE SessionsInv
  OBVIOUS
<1>1. second \in 1..MaxSeconds /\ letters \in Letter /\ 0 \in 0..MaxSeconds /\ 0 \in Letter
  BY SessionAssumption DEF SessionsInit, Letter
<1>2. account \in AccountRow
  BY <1>1 DEF SessionsInit, AccountRow, Deadline
<1>3. RowHolds
  <2>1. ~account.verified /\ account.emailToken = 0
    BY DEF SessionsInit
  <2> QED
    BY <1>1, <1>2, <2>1 DEF RowHolds
<1>4. TokensHold
  BY DEF SessionsInit, TokensHold
<1>5. LettersHold
  BY DEF SessionsInit, LettersHold
<1>6. AuthCallsHold
  BY DEF CallsInit, AuthCallsHold, InFlight
<1> QED
  BY <1>3, <1>4, <1>5, <1>6 DEF SessionsInv

LEMMA SessionsInvTypes == SessionsInv => SessionsTypeOK
<1> SUFFICES ASSUME SessionsInv PROVE SessionsTypeOK
  OBVIOUS
<1>1. spent \subseteq {"code", "token"} \X Letter
  BY SessionAssumption DEF SessionsInv, LettersHold, RowHolds, Letter
<1> QED
  BY <1>1 DEF SessionsInv, RowHolds, TokensHold, AuthCallsHold, AuthCallHolds,
              SessionsTypeOK

-----------------------------------------------------------------------------
(* The calls in flight. *)

\* The row keeps everything that calls compare with it.
Comparable ==
    /\ account'.refreshToken = account.refreshToken
    /\ account'.resetCode = account.resetCode
    /\ account'.resetToken = account.resetToken
    /\ account'.verified = account.verified
    /\ account'.exists = account.exists
    /\ letters' = letters

\* The account stays, and letters are only added.
Onward == (account.exists => account'.exists) /\ letters' \in {letters, letters + 1}

\* Only handler h moves.
LEMMA QuietAuthCall ==
    ASSUME AuthCallsHold, Comparable, NEW h \in Handlers, NEW c,
           call' = [call EXCEPT ![h] = c], c = Idle \/ AuthCallHolds(c)
    PROVE  AuthCallsHold'
<1>1. /\ call' = [g \in Handlers |-> IF g = h THEN c ELSE call[g]]
      /\ \A g \in Handlers : call'[g] = IF g = h THEN c ELSE call[g]
  BY DEF AuthCallsHold
<1>2. ASSUME NEW g \in Handlers, InFlight(g)'
      PROVE  AuthCallHolds(call[g])'
  <2>1. AuthCallHolds(call'[g])
    BY <1>1, <1>2 DEF AuthCallsHold, InFlight
  <2> QED
    BY <2>1 DEF AuthCallHolds, Comparable
<1>3. (call = [g \in Handlers |-> call[g]])'
  BY <1>1
<1> QED
  BY <1>2, <1>3 DEF AuthCallsHold

LEMMA AuthCallsStay ==
    ASSUME AuthCallsHold, Comparable, UNCHANGED call
    PROVE  AuthCallsHold'
BY DEF AuthCallsHold, InFlight, AuthCallHolds, Comparable

\* Every call but h is no longer alone, and h goes on as c.
LEMMA DisturbedAuthCalls ==
    ASSUME RowHolds, AuthCallsHold, Onward, call' = [g \in Handlers |-> call'[g]],
           \A g \in Handlers : \/ call'[g] \in {Idle, Disturbed(g)}
                               \/ AuthCallHolds(call[g])'
    PROVE  AuthCallsHold'
<1>1. ASSUME NEW g \in Handlers, InFlight(g)'
      PROVE  AuthCallHolds(call[g])'
  <2>1. CASE ~AuthCallHolds(call[g])'
    <3>1. InFlight(g) /\ call'[g] = [call[g] EXCEPT !.alone = FALSE]
      BY <1>1, <2>1 DEF Disturbed, InFlight
    <3>2. AuthCallHolds(call[g]) /\ call[g] \in AuthCall
      BY <3>1 DEF AuthCallsHold, AuthCallHolds
    <3>3. /\ call'[g] \in AuthCall /\ ~call'[g].alone
          /\ call'[g].op = call[g].op /\ call'[g].step = call[g].step
          /\ call'[g].using = call[g].using
      BY <3>1, <3>2 DEF AuthCall
    <3>4. 1..letters \subseteq 1..letters'
      BY DEF Onward, RowHolds, Letter
    <3> QED
      BY <3>2, <3>3, <3>4 DEF AuthCallHolds, Onward
  <2> QED
    BY <2>1
<1> QED
  BY <1>1 DEF AuthCallsHold

-----------------------------------------------------------------------------
(* The steps that write nothing. *)

LEMMA RowStays ==
    ASSUME RowHolds, TokensHold, LettersHold, UNCHANGED sessionVars
    PROVE  RowHolds' /\ TokensHold' /\ LettersHold' /\ Comparable
BY DEF RowHolds, TokensHold, LettersHold, Comparable, sessionVars

LEMMA QuietSessionStep ==
    ASSUME SessionsInv, NEW h \in Handlers, NEW c, UNCHANGED sessionVars,
           call' = [call EXCEPT ![h] = c], c = Idle \/ AuthCallHolds(c)
    PROVE  SessionsInv'
BY RowStays, QuietAuthCall DEF SessionsInv

LEMMA BeginAuthKeeps ==
    ASSUME SessionsInv, NEW h \in Handlers, NEW c, BeginAuthCall(h, c), AuthCallHolds(c)
    PROVE  SessionsInv'
BY QuietSessionStep DEF BeginAuthCall, Begin

\* The calls that compare nothing with the row.
LEMMA PlainCallsKeep ==
    ASSUME SessionsInv, NEW h \in Handlers,
           register(h) \/ login(h) \/ changePassword(h) \/ verifyEmail(h)
    PROVE  SessionsInv'
<1>1. 0 \in 0..MaxSeconds /\ 0 \in Letter
  BY SessionAssumption DEF Letter
<1>2. CASE register(h)
  <2>1. PICK c : c = Authenticating("register", "insert", 0, 0)
    OBVIOUS
  <2>2. c \in AuthCall /\ c.op = "register" /\ c.step = "insert"
    BY <1>1, <2>1
       DEF Authenticating, AuthCall, AuthMethod, AuthStep
  <2>3. AuthCallHolds(c)
    BY <2>2 DEF AuthCallHolds
  <2> QED
    BY <1>2, <2>1, <2>3, BeginAuthKeeps DEF register
<1>3. CASE login(h)
  <2>1. PICK c : c = Authenticating("login", "sign", 0, 0)
    OBVIOUS
  <2>2. c \in AuthCall /\ c.op = "login" /\ c.step = "sign"
    BY <1>1, <2>1
       DEF Authenticating, AuthCall, AuthMethod, AuthStep
  <2>3. AuthCallHolds(c)
    BY <2>2 DEF AuthCallHolds
  <2> QED
    BY <1>3, <2>1, <2>3, BeginAuthKeeps DEF login
<1>4. CASE changePassword(h)
  <2>1. PICK c : c = Authenticating("changePassword", "change password", 0, 0)
    OBVIOUS
  <2>2. c \in AuthCall /\ c.op = "changePassword" /\ c.step = "change password"
    BY <1>1, <2>1
       DEF Authenticating, AuthCall, AuthMethod, AuthStep
  <2>3. AuthCallHolds(c)
    BY <2>2 DEF AuthCallHolds
  <2> QED
    BY <1>4, <2>1, <2>3, BeginAuthKeeps DEF changePassword
<1>5. CASE verifyEmail(h)
  <2>1. PICK c : c = Authenticating("verifyEmail", "confirm", 0, account.emailToken)
    OBVIOUS
  <2>2. account.emailToken \in Letter /\ account.exists
    BY <1>5 DEF verifyEmail, SessionsInv, RowHolds, AccountRow
  <2>3. c \in AuthCall /\ c.op = "verifyEmail" /\ c.step = "confirm"
    BY <1>1, <2>1, <2>2
       DEF Authenticating, AuthCall, AuthMethod, AuthStep
  <2>4. AuthCallHolds(c)
    BY <2>2, <2>3 DEF AuthCallHolds
  <2> QED
    BY <1>5, <2>1, <2>4, BeginAuthKeeps DEF verifyEmail
<1> QED
  BY <1>2, <1>3, <1>4, <1>5

\* The calls whose comparison with the row matters later.
LEMMA ComparingCallsKeep ==
    ASSUME SessionsInv, NEW h \in Handlers,
           \/ \E t \in 0..MaxSeconds : refreshTokens(h, t)
           \/ verifyResetCode(h) \/ resetPassword(h) \/ resendVerificationEmail(h)
    PROVE  SessionsInv'
<1>1. /\ 0 \in 0..MaxSeconds /\ 0 \in Letter /\ account \in AccountRow
      /\ letters \in Nat /\ 1..letters \subseteq Letter
      /\ account.resetCode \in 0..letters /\ account.resetToken \in 0..letters
  BY SessionAssumption DEF SessionsInv, RowHolds, LettersHold, Letter
<1>2. CASE \E t \in 0..MaxSeconds : refreshTokens(h, t)
  <2>1. PICK t \in 0..MaxSeconds : refreshTokens(h, t)
    BY <1>2
  <2>2. /\ Verdict(t) \in {"sign", "revoke"} /\ t \in 0..MaxSeconds
        /\ "refreshTokens" \in AuthMethod /\ Verdict(t) \in AuthStep
    BY <2>1 DEF refreshTokens, Verdict, AuthMethod, AuthStep
  <2>3. PICK c : c = Authenticating("refreshTokens", Verdict(t), t, 0)
    OBVIOUS
  <2>4. /\ c \in AuthCall /\ c.op = "refreshTokens" /\ c.step = Verdict(t)
        /\ c.token = t
    BY <1>1, <2>2, <2>3 DEF Authenticating, AuthCall
  <2>5. c.step = "sign" => c.token = account.refreshToken /\ c.token # 0
    BY <2>4 DEF Verdict
  <2>6. AuthCallHolds(c)
    BY <2>2, <2>4, <2>5 DEF AuthCallHolds
  <2> QED
    BY <2>1, <2>3, <2>6, BeginAuthKeeps DEF refreshTokens
<1>3. CASE verifyResetCode(h)
  <2>1. PICK c : c = Authenticating("verifyResetCode", "grant", 0, account.resetCode)
    OBVIOUS
  <2>2. account.resetCode \in 1..letters
    BY <1>1, <1>3 DEF verifyResetCode
  <2>3. /\ c \in AuthCall /\ c.op = "verifyResetCode" /\ c.step = "grant"
        /\ c.using = account.resetCode
    BY <1>1, <2>1, <2>2
       DEF Authenticating, AuthCall, AuthMethod, AuthStep
  <2>4. AuthCallHolds(c)
    BY <2>2, <2>3 DEF AuthCallHolds
  <2> QED
    BY <1>3, <2>1, <2>4, BeginAuthKeeps DEF verifyResetCode
<1>4. CASE resetPassword(h)
  <2>1. PICK c : c = Authenticating("resetPassword", "reset", 0, account.resetToken)
    OBVIOUS
  <2>2. account.resetToken \in 1..letters
    BY <1>1, <1>4 DEF resetPassword
  <2>3. /\ c \in AuthCall /\ c.op = "resetPassword" /\ c.step = "reset"
        /\ c.using = account.resetToken
    BY <1>1, <2>1, <2>2
       DEF Authenticating, AuthCall, AuthMethod, AuthStep
  <2>4. AuthCallHolds(c)
    BY <2>2, <2>3 DEF AuthCallHolds
  <2> QED
    BY <1>4, <2>1, <2>4, BeginAuthKeeps DEF resetPassword
<1>5. CASE resendVerificationEmail(h)
  <2>1. PICK c : c = Authenticating("resendVerificationEmail", "mail", 0, 0)
    OBVIOUS
  <2>2. c \in AuthCall /\ c.op = "resendVerificationEmail" /\ c.step = "mail"
    BY <1>1, <2>1
       DEF Authenticating, AuthCall, AuthMethod, AuthStep
  <2>3. account.exists /\ ~account.verified
    BY <1>5 DEF resendVerificationEmail, MayResend, Authenticated
  <2>4. AuthCallHolds(c)
    BY <2>2, <2>3 DEF AuthCallHolds
  <2> QED
    BY <1>5, <2>1, <2>4, BeginAuthKeeps DEF resendVerificationEmail
<1> QED
  BY <1>2, <1>3, <1>4, <1>5

\* The tokens of both kinds are signed, or the call fails.
LEMMA SignOrFailKeeps ==
    ASSUME SessionsInv, NEW h \in Handlers, SignTokens(h) \/ FailAuthCall(h)
    PROVE  SessionsInv'
<1>1. CASE SignTokens(h)
  <2>1. PICK c : c = call[h]
    OBVIOUS
  <2>2. AuthCallHolds(c) /\ c \in AuthCall /\ c.step = "sign"
    BY <1>1, <2>1 DEF SignTokens, At, SessionsInv, AuthCallsHold, AuthCallHolds
  <2>3. PICK d : d = [c EXCEPT !.step = "store", !.signed = second]
    OBVIOUS
  <2>4. second \in 0..MaxSeconds
    BY SessionAssumption DEF SessionsInv, RowHolds
  <2>5. /\ d \in AuthCall /\ d.step = "store" /\ d.op = c.op /\ d.alone = c.alone
        /\ d.token = c.token
    BY <2>2, <2>3, <2>4 DEF AuthCall, AuthStep
  <2>6. AuthCallHolds(d)
    BY <2>2, <2>5 DEF AuthCallHolds
  <2> QED
    BY <1>1, <2>1, <2>3, <2>6, QuietSessionStep DEF SignTokens, Becomes
<1>2. CASE FailAuthCall(h)
  BY <1>2, QuietSessionStep DEF FailAuthCall, Becomes
<1> QED
  BY <1>1, <1>2

-----------------------------------------------------------------------------
(* The steps that write. *)

LEMMA WritingSessionStep ==
    ASSUME SessionsInv, RowHolds', TokensHold', LettersHold', Onward,
           \/ Disturbs
           \/ \E h \in Handlers : WritesAndBecomes(h, Idle)
    PROVE  SessionsInv'
<1>1. /\ call' = [g \in Handlers |-> call'[g]]
      /\ \A g \in Handlers : call'[g] \in {Idle, Disturbed(g)}
  BY DEF Disturbs, WritesAndBecomes
<1> QED
  BY <1>1, DisturbedAuthCalls DEF SessionsInv

\* Letters are added one at a time, and what has done its work is older.
LEMMA NewLetterIsFresh ==
    ASSUME RowHolds, LettersHold, WritesLetter
    PROVE  /\ letters' = letters + 1 /\ letters' \in Letter /\ NewLetter = letters'
           /\ NewLetter \in Letter /\ NewLetter # 0 /\ NewLetter \in 0..letters'
           /\ 0..letters \subseteq 0..letters' /\ 1..letters \subseteq 1..letters'
           /\ NewLetter \notin 1..letters
           /\ <<"code", NewLetter>> \notin spent /\ <<"token", NewLetter>> \notin spent
<1>1. /\ letters' = letters + 1 /\ NewLetter = letters'
      /\ letters \in 0..MaxLetters /\ letters < MaxLetters
  BY DEF WritesLetter, NewLetter, RowHolds, Letter
<1>2. /\ letters' \in Letter /\ NewLetter \in Letter /\ NewLetter # 0
      /\ NewLetter \in 0..letters'
      /\ 0..letters \subseteq 0..letters' /\ 1..letters \subseteq 1..letters'
      /\ NewLetter \notin 1..letters
  BY <1>1, SessionAssumption DEF Letter
<1> QED
  BY <1>1, <1>2 DEF LettersHold

LEMMA InsertKeeps ==
    ASSUME SessionsInv, NEW h \in Handlers, InsertAccount(h)
    PROVE  SessionsInv'
<1>1. PICK row : row = [account EXCEPT !.exists = TRUE, !.emailToken = NewLetter,
                                       !.emailExpires = "ahead"]
  OBVIOUS
<1>2. /\ account' = row /\ WritesLetter /\ account \in AccountRow
      /\ RowHolds /\ LettersHold /\ TokensHold
  BY <1>1 DEF InsertAccount, SessionsInv, RowHolds
<1>3. /\ row \in AccountRow /\ row.exists
      /\ row.refreshToken = account.refreshToken
      /\ row.resetCode = account.resetCode /\ row.resetToken = account.resetToken
  BY <1>1, <1>2, NewLetterIsFresh DEF AccountRow, Deadline
<1>4. RowHolds'
  BY <1>2, <1>3, NewLetterIsFresh DEF RowHolds, InsertAccount
<1>5. TokensHold'
  BY <1>2, <1>3 DEF TokensHold, InsertAccount
<1>6. LettersHold'
  BY <1>2, <1>3, NewLetterIsFresh DEF LettersHold, InsertAccount
<1>7. Onward
  BY <1>2, <1>3, NewLetterIsFresh DEF Onward
<1>8. AuthCallHolds(call[h])'
  <2>1. PICK c : c = call[h]
    OBVIOUS
  <2>2. c \in AuthCall /\ c.op = "register" /\ c.step = "insert"
    BY <2>1 DEF InsertAccount, At, SessionsInv, AuthCallsHold, AuthCallHolds
  <2>3. PICK d : d = [c EXCEPT !.step = "sign"]
    OBVIOUS
  <2>4. d \in AuthCall /\ d.op = "register" /\ d.step = "sign"
    BY <2>2, <2>3 DEF AuthCall, AuthStep
  <2>5. call'[h] = d
    BY <2>1, <2>3 DEF InsertAccount, WritesAndBecomes
  <2> QED
    BY <2>4, <2>5 DEF AuthCallHolds
<1>9. /\ call' = [g \in Handlers |-> call'[g]]
      /\ \A g \in Handlers \ {h} : call'[g] = Disturbed(g)
  BY DEF InsertAccount, WritesAndBecomes
<1> QED
  BY <1>4, <1>5, <1>6, <1>7, <1>8, <1>9, DisturbedAuthCalls DEF SessionsInv

\* The refresh token of the row changes, and the one before gives way.
LEMMA TokenStepsKeep ==
    ASSUME SessionsInv,
           logout \/ \E h \in Handlers : StoreToken(h) \/ RevokeToken(h)
    PROVE  SessionsInv'
<1>1. account \in AccountRow /\ RowHolds /\ TokensHold /\ LettersHold
  BY DEF SessionsInv, RowHolds
<1>2. PICK t \in 0..MaxSeconds :
          /\ account' = [account EXCEPT !.refreshToken = t]
          /\ replaced' = Replacing(t) \ {t}
          /\ UNCHANGED <<second, letters, spent>>
          /\ Disturbs \/ \E h \in Handlers : WritesAndBecomes(h, Idle)
  <2>1. ASSUME NEW h \in Handlers, StoreToken(h)
        PROVE  call[h].signed \in 0..MaxSeconds
    <3>1. call[h] \in AuthCall
      BY <2>1 DEF StoreToken, At, SessionsInv, AuthCallsHold, AuthCallHolds
    <3> QED
      BY <3>1 DEF AuthCall
  <2>2. 0 \in 0..MaxSeconds
    BY SessionAssumption
  <2>3. Replacing(0) \ {0} = Replacing(0)
    BY <1>1, SessionAssumption DEF Replacing, TokensHold
  <2> QED
    BY <2>1, <2>2, <2>3 DEF logout, StoreToken, RevokeToken
<1>3. /\ account' \in AccountRow /\ account'.refreshToken = t
      /\ account'.exists = account.exists /\ account'.verified = account.verified
      /\ account'.emailToken = account.emailToken
      /\ account'.resetCode = account.resetCode
      /\ account'.resetToken = account.resetToken
  BY <1>1, <1>2 DEF AccountRow
<1>4. TokensHold'
  <2>1. account.refreshToken \in 0..MaxSeconds
    BY <1>1 DEF AccountRow
  <2>2. Replacing(t) \subseteq 1..MaxSeconds
    <3>1. account.refreshToken # 0 => account.refreshToken \in 1..MaxSeconds
      BY <2>1, SessionAssumption
    <3> QED
      BY <1>1, <3>1 DEF Replacing, TokensHold
  <2> QED
    BY <1>2, <1>3, <2>2 DEF TokensHold
<1>5. RowHolds' /\ LettersHold'
  BY <1>1, <1>2, <1>3 DEF RowHolds, LettersHold
<1>6. Onward
  BY <1>2, <1>3 DEF Onward
<1> QED
  BY <1>2, <1>4, <1>5, <1>6, WritingSessionStep

\* What concerns neither tokens nor letters.
LEMMA OtherWritesOfRowKeep ==
    ASSUME SessionsInv,
           \/ \E b \in BOOLEAN : SetBlocked(b)
           \/ \E h \in Handlers : ChangePassword(h) \/ ConfirmEmail(h)
    PROVE  SessionsInv'
<1>1. account \in AccountRow /\ RowHolds /\ TokensHold /\ LettersHold
  BY DEF SessionsInv, RowHolds
<1>2. ASSUME NEW h \in Handlers, ConfirmEmail(h) PROVE account.exists
  BY <1>2 DEF ConfirmEmail, At, SessionsInv, AuthCallsHold, AuthCallHolds
<1>3. /\ UNCHANGED <<second, letters, replaced, spent>>
      /\ Disturbs \/ \E h \in Handlers : WritesAndBecomes(h, Idle)
  BY DEF SetBlocked, ChangePassword, ConfirmEmail, sessionVars
<1>4. /\ account' \in AccountRow
      /\ account'.exists = account.exists
      /\ account'.verified => account'.exists
      /\ account'.emailToken \in {0, account.emailToken}
      /\ account'.refreshToken = account.refreshToken
      /\ account'.resetCode = account.resetCode
      /\ account'.resetToken = account.resetToken
  <2>1. CASE \E b \in BOOLEAN : SetBlocked(b)
    BY <1>1, <2>1 DEF SetBlocked, AccountRow, RowHolds
  <2>2. CASE \E h \in Handlers : ChangePassword(h)
    BY <1>1, <2>2 DEF ChangePassword, sessionVars, RowHolds
  <2>3. CASE \E h \in Handlers : ConfirmEmail(h)
    <3>1. account.exists /\ 0 \in Letter
      BY <1>2, <2>3, SessionAssumption DEF Letter
    <3>2. account' = [account EXCEPT !.verified = TRUE, !.emailToken = 0,
                                     !.emailExpires = "null"]
      BY <2>3 DEF ConfirmEmail
    <3> QED
      BY <1>1, <3>1, <3>2 DEF AccountRow, Deadline
  <2> QED
    BY <2>1, <2>2, <2>3
<1>5. RowHolds' /\ TokensHold' /\ LettersHold' /\ Onward
  BY <1>1, <1>3, <1>4 DEF RowHolds, TokensHold, LettersHold, Onward
<1> QED
  BY <1>3, <1>5, WritingSessionStep

\* A code or a token goes out.
LEMMA LetterStepsKeep ==
    ASSUME SessionsInv,
           requestPasswordReset \/ \E h \in Handlers : MailToken(h) \/ GrantResetToken(h)
    PROVE  SessionsInv'
<1>1. account \in AccountRow /\ RowHolds /\ TokensHold /\ LettersHold /\ WritesLetter
  BY DEF SessionsInv, RowHolds, requestPasswordReset, MailToken, GrantResetToken
<1>2. UNCHANGED <<second, replaced>>
  BY DEF requestPasswordReset, MailToken, GrantResetToken
<1>3. CASE requestPasswordReset
  <2>1. account' = [account EXCEPT !.resetCode = NewLetter, !.resetExpires = "ahead"]
    BY <1>3 DEF requestPasswordReset
  <2>2. /\ account' \in AccountRow /\ account'.resetCode = NewLetter
        /\ account'.exists = account.exists /\ account'.verified = account.verified
        /\ account'.emailToken = account.emailToken
        /\ account'.refreshToken = account.refreshToken
        /\ account'.resetToken = account.resetToken
    BY <1>1, <2>1, NewLetterIsFresh DEF AccountRow, Deadline
  <2>3. RowHolds' /\ TokensHold' /\ Onward
    BY <1>1, <1>2, <2>2, NewLetterIsFresh DEF RowHolds, TokensHold, Onward
  <2>4. LettersHold'
    BY <1>1, <1>3, <2>2, NewLetterIsFresh DEF LettersHold, requestPasswordReset
  <2> QED
    BY <1>3, <2>3, <2>4, WritingSessionStep DEF requestPasswordReset
<1>4. CASE \E h \in Handlers : MailToken(h)
  <2>1. PICK h \in Handlers : MailToken(h)
    BY <1>4
  <2>2. account.exists
    BY <2>1 DEF MailToken, At, SessionsInv, AuthCallsHold, AuthCallHolds
  <2>3. account' = [account EXCEPT !.emailToken = NewLetter, !.emailExpires = "ahead"]
    BY <2>1 DEF MailToken
  <2>4. /\ account' \in AccountRow /\ account'.exists
        /\ account'.refreshToken = account.refreshToken
        /\ account'.resetCode = account.resetCode
        /\ account'.resetToken = account.resetToken
    BY <1>1, <2>2, <2>3, NewLetterIsFresh DEF AccountRow, Deadline
  <2>5. RowHolds' /\ TokensHold' /\ Onward
    BY <1>1, <1>2, <2>4, NewLetterIsFresh DEF RowHolds, TokensHold, Onward
  <2>6. LettersHold'
    BY <1>1, <2>1, <2>4, NewLetterIsFresh DEF LettersHold, MailToken
  <2> QED
    BY <2>1, <2>5, <2>6, WritingSessionStep DEF MailToken
<1>5. CASE \E h \in Handlers : GrantResetToken(h)
  <2>1. PICK h \in Handlers : GrantResetToken(h)
    BY <1>5
  <2>2. call[h].using \in 1..letters
    BY <2>1 DEF GrantResetToken, At, SessionsInv, AuthCallsHold, AuthCallHolds
  <2>3. /\ account' = [account EXCEPT !.resetToken = NewLetter, !.resetExpires = "ahead",
                                      !.resetCode = 0]
        /\ spent' = spent \cup {<<"code", call[h].using>>}
    BY <2>1 DEF GrantResetToken
  <2>4. 0 \in Letter /\ 0 \in 0..letters'
    BY <1>1, NewLetterIsFresh, SessionAssumption DEF Letter
  <2>5. /\ account' \in AccountRow
        /\ account'.exists = account.exists /\ account'.verified = account.verified
        /\ account'.emailToken = account.emailToken
        /\ account'.refreshToken = account.refreshToken
        /\ account'.resetCode = 0 /\ account'.resetToken = NewLetter
    BY <1>1, <2>3, <2>4, NewLetterIsFresh DEF AccountRow, Deadline
  <2>6. RowHolds' /\ TokensHold' /\ Onward
    BY <1>1, <1>2, <2>5, NewLetterIsFresh DEF RowHolds, TokensHold, Onward
  <2>7. spent' \subseteq {"code", "token"} \X (1..letters')
    BY <1>1, <2>2, <2>3, NewLetterIsFresh DEF LettersHold
  <2>8. <<"code", 0>> \notin spent' /\ <<"token", NewLetter>> \notin spent'
    BY <1>1, <2>3, <2>7, NewLetterIsFresh
  <2>9. LettersHold'
    BY <1>1, <2>4, <2>5, <2>7, <2>8, NewLetterIsFresh DEF LettersHold
  <2> QED
    BY <2>1, <2>6, <2>9, WritingSessionStep DEF GrantResetToken
<1> QED
  BY <1>3, <1>4, <1>5

LEMMA ResetKeeps ==
    ASSUME SessionsInv, NEW h \in Handlers, ResetPassword(h)
    PROVE  SessionsInv'
<1>1. /\ account \in AccountRow /\ RowHolds /\ TokensHold /\ LettersHold
      /\ letters \in Nat
  BY DEF SessionsInv, RowHolds, Letter
<1>2. call[h].using \in 1..letters
  BY DEF ResetPassword, At, SessionsInv, AuthCallsHold, AuthCallHolds
<1>3. /\ account' = [account EXCEPT !.resetToken = 0, !.resetExpires = "null"]
      /\ spent' = spent \cup {<<"token", call[h].using>>}
      /\ UNCHANGED <<second, letters, replaced>>
  BY DEF ResetPassword, ClearingToken
<1>4. 0 \in Letter /\ 0 \in 0..letters
  BY <1>1, SessionAssumption DEF Letter
<1>5. /\ account' \in AccountRow
      /\ account'.exists = account.exists /\ account'.verified = account.verified
      /\ account'.emailToken = account.emailToken
      /\ account'.refreshToken = account.refreshToken
      /\ account'.resetCode = account.resetCode /\ account'.resetToken = 0
  BY <1>1, <1>3, <1>4 DEF AccountRow, Deadline
<1>6. RowHolds' /\ TokensHold' /\ Onward
  BY <1>1, <1>3, <1>5 DEF RowHolds, TokensHold, Onward
<1>7. LettersHold'
  <2>1. spent' \subseteq {"code", "token"} \X (1..letters)
    BY <1>1, <1>2, <1>3 DEF LettersHold
  <2>2. <<"token", 0>> \notin spent' /\ <<"code", account.resetCode>> \notin spent'
    BY <1>1, <1>3, <2>1 DEF LettersHold
  <2> QED
    BY <1>1, <1>3, <1>4, <1>5, <2>1, <2>2 DEF LettersHold
<1> QED
  BY <1>6, <1>7, WritingSessionStep DEF ResetPassword

LEMMA TimeKeeps ==
    ASSUME SessionsInv, ASecondPasses \/ ResetExpires \/ TwoDaysPass
    PROVE  SessionsInv'
<1>1. account \in AccountRow /\ RowHolds /\ TokensHold /\ LettersHold
  BY DEF SessionsInv, RowHolds
<1>2. /\ account' \in AccountRow
      /\ account'.exists = account.exists /\ account'.verified = account.verified
      /\ account'.emailToken = account.emailToken
      /\ account'.refreshToken = account.refreshToken
      /\ account'.resetCode = account.resetCode
      /\ account'.resetToken = account.resetToken
  <2>1. CASE ASecondPasses
    BY <1>1, <2>1 DEF ASecondPasses
  <2>2. CASE ResetExpires
    BY <1>1, <2>2 DEF ResetExpires, AccountRow, Deadline
  <2>3. CASE TwoDaysPass
    BY <1>1, <2>3 DEF TwoDaysPass, AccountRow, Deadline
  <2> QED
    BY <2>1, <2>2, <2>3
<1>3. UNCHANGED <<letters, replaced, spent, call>>
  BY DEF ASecondPasses, ResetExpires, TwoDaysPass, flight
<1>4. second' \in 1..MaxSeconds
  BY <1>1, SessionAssumption DEF ASecondPasses, ResetExpires, TwoDaysPass, RowHolds
<1>5. RowHolds' /\ TokensHold' /\ LettersHold' /\ Comparable
  BY <1>1, <1>2, <1>3, <1>4 DEF RowHolds, TokensHold, LettersHold, Comparable
<1> QED
  BY <1>3, <1>5, AuthCallsStay DEF SessionsInv

LEMMA SessionsInvNext ==
    ASSUME SessionsInv, [SessionsNext]_<<sessionVars, flight>>
    PROVE  SessionsInv'
<1>1. CASE UNCHANGED <<sessionVars, flight>>
  BY <1>1, RowStays, AuthCallsStay DEF SessionsInv, flight
<1>2. CASE SessionsNext
  BY <1>2, PlainCallsKeep, ComparingCallsKeep, SignOrFailKeeps, InsertKeeps,
     TokenStepsKeep, OtherWritesOfRowKeep, LetterStepsKeep, ResetKeeps, TimeKeeps
     DEF SessionsNext
<1> QED
  BY <1>1, <1>2

\* The strengthening holds throughout.
THEOREM SessionsInvHolds == SessionsSpec => []SessionsInv
<1>1. SessionsInit /\ CallsInit => SessionsInv
  BY SessionsInvInit
<1>2. SessionsInv /\ [SessionsNext]_<<sessionVars, flight>> => SessionsInv'
  BY SessionsInvNext
<1> QED
  BY <1>1, <1>2, PTL DEF SessionsSpec

-----------------------------------------------------------------------------
(* The properties. *)

\* What the row and the calls in flight can be.
THEOREM SessionsTypes == SessionsSpec => []SessionsTypeOK
BY SessionsInvTypes, SessionsInvHolds, PTL

\* A refresh token that gave way yields another only to a call that was overtaken.
THEOREM ReplacedYieldsNothing == SessionsSpec => ReplacedTokenYieldsNothing
<1>1. ASSUME SessionsInv, NEW h \in Handlers, At(h, "store"),
             call[h].op = "refreshTokens", call[h].token \in replaced
      PROVE  ~call[h].alone
  BY <1>1 DEF At, SessionsInv, AuthCallsHold, AuthCallHolds, TokensHold
<1>2. SessionsInv => [\A h \in Handlers :
          Finishes(h, "store") /\ call[h].op = "refreshTokens"
          /\ call[h].token \in replaced => ~call[h].alone]_sessionVars
  BY <1>1 DEF Finishes
<1> QED
  BY <1>2, SessionsInvHolds, PTL DEF SessionsSpec, ReplacedTokenYieldsNothing

\* Only StoreToken gives the row a refresh token.
LEMMA WhoLogsIn ==
    ASSUME SessionsInv, SessionsNext,
           account.refreshToken = 0, account'.refreshToken # 0
    PROVE  \E h \in Handlers : StoreToken(h)
<1>1. account \in AccountRow
  BY DEF SessionsInv, RowHolds
<1>2. ~(UNCHANGED account)
  OBVIOUS
<1>3. ~logout /\ ~requestPasswordReset /\ ~ResetExpires /\ ~TwoDaysPass /\ ~ASecondPasses
  BY <1>1 DEF logout, requestPasswordReset, ResetExpires, TwoDaysPass, ASecondPasses,
              AccountRow
<1>4. \A b \in BOOLEAN : ~SetBlocked(b)
  BY <1>1 DEF SetBlocked, AccountRow
<1>5. \A h \in Handlers :
          /\ ~InsertAccount(h) /\ ~RevokeToken(h) /\ ~GrantResetToken(h)
          /\ ~ResetPassword(h) /\ ~MailToken(h) /\ ~ConfirmEmail(h)
  BY <1>1 DEF InsertAccount, RevokeToken, GrantResetToken, ResetPassword, ClearingToken,
              MailToken, ConfirmEmail, AccountRow
<1>6. \A h \in Handlers :
          /\ ~register(h) /\ ~login(h) /\ ~SignTokens(h) /\ ~changePassword(h)
          /\ ~ChangePassword(h) /\ ~verifyResetCode(h) /\ ~resetPassword(h)
          /\ ~resendVerificationEmail(h) /\ ~verifyEmail(h) /\ ~FailAuthCall(h)
          /\ \A t \in 0..MaxSeconds : ~refreshTokens(h, t)
  BY <1>2 DEF register, login, SignTokens, changePassword, ChangePassword,
              verifyResetCode, resetPassword, resendVerificationEmail, verifyEmail,
              FailAuthCall, refreshTokens, BeginAuthCall, sessionVars
<1> QED
  BY <1>3, <1>4, <1>5, <1>6 DEF SessionsNext

\* Whoever was logged out comes back only by logging in, or by a refresh that the
\* log-out overtook.
THEOREM LoggedOutStays == SessionsSpec => LoggedOutStaysOut
<1>1. ASSUME SessionsInv, SessionsNext,
             account.refreshToken = 0, account'.refreshToken # 0
      PROVE  \E h \in Handlers :
                 /\ Finishes(h, "store")
                 /\ call[h].op \in {"login", "register"} \/ ~call[h].alone
  <2>1. PICK h \in Handlers : StoreToken(h)
    BY <1>1, WhoLogsIn
  <2>2. Finishes(h, "store")
    BY <2>1 DEF StoreToken, Finishes, WritesAndBecomes, InFlight
  <2>3. AuthCallHolds(call[h]) /\ call[h].step = "store"
    BY <1>1, <2>1 DEF StoreToken, At, SessionsInv, AuthCallsHold
  <2>4. call[h].op \in {"login", "register"} \/ ~call[h].alone
    BY <1>1, <2>3 DEF AuthCallHolds
  <2> QED
    BY <2>2, <2>4
<1>2. SessionsInv /\ [SessionsNext]_<<sessionVars, flight>> =>
        [account.refreshToken = 0 /\ account'.refreshToken # 0 =>
             \E h \in Handlers :
                 /\ Finishes(h, "store")
                 /\ call[h].op \in {"login", "register"} \/ ~call[h].alone]_sessionVars
  BY <1>1 DEF sessionVars, flight
<1> QED
  BY <1>2, SessionsInvHolds, PTL DEF SessionsSpec, LoggedOutStaysOut

\* Reset codes and reset tokens do their work once, unless two calls overlap.
THEOREM LettersUsedOnce == SessionsSpec => ResetLettersUsedOnce
<1>1. ASSUME SessionsInv, NEW h \in Handlers, call[h].alone, InFlight(h)
      PROVE  /\ call[h].step = "grant" => <<"code", call[h].using>> \notin spent
             /\ call[h].step = "reset" => <<"token", call[h].using>> \notin spent
  BY <1>1 DEF SessionsInv, AuthCallsHold, AuthCallHolds, LettersHold
<1>2. SessionsInv => [\A h \in Handlers :
           (\/ Finishes(h, "grant") /\ <<"code", call[h].using>> \in spent
            \/ Finishes(h, "reset") /\ <<"token", call[h].using>> \in spent)
               => ~call[h].alone]_sessionVars
  BY <1>1 DEF Finishes, At
<1> QED
  BY <1>2, SessionsInvHolds, PTL DEF SessionsSpec, ResetLettersUsedOnce

\* Only MailToken gives a verified address a token.
LEMMA WhoAsksAgain ==
    ASSUME SessionsInv, SessionsNext, account'.verified, account'.emailToken # 0,
           ~(account.verified /\ account.emailToken # 0)
    PROVE  \E h \in Handlers : MailToken(h) /\ account.verified
<1>1. account \in AccountRow /\ (account.verified => account.exists)
  BY DEF SessionsInv, RowHolds
<1>2. ~(UNCHANGED account)
  OBVIOUS
<1>3. ~logout /\ ~requestPasswordReset /\ ~ResetExpires /\ ~TwoDaysPass /\ ~ASecondPasses
  BY <1>1 DEF logout, requestPasswordReset, ResetExpires, TwoDaysPass, ASecondPasses,
              AccountRow
<1>4. \A b \in BOOLEAN : ~SetBlocked(b)
  BY <1>1 DEF SetBlocked, AccountRow
<1>5. \A h \in Handlers :
          /\ ~InsertAccount(h) /\ ~RevokeToken(h) /\ ~GrantResetToken(h)
          /\ ~ResetPassword(h) /\ ~StoreToken(h) /\ ~ConfirmEmail(h)
  BY <1>1 DEF InsertAccount, RevokeToken, GrantResetToken, ResetPassword, ClearingToken,
              StoreToken, ConfirmEmail, AccountRow
<1>6. \A h \in Handlers :
          /\ ~register(h) /\ ~login(h) /\ ~SignTokens(h) /\ ~changePassword(h)
          /\ ~ChangePassword(h) /\ ~verifyResetCode(h) /\ ~resetPassword(h)
          /\ ~resendVerificationEmail(h) /\ ~verifyEmail(h) /\ ~FailAuthCall(h)
          /\ \A t \in 0..MaxSeconds : ~refreshTokens(h, t)
  BY <1>2 DEF register, login, SignTokens, changePassword, ChangePassword,
              verifyResetCode, resetPassword, resendVerificationEmail, verifyEmail,
              FailAuthCall, refreshTokens, BeginAuthCall, sessionVars
<1>7. \A h \in Handlers : MailToken(h) => account.verified
  BY <1>1 DEF MailToken, AccountRow
<1> QED
  BY <1>3, <1>4, <1>5, <1>6, <1>7 DEF SessionsNext

\* A verified address gets a new token only from a letter that was asked for before.
THEOREM VerifiedAsksNoMoreHolds == SessionsSpec => VerifiedAsksNoMore
<1>1. ASSUME SessionsInv, SessionsNext, account'.verified, account'.emailToken # 0
      PROVE  \/ account.verified /\ account.emailToken # 0
             \/ \E h \in Handlers : Finishes(h, "mail") /\ ~call[h].alone
  <2> SUFFICES ASSUME ~(account.verified /\ account.emailToken # 0)
               PROVE  \E h \in Handlers : Finishes(h, "mail") /\ ~call[h].alone
    OBVIOUS
  <2>1. PICK h \in Handlers : MailToken(h) /\ account.verified
    BY <1>1, WhoAsksAgain
  <2>2. Finishes(h, "mail")
    BY <2>1 DEF MailToken, Finishes, WritesAndBecomes, InFlight
  <2>3. ~call[h].alone
    BY <1>1, <2>1 DEF MailToken, At, SessionsInv, AuthCallsHold, AuthCallHolds
  <2> QED
    BY <2>2, <2>3
<1>2. SessionsInv /\ [SessionsNext]_<<sessionVars, flight>> =>
        [account'.verified /\ account'.emailToken # 0 =>
             \/ account.verified /\ account.emailToken # 0
             \/ \E h \in Handlers : Finishes(h, "mail") /\ ~call[h].alone]_sessionVars
  BY <1>1 DEF sessionVars, flight
<1> QED
  BY <1>2, SessionsInvHolds, PTL DEF SessionsSpec, VerifiedAsksNoMore

=============================================================================
