-------------------------------- MODULE Sessions --------------------------------
(***************************************************************************)
(* One account: AuthService (auth.service.ts) and the columns of "users"   *)
(* it writes.  Each method reads the row, hashes or signs for a while, and *)
(* then update()s just the columns it is about.                            *)
(*                                                                         *)
(* The row has room for ONE refresh token.  A token carries the second in  *)
(* which it was signed and is otherwise the same for the account, so that  *)
(* two of one second are equal: a token is known here by its second.       *)
(* Nothing looks at the 30 days a refresh token is signed for.             *)
(*                                                                         *)
(* The password itself is left out: calls that fail over a wrong one, or   *)
(* over a guessed code, change nothing.  So is the failure to send a       *)
(* letter.                                                                 *)
(***************************************************************************)
EXTENDS Calls

CONSTANTS
    MaxSeconds,     \* bound of the clock
    MaxLetters      \* bound: codes, reset tokens and verification tokens made

ASSUME SessionAssumption == MaxSeconds \in Nat \ {0} /\ MaxLetters \in Nat

VARIABLES
    account,    \* the row of "users"
    second,     \* the clock tokens are signed by
    letters,    \* how many codes, reset tokens and verification tokens were made
    replaced,   \* history: refresh tokens that gave way to another one
    spent       \* history: reset codes and tokens that have done their work

sessionVars == <<account, second, letters, replaced, spent>>

\* 0 is NULL; a deadline is NULL, ahead or past.
Deadline == {"null", "ahead", "past"}
Letter == 0..MaxLetters
AccountRow == [exists : BOOLEAN, blocked : BOOLEAN, refreshToken : 0..MaxSeconds,
               resetCode : Letter, resetToken : Letter, resetExpires : Deadline,
               verified : BOOLEAN, emailToken : Letter, emailExpires : Deadline]

AuthMethod == {"register", "login", "refreshTokens", "changePassword",
               "verifyResetCode", "resetPassword", "verifyEmail",
               "resendVerificationEmail"}
AuthStep == {"insert", "sign", "store", "revoke", "change password", "grant", "reset",
             "confirm", "mail"}

\* token, signed: the refresh token presented and the new one; using: the code or
\* token at hand.
AuthCall == [op : AuthMethod, step : AuthStep, alone : BOOLEAN,
             token : 0..MaxSeconds, signed : 0..MaxSeconds, using : Letter]

SessionsTypeOK ==
    /\ account \in AccountRow
    /\ second \in 1..MaxSeconds
    /\ letters \in Letter
    /\ replaced \subseteq 1..MaxSeconds
    /\ spent \subseteq {"code", "token"} \X Letter
    /\ \A h \in Handlers :
           InFlight(h) /\ call[h].op \in AuthMethod => call[h] \in AuthCall

-----------------------------------------------------------------------------

Authenticating(op, step, token, using) ==
    [op |-> op, step |-> step, alone |-> TRUE, token |-> token, signed |-> 0,
     using |-> using]

BeginAuthCall(h, c) == Begin(h, c) /\ UNCHANGED sessionVars

\* JwtStrategy.validate: an access token of a blocked account is refused.
Authenticated == account.exists /\ ~account.blocked

\* A new code or token.
NewLetter == letters + 1
WritesLetter == letters < MaxLetters /\ letters' = NewLetter

-----------------------------------------------------------------------------
(* Sessions *)

register(h) ==
    /\ ~account.exists
    /\ BeginAuthCall(h, Authenticating("register", "insert", 0, 0))

\* UNIQUE(email) refuses a second account.
InsertAccount(h) ==
    /\ At(h, "insert") /\ ~account.exists /\ WritesLetter
    /\ account' = [account EXCEPT !.exists = TRUE, !.emailToken = NewLetter,
                                  !.emailExpires = "ahead"]
    /\ WritesAndBecomes(h, [call[h] EXCEPT !.step = "sign"])
    /\ UNCHANGED <<second, replaced, spent>>

login(h) ==
    /\ account.exists /\ ~account.blocked
    /\ BeginAuthCall(h, Authenticating("login", "sign", 0, 0))

\* Mutant: whatever token the account was given is good.
GoodAnyway(t) == "sign"

\* The token is compared with the hash that was read; one that is not the current
\* one ends the session, also if it was never issued (0).
Verdict(t) ==
    IF account.refreshToken = 0 THEN "refuse"
    ELSE IF t = account.refreshToken THEN "sign" ELSE "revoke"

refreshTokens(h, t) ==
    /\ account.exists /\ t \in replaced \cup {account.refreshToken, 0}
    /\ Verdict(t) # "refuse"
    /\ BeginAuthCall(h, Authenticating("refreshTokens", Verdict(t), t, 0))

\* Both tokens are signed by the clock of this moment.
SignTokens(h) ==
    /\ At(h, "sign")
    /\ Becomes(h, [call[h] EXCEPT !.step = "store", !.signed = second])
    /\ UNCHANGED sessionVars

\* What becomes of the tokens when t is stored.
Replacing(t) ==
    IF account.refreshToken \in {0, t} THEN replaced ELSE replaced \cup {account.refreshToken}

StoreToken(h) ==
    LET t == call[h].signed IN
    /\ At(h, "store")
    /\ account' = [account EXCEPT !.refreshToken = t]
    /\ replaced' = Replacing(t) \ {t}
    /\ WritesAndBecomes(h, Idle)
    /\ UNCHANGED <<second, letters, spent>>

RevokeToken(h) ==
    /\ At(h, "revoke")
    /\ account' = [account EXCEPT !.refreshToken = 0]
    /\ replaced' = Replacing(0)
    /\ WritesAndBecomes(h, Idle)
    /\ UNCHANGED <<second, letters, spent>>

logout ==
    /\ Authenticated
    /\ account' = [account EXCEPT !.refreshToken = 0]
    /\ replaced' = Replacing(0)
    /\ Disturbs
    /\ UNCHANGED <<second, letters, spent>>

changePassword(h) ==
    /\ Authenticated
    /\ BeginAuthCall(h, Authenticating("changePassword", "change password", 0, 0))

ChangePassword(h) ==
    /\ At(h, "change password")
    /\ WritesAndBecomes(h, Idle)
    /\ UNCHANGED sessionVars

\* UsersService.blockUser and unblockUser: Clearance has the rest.
SetBlocked(b) ==
    /\ account.exists /\ account.blocked # b
    /\ account' = [account EXCEPT !.blocked = b]
    /\ Disturbs
    /\ UNCHANGED <<second, letters, replaced, spent>>

ASecondPasses ==
    /\ account.exists /\ second < MaxSeconds
    /\ second' = second + 1
    /\ UNCHANGED <<account, letters, replaced, spent, flight>>

-----------------------------------------------------------------------------
(* A forgotten password *)

\* The row has one deadline for the code and for the token.
requestPasswordReset ==
    /\ account.exists /\ WritesLetter
    /\ account' = [account EXCEPT !.resetCode = NewLetter, !.resetExpires = "ahead"]
    /\ Disturbs
    /\ UNCHANGED <<second, replaced, spent>>

verifyResetCode(h) ==
    /\ account.resetCode # 0 /\ account.resetExpires = "ahead"
    /\ BeginAuthCall(h, Authenticating("verifyResetCode", "grant", 0,
                                       account.resetCode))

GrantResetToken(h) ==
    /\ At(h, "grant") /\ WritesLetter
    /\ account' = [account EXCEPT !.resetToken = NewLetter, !.resetExpires = "ahead",
                                  !.resetCode = 0]
    /\ spent' = spent \cup {<<"code", call[h].using>>}
    /\ WritesAndBecomes(h, Idle)
    /\ UNCHANGED <<second, replaced>>

resetPassword(h) ==
    /\ account.resetToken # 0 /\ account.resetExpires = "ahead"
    /\ BeginAuthCall(h, Authenticating("resetPassword", "reset", 0,
                                       account.resetToken))

\* Mutant: only the deadline is cleared.
KeepingToken(row) == [row EXCEPT !.resetExpires = "null"]

ClearingToken(row) == [row EXCEPT !.resetToken = 0, !.resetExpires = "null"]

\* By id: whatever token the row has by now goes.
ResetPassword(h) ==
    /\ At(h, "reset")
    /\ account' = ClearingToken(account)
    /\ spent' = spent \cup {<<"token", call[h].using>>}
    /\ WritesAndBecomes(h, Idle)
    /\ UNCHANGED <<second, letters, replaced>>

ResetExpires ==
    /\ account.resetExpires = "ahead"
    /\ account' = [account EXCEPT !.resetExpires = "past"]
    /\ UNCHANGED <<second, letters, replaced, spent, flight>>

-----------------------------------------------------------------------------
(* The address *)

\* Mutant: a verified address may be verified again.
MayResendAnyway == Authenticated

MayResend == Authenticated /\ ~account.verified

resendVerificationEmail(h) ==
    /\ MayResend
    /\ BeginAuthCall(h, Authenticating("resendVerificationEmail", "mail", 0, 0))

MailToken(h) ==
    /\ At(h, "mail") /\ WritesLetter
    /\ account' = [account EXCEPT !.emailToken = NewLetter, !.emailExpires = "ahead"]
    /\ WritesAndBecomes(h, Idle)
    /\ UNCHANGED <<second, replaced, spent>>

verifyEmail(h) ==
    /\ account.emailToken # 0 /\ account.emailExpires # "past"
    /\ BeginAuthCall(h, Authenticating("verifyEmail", "confirm", 0,
                                       account.emailToken))

ConfirmEmail(h) ==
    /\ At(h, "confirm")
    /\ account' = [account EXCEPT !.verified = TRUE, !.emailToken = 0,
                                  !.emailExpires = "null"]
    /\ WritesAndBecomes(h, Idle)
    /\ UNCHANGED <<second, letters, replaced, spent>>

TwoDaysPass ==
    /\ account.emailExpires = "ahead"
    /\ account' = [account EXCEPT !.emailExpires = "past"]
    /\ UNCHANGED <<second, letters, replaced, spent, flight>>

\* A statement fails, or the process stops.
FailAuthCall(h) ==
    /\ InFlight(h) /\ call[h].op \in AuthMethod
    /\ Becomes(h, Idle)
    /\ UNCHANGED sessionVars

-----------------------------------------------------------------------------

SessionsInit ==
    /\ account = [exists |-> FALSE, blocked |-> FALSE, refreshToken |-> 0,
                  resetCode |-> 0, resetToken |-> 0, resetExpires |-> "null",
                  verified |-> FALSE, emailToken |-> 0, emailExpires |-> "null"]
    /\ second = 1 /\ letters = 0
    /\ replaced = {} /\ spent = {}

SessionsNext ==
    \/ \E h \in Handlers :
          \/ register(h) \/ InsertAccount(h) \/ login(h) \/ SignTokens(h) \/ StoreToken(h)
          \/ RevokeToken(h) \/ changePassword(h) \/ ChangePassword(h)
          \/ verifyResetCode(h) \/ GrantResetToken(h)
          \/ resetPassword(h) \/ ResetPassword(h)
          \/ resendVerificationEmail(h) \/ MailToken(h) \/ verifyEmail(h) \/ ConfirmEmail(h)
          \/ FailAuthCall(h)
    \/ \E h \in Handlers, t \in 0..MaxSeconds : refreshTokens(h, t)
    \/ \E b \in BOOLEAN : SetBlocked(b)
    \/ logout \/ requestPasswordReset
    \/ ASecondPasses \/ ResetExpires \/ TwoDaysPass

SessionsSpec == SessionsInit /\ CallsInit /\ [][SessionsNext]_<<sessionVars, flight>>

-----------------------------------------------------------------------------
(* Properties *)

Finishes(h, step) == At(h, step) /\ ~InFlight(h)'

\* A refresh token yields another one only while it is the current one: a token
\* that gave way does not, unless two calls used it at once (refreshTokens, "token
\* family detection").
ReplacedTokenYieldsNothing ==
    [][\A h \in Handlers :
           Finishes(h, "store") /\ call[h].op = "refreshTokens"
           /\ call[h].token \in replaced => ~call[h].alone]_sessionVars

\* Nobody is logged in again after logout() or the end of a token family but by
\* logging in, or by a refresh that was under way at that moment.
LoggedOutStaysOut ==
    [][account.refreshToken = 0 /\ account'.refreshToken # 0 =>
           \E h \in Handlers :
               /\ Finishes(h, "store")
               /\ call[h].op \in {"login", "register"} \/ ~call[h].alone]_sessionVars

\* A reset code gives one token and a token changes the password once, unless two
\* calls with the same one overlap (verifyResetCode, resetPassword).
ResetLettersUsedOnce ==
    [][\A h \in Handlers :
           (\/ Finishes(h, "grant") /\ <<"code", call[h].using>> \in spent
            \/ Finishes(h, "reset") /\ <<"token", call[h].using>> \in spent)
               => ~call[h].alone]_sessionVars

\* A verified address has no token to verify it with, unless another letter was
\* asked for while it was being verified (resendVerificationEmail).
VerifiedAsksNoMore ==
    [][account'.verified /\ account'.emailToken # 0 =>
           \/ account.verified /\ account.emailToken # 0
           \/ \E h \in Handlers : Finishes(h, "mail") /\ ~call[h].alone]_sessionVars

=============================================================================
