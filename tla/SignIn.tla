------------------------------- MODULE SignIn -------------------------------
(***************************************************************************)
(* Signing in to one account: the count of failures, the lockout, and      *)
(* multi-factor authentication with its backup codes (backend/apps/        *)
(* accounts).  Every request reads the row and saves some of its columns,  *)
(* ICT's all of them; nothing is locked, and another request may come in   *)
(* between.                                                                *)
(***************************************************************************)
EXTENDS Integers, FiniteSets

CONSTANTS
    MaxAttempts,    \* LOGIN_MAX_FAILED_ATTEMPTS
    MaxFailures,    \* bound on the failures of a behaviour
    MaxSecrets,     \* bound on the secrets drawn
    MaxIssues,      \* bound on the lists of backup codes issued
    SigCalls

ASSUME SignInAssumption ==
    /\ MaxAttempts \in Nat \ {0} /\ MaxFailures \in Nat
    /\ MaxSecrets \in Nat /\ MaxIssues \in Nat

VARIABLES
    account,        \* User: the columns of the sign-in
    unused,         \* MFABackupCode rows with no used_at; one code stands for each list
    current,        \* the list whose MFABackupCode rows exist, used or not
    drawn, lists,   \* secrets drawn and lists of codes issued
    app,            \* the secret in the owner's authenticator app
    sigCall,        \* per request: what it is about to do, and what it has read
    failures,       \* history: failures recorded since the last sign-in or unlocking
    uses,           \* history: sign-ins by backup code
    sigRaced,       \* history: something was saved on a stale read
    administered    \* history: ICT saved the row

sigVars == <<account, unused, current, drawn, lists, app, sigCall, failures, uses, sigRaced,
             administered>>

NoSecret == 0
NoCode == 0

\* User: `locked` is is_locked_out, the clock abstracted.
UserRow == [failed_login_attempts : Nat, locked : BOOLEAN, mfa_enabled : BOOLEAN,
            mfa_secret : 0..MaxSecrets]

SigIdle == [do |-> "none", password |-> FALSE, otp |-> NoCode, totp |-> FALSE,
            attempts |-> 0, secret |-> NoSecret, enabled |-> FALSE]

SigInit ==
    /\ account = [failed_login_attempts |-> 0, locked |-> FALSE, mfa_enabled |-> FALSE,
                  mfa_secret |-> NoSecret]
    /\ unused = {} /\ current = NoCode /\ drawn = 0 /\ lists = 0 /\ app = NoSecret
    /\ sigCall = [c \in SigCalls |-> SigIdle]
    /\ failures = 0
    /\ uses = [k \in 1..MaxIssues |-> 0]
    /\ sigRaced = FALSE /\ administered = FALSE

SigTypeOK ==
    /\ account \in UserRow
    /\ unused \subseteq 1..lists /\ current \in 0..lists /\ lists <= MaxIssues
    /\ app \in 0..drawn /\ drawn <= MaxSecrets
    /\ failures \in 0..MaxFailures

Becomes(c, call) == sigCall' = [sigCall EXCEPT ![c] = call]
SigDone(c) == Becomes(c, SigIdle)

----------------------------------------------------------------------------
(* Signing in.                                                             *)

\* LoginSerializer.validate: a locked account is turned away before anything is
\* looked at, and the attempt is not counted.  An attempt has the right password or
\* not, and with the password a code of the app, a backup code, or none that is good.
BeginLogin(c, password, totp, otp) ==
    /\ sigCall[c] = SigIdle
    /\ ~account.locked
    /\ totp => password /\ otp = NoCode
    /\ otp # NoCode => password
    /\ Becomes(c, [SigIdle EXCEPT !.do = "verify", !.password = password, !.totp = totp,
                                  !.otp = otp])
    /\ UNCHANGED <<account, unused, current, drawn, lists, app, failures, uses, sigRaced,
                   administered>>

\* verify_mfa_code, up to the save: a code of the secret on record, or an unused
\* backup code.
TotpMatches(call, secret) == call.totp /\ secret # NoSecret /\ app = secret
BackupMatches(call) == call.otp \in unused

\* super().validate reads the row afresh; a backup code is found, not yet marked.
VerifyLogin(c) ==
    LET call == sigCall[c]
        next == IF ~call.password THEN "fail"
                ELSE IF ~account.mfa_enabled \/ TotpMatches(call, account.mfa_secret) THEN "succeed"
                ELSE IF BackupMatches(call) THEN "use code" ELSE "fail"
    IN  /\ call.do = "verify"
        /\ Becomes(c, [call EXCEPT !.do = next])
        /\ UNCHANGED <<account, unused, current, drawn, lists, app, failures, uses, sigRaced,
                   administered>>

\* The backup code gets its used_at.  A row deleted meanwhile is not saved: the
\* UPDATE finds nothing, which is an error, and the attempt counts as failed.
UseBackupCode(c) ==
    LET call == sigCall[c]
        k == call.otp
        found == k = current
    IN  /\ call.do = "use code"
        /\ unused' = unused \ {k}
        /\ uses' = IF found THEN [uses EXCEPT ![k] = @ + 1] ELSE uses
        /\ sigRaced' = (sigRaced \/ (found /\ k \notin unused))
        /\ Becomes(c, [call EXCEPT !.do = IF found THEN "succeed" ELSE "fail"])
        /\ UNCHANGED <<account, current, drawn, lists, app, failures, administered>>

\* Mutant: a sign-in lifts the lockout and leaves the count.
RecordSuccessfulLoginKeepingCount(c) ==
    /\ sigCall[c].do = "succeed"
    /\ account' = [account EXCEPT !.locked = FALSE]
    /\ failures' = 0
    /\ SigDone(c)
    /\ UNCHANGED <<unused, current, drawn, lists, app, uses, sigRaced, administered>>

\* record_successful_login.
RecordSuccessfulLogin(c) ==
    /\ sigCall[c].do = "succeed"
    /\ account' = [account EXCEPT !.failed_login_attempts = 0, !.locked = FALSE]
    /\ failures' = 0
    /\ SigDone(c)
    /\ UNCHANGED <<unused, current, drawn, lists, app, uses, sigRaced, administered>>

\* record_failed_login reads the row.
LoadForFailure(c) ==
    /\ sigCall[c].do = "fail"
    /\ Becomes(c, [sigCall[c] EXCEPT !.do = "count", !.attempts = account.failed_login_attempts])
    /\ UNCHANGED <<account, unused, current, drawn, lists, app, failures, uses, sigRaced,
                   administered>>

\* record_failed_login saves the count it computed from what it read, and
\* locked_until only at the threshold.
RecordFailedLogin(c) ==
    LET attempts == sigCall[c].attempts + 1
    IN  /\ sigCall[c].do = "count"
        /\ failures < MaxFailures
        /\ account' = [account EXCEPT !.failed_login_attempts = attempts,
                                      !.locked = @ \/ attempts >= MaxAttempts]
        /\ failures' = failures + 1
        /\ sigRaced' = (sigRaced \/ sigCall[c].attempts # account.failed_login_attempts)
        /\ SigDone(c)
        /\ UNCHANGED <<unused, current, drawn, lists, app, uses, administered>>

\* LOGIN_LOCKOUT_MINUTES pass.  The count stays.
LockExpires ==
    /\ account.locked
    /\ account' = [account EXCEPT !.locked = FALSE]
    /\ UNCHANGED <<unused, current, drawn, lists, app, sigCall, failures, uses, sigRaced,
                   administered>>

----------------------------------------------------------------------------
(* Multi-factor authentication, by a user who is signed in.                *)

\* The request is authenticated: request.user is the row of this moment.  ICT's
\* requests get the row from the queryset.
LoadUser(c, what) ==
    /\ sigCall[c] = SigIdle
    /\ Becomes(c, [SigIdle EXCEPT !.do = what, !.secret = account.mfa_secret,
                                  !.enabled = account.mfa_enabled])
    /\ UNCHANGED <<account, unused, current, drawn, lists, app, failures, uses, sigRaced,
                   administered>>

\* What request c loaded is no longer the row.
Stale(c) == <<sigCall[c].secret, sigCall[c].enabled>>
               # <<account.mfa_secret, account.mfa_enabled>>

\* start_mfa_enrolment: MFAAlreadyEnabled, or a new secret, which the owner's
\* app takes from the answer.
StartMfaEnrolment(c) ==
    /\ sigCall[c].do = "start"
    /\ IF sigCall[c].enabled
       THEN UNCHANGED <<account, drawn, app, sigRaced>>
       ELSE /\ drawn < MaxSecrets
            /\ drawn' = drawn + 1 /\ app' = drawn'
            /\ account' = [account EXCEPT !.mfa_secret = drawn']
            /\ sigRaced' = (sigRaced \/ Stale(c))
    /\ SigDone(c)
    /\ UNCHANGED <<unused, current, lists, failures, uses, administered>>

\* confirm_mfa_enrolment: MFANotStarted, InvalidMFACode, or MFA is enabled and
\* _issue_backup_codes replaces the list, in one transaction.  It saves
\* mfa_enabled and never looks at the secret again.
ConfirmMfaEnrolment(c) ==
    LET accepted == sigCall[c].secret # NoSecret /\ app = sigCall[c].secret
    IN  /\ sigCall[c].do = "confirm"
        /\ IF ~accepted
           THEN UNCHANGED <<account, unused, current, lists, sigRaced>>
           ELSE /\ lists < MaxIssues
                /\ account' = [account EXCEPT !.mfa_enabled = TRUE]
                /\ lists' = lists + 1 /\ current' = lists' /\ unused' = {lists'}
                /\ sigRaced' = (sigRaced \/ Stale(c))
        /\ SigDone(c)
        /\ UNCHANGED <<drawn, app, failures, uses, administered>>

\* disable_mfa, in one transaction.
DisableMfa(c) ==
    /\ sigCall[c].do = "disable"
    /\ account' = [account EXCEPT !.mfa_enabled = FALSE, !.mfa_secret = NoSecret]
    /\ unused' = {} /\ current' = NoCode
    /\ SigDone(c)
    /\ UNCHANGED <<drawn, lists, app, failures, uses, sigRaced, administered>>

----------------------------------------------------------------------------
(* ICT.                                                                    *)

\* PUT and PATCH of UserAdminSerializer, and the form of UserAdmin: a switch of
\* mfa_enabled, which touches neither secret nor codes; in the form the count and
\* locked_until too; and whatever else is edited, every column is saved, the secret
\* as it was loaded.
AdministerAccount(c, enabled, attempts, locked) ==
    /\ sigCall[c].do = "administer"
    /\ account' = [failed_login_attempts |-> attempts, locked |-> locked,
                   mfa_enabled |-> enabled, mfa_secret |-> sigCall[c].secret]
    /\ administered' = TRUE
    /\ SigDone(c)
    /\ UNCHANGED <<unused, current, drawn, lists, app, failures, uses, sigRaced>>

\* UserAdmin.unlock_accounts, one UPDATE.
UnlockAccounts ==
    /\ account' = [account EXCEPT !.failed_login_attempts = 0, !.locked = FALSE]
    /\ failures' = 0
    /\ UNCHANGED <<unused, current, drawn, lists, app, sigCall, uses, sigRaced, administered>>

SigNext ==
    \/ LockExpires \/ UnlockAccounts
    \/ \E c \in SigCalls :
          \/ \E password, totp \in BOOLEAN, otp \in unused \cup {NoCode} :
                BeginLogin(c, password, totp, otp)
          \/ \E what \in {"start", "confirm", "disable", "administer"} : LoadUser(c, what)
          \/ \E enabled, locked \in BOOLEAN, attempts \in 0..MaxFailures :
                AdministerAccount(c, enabled, attempts, locked)
          \/ VerifyLogin(c) \/ UseBackupCode(c) \/ RecordSuccessfulLogin(c)
          \/ LoadForFailure(c) \/ RecordFailedLogin(c)
          \/ StartMfaEnrolment(c) \/ ConfirmMfaEnrolment(c) \/ DisableMfa(c)

SigSpec == SigInit /\ [][SigNext]_sigVars

----------------------------------------------------------------------------
\* As long as ICT has not written the row, backup codes go with the MFA they were
\* issued for, whatever overlaps (confirm_mfa_enrolment, disable_mfa).  And as long as no
\* request has saved on a stale read either: the count is that of the failures since the
\* last sign-in or unlocking, a lockout has its failures, an account with MFA takes the
\* codes of its owner's app.  A backup code signs in "exactly once" (MFABackupCode) even
\* then, stale reads excepted.
SignInIsSound ==
    /\ ~administered /\ ~account.mfa_enabled => unused = {}
    /\ ~administered /\ ~sigRaced =>
          /\ account.failed_login_attempts = failures
          /\ account.locked => failures >= MaxAttempts
          /\ account.mfa_enabled => account.mfa_secret = app /\ app # NoSecret
    /\ ~sigRaced => \A k \in 1..MaxIssues : uses[k] <= 1
=============================================================================
