------------------------------ MODULE Sessions ------------------------------
(***************************************************************************)
(* Signing in with a code, refreshing and ending sessions, and deleting an  *)
(* account, of the customer (auth.service.ts) and of the kitchen partner    *)
(* (kitchen-auth.service.ts), for one telephone number.  The two realms     *)
(* have accounts and tokens of their own and share the table of codes.      *)
(***************************************************************************)
EXTENDS Handlers, Naturals, Sequences, FiniteSetsExt

CONSTANTS
    Users, Partners,   \* ids of customer and of partner accounts
    Owners,            \* the users a kitchen is linked to from before partner accounts
    SmsLimit,          \* SMS_RATE_LIMIT of the partner's realm
    MaxCodes,          \* bound: codes ever sent
    MaxTokens,         \* bound: refresh tokens ever issued
    MaxOuts            \* bound: logouts and deletions of an account

ASSUME SessionsAssumption == Users \cap Partners = {}

VARIABLES
    accounts,  \* users and kitchen_accounts: their status, and whether the number is theirs
    codes,     \* otp_logs, oldest first; pairs counts the sign-ins a code was good for
    tokens,    \* refresh_tokens and kitchen_refresh_tokens; used counts exchanges
    outs       \* history: how often each account was logged out of or deleted

sessionVars == <<accounts, codes, tokens, outs>>

Accounts == Users \cup Partners
Purposes == {"LOGIN", "VERIFY_PHONE", "ACCOUNT_DELETION"}

SessionsInit ==
    /\ accounts = [a \in Accounts |-> [status |-> "NONE", hasPhone |-> FALSE]]
    /\ codes = <<>>
    /\ tokens = <<>>
    /\ outs = [a \in Accounts |-> 0]

-----------------------------------------------------------------------------
(* Codes.  Storing one and sending it are two things: the message may fail. *)

AddCode(purpose) ==
    /\ Len(codes) < MaxCodes
    /\ \E arrives \in BOOLEAN :
          codes' = Append(codes, [purpose |-> purpose, state |-> "unused", age |-> "valid",
                                  known |-> arrives, pairs |-> 0])

(* The code a sign-in is compared with: the newest unused one that is valid. *)
Newest(purposes) ==
    LET live == {i \in DOMAIN codes : /\ codes[i].purpose \in purposes
                                      /\ codes[i].state = "unused"
                                      /\ codes[i].age = "valid"}
    IN  IF live = {} THEN 0 ELSE Max(live)

Matches(i, purposes) == i \in DOMAIN codes /\ codes[i].known /\ i = Newest(purposes)

SetCode(i, state) == codes' = [codes EXCEPT ![i].state = state]

(* The customer's sendOtp: checkRateLimit belongs to the Redis stub and lets all pass. *)
SendOtp ==
    /\ Instant("sendOtp")
    /\ AddCode("LOGIN")
    /\ UNCHANGED <<accounts, tokens, outs>>

RequestAccountDeletion ==
    /\ Instant("requestDeletion")
    /\ AddCode("ACCOUNT_DELETION")
    /\ UNCHANGED <<accounts, tokens, outs>>

SentThisHour(purpose) ==
    Cardinality({i \in DOMAIN codes : /\ codes[i].purpose = purpose
                                      /\ codes[i].age # "old"
                                      /\ codes[i].state # "gone"})

(* The partner's realm counts the rows of the last hour first, *)
CountRecent(r, call, purpose) ==
    /\ SentThisHour(purpose) < SmsLimit
    /\ Begin(r, call, [at |-> "sms", purpose |-> purpose])
    /\ UNCHANGED sessionVars

PartnerSendOtp(r) == CountRecent(r, "partnerSendOtp", "VERIFY_PHONE")
PartnerRequestDeletion(r) == CountRecent(r, "partnerRequestDeletion", "ACCOUNT_DELETION")

(* and adds its own later. *)
PartnerAddCode(r) ==
    /\ At(r, "sms")
    /\ AddCode(req[r].purpose)
    /\ End(r)
    /\ UNCHANGED <<accounts, tokens, outs>>

(* Ten minutes pass, then an hour. *)
Older == [valid |-> "expired", expired |-> "old", old |-> "old"]

AgeCodes ==
    /\ "wait" \in calls
    /\ codes' = [i \in DOMAIN codes |-> [codes[i] EXCEPT !.age = Older[@]]]
    /\ UNCHANGED <<accounts, tokens, outs, handlerVars>>

-----------------------------------------------------------------------------
(* Signing in *)

(* At most one account of a realm has the number: phone is unique. *)
Holders(realm) == {a \in realm : accounts[a].hasPhone}

(* verifyOtp reads the newest code of any purpose. *)
VerifyOtp(r, i) ==
    /\ Matches(i, Purposes)
    /\ Begin(r, "verifyOtp", [at |-> "account", realm |-> Users, code |-> i])
    /\ UNCHANGED sessionVars

(* The partner's verifyOtp reads its own purpose, and uses the code up first. *)
PartnerVerifyOtp(r, i) ==
    /\ Matches(i, {"VERIFY_PHONE"})
    /\ Begin(r, "partnerVerifyOtp", [at |-> "use", realm |-> Partners, code |-> i])
    /\ UNCHANGED sessionVars

(* An update by id of a row that is gone throws. *)
PartnerUseCode(r) ==
    /\ At(r, "use")
    /\ IF codes[req[r].code].state = "gone"
       THEN End(r) /\ UNCHANGED codes
       ELSE SetCode(req[r].code, "used") /\ Continue(r, "account")
    /\ UNCHANGED <<accounts, tokens, outs>>

AfterAccount(r, a) ==
    Goto(r, [at |-> IF a \in Users THEN "mark" ELSE "token",
             account |-> a, born |-> outs[a], code |-> req[r].code, from |-> 0])

FindAccount(r) ==
    /\ At(r, "account")
    /\ IF Holders(req[r].realm) = {}
       THEN Continue(r, "create")
       ELSE \E a \in Holders(req[r].realm) : AfterAccount(r, a)
    /\ UNCHANGED sessionVars

(* The insert is refused when another request has been first: phone is unique. *)
CreateAccount(r) ==
    /\ At(r, "create")
    /\ IF Holders(req[r].realm) # {}
       THEN End(r) /\ UNCHANGED accounts
       ELSE \E a \in req[r].realm :
               /\ accounts[a].status = "NONE"
               /\ accounts' = [accounts EXCEPT ![a] = [status |-> "NEW", hasPhone |-> TRUE]]
               /\ AfterAccount(r, a)
    /\ UNCHANGED <<codes, tokens, outs>>

(* updateMany uses up every code of the number, whatever it was sent for. *)
MarkUsed(r) ==
    /\ At(r, "mark")
    /\ codes' = [i \in DOMAIN codes |->
                    IF codes[i].state = "unused" THEN [codes[i] EXCEPT !.state = "used"] ELSE codes[i]]
    /\ Continue(r, "token")
    /\ UNCHANGED <<accounts, tokens, outs>>

GenerateTokenPair(r) ==
    LET f == req[r]
        new == [owner |-> f.account, state |-> "active", born |-> f.born, used |-> 0]
    IN  /\ At(r, "token")
        /\ Len(tokens) < MaxTokens
        /\ tokens' = Append([t \in DOMAIN tokens |->
                               [tokens[t] EXCEPT !.used = IF t = f.from THEN @ + 1 ELSE @]], new)
        /\ codes' = [i \in DOMAIN codes |->
                               [codes[i] EXCEPT !.pairs = IF i = f.code THEN @ + 1 ELSE @]]
        /\ End(r)
        /\ UNCHANGED <<accounts, outs>>

-----------------------------------------------------------------------------
(* Refreshing and logging out *)

(* The row is found among the sessions that are not revoked, *)
RefreshToken(r, t) ==
    /\ tokens[t].state = "active"
    /\ Begin(r, "refresh", [at |-> "revoke", token |-> t])
    /\ UNCHANGED sessionVars

(* Faulty: the presented token stays as it is. *)
RotateWithoutRevoking(r) ==
    LET t == req[r].token
    IN  /\ At(r, "revoke")
        /\ Goto(r, [at |-> "token", account |-> tokens[t].owner, born |-> tokens[t].born,
                    code |-> 0, from |-> t])
        /\ UNCHANGED sessionVars

(* revoked by id, and a new pair issued to its user. *)
RotateToken(r) ==
    LET t == req[r].token
    IN  /\ At(r, "revoke")
        /\ IF tokens[t].state = "gone"
           THEN End(r) /\ UNCHANGED tokens
           ELSE /\ tokens' = [tokens EXCEPT ![t].state = "revoked"]
                /\ Goto(r, [at |-> "token", account |-> tokens[t].owner, born |-> tokens[t].born,
                            code |-> 0, from |-> t])
        /\ UNCHANGED <<accounts, codes, outs>>

(* An access token lives on for minutes after its session ended: the strategies   *)
(* look for the row, and let it pass whatever it has become.                      *)
Authenticates(a) == \E t \in DOMAIN tokens : tokens[t].owner = a

(* Every session of the account goes from "active" to the given state. *)
CloseSessions(a, state) ==
    tokens' = [t \in DOMAIN tokens |->
                  IF tokens[t].owner = a /\ (tokens[t].state = "active" \/ state = "gone")
                  THEN [tokens[t] EXCEPT !.state = state] ELSE tokens[t]]

SignedOut(a) == outs' = [outs EXCEPT ![a] = @ + 1]

(* Both branches of logout, with and without a token, revoke all sessions. *)
Logout(r, a) ==
    /\ Authenticates(a) /\ outs[a] < MaxOuts
    /\ Begin(r, "logout", [at |-> "logout", account |-> a])
    /\ UNCHANGED sessionVars

RevokeAll(r) ==
    /\ At(r, "logout")
    /\ CloseSessions(req[r].account, "revoked")
    /\ SignedOut(req[r].account)
    /\ End(r)
    /\ UNCHANGED <<accounts, codes>>

(* completeProfile marks the row as fully onboarded, whatever it was. *)
CompleteProfile(a) ==
    /\ Instant("completeProfile")
    /\ a \in Users /\ Authenticates(a)
    /\ accounts' = [accounts EXCEPT ![a].status = "ACTIVE"]
    /\ UNCHANGED <<codes, tokens, outs>>

-----------------------------------------------------------------------------
(* Deleting an account *)

ConfirmDeletion(r, call, realm, i) ==
    /\ Matches(i, {"ACCOUNT_DELETION"})
    /\ Begin(r, call, [at |-> "useDeletion", realm |-> realm, code |-> i])
    /\ UNCHANGED sessionVars

ConfirmAccountDeletion(r, i) == ConfirmDeletion(r, "confirmDeletion", Users, i)
PartnerConfirmDeletion(r, i) == ConfirmDeletion(r, "partnerConfirmDeletion", Partners, i)

UseDeletionCode(r) ==
    /\ At(r, "useDeletion")
    /\ IF codes[req[r].code].state = "gone"
       THEN End(r) /\ UNCHANGED codes
       ELSE SetCode(req[r].code, "used") /\ Continue(r, "findDeleted")
    /\ UNCHANGED <<accounts, tokens, outs>>

(* No account, or a listing that is closed by hand first, and it ends here. *)
FindDeleted(r) ==
    LET found == Holders(req[r].realm) \ Owners
    IN  /\ At(r, "findDeleted")
        /\ IF found = {} THEN End(r)
           ELSE \E a \in found : Goto(r, [at |-> "erase", account |-> a])
        /\ UNCHANGED sessionVars

(* Faulty: the sessions outlive the account. *)
EraseKeepingSessions(r) ==
    LET a == req[r].account
    IN  /\ At(r, "erase")
        /\ accounts' = [accounts EXCEPT ![a] = [status |-> "DELETED", hasPhone |-> FALSE]]
        /\ SignedOut(a)
        /\ End(r)
        /\ UNCHANGED <<codes, tokens>>

(* One transaction: sessions deleted, the row kept without the number; the     *)
(* customer's also deletes every code of the number.                           *)
EraseAccount(r) ==
    LET a == req[r].account
    IN  /\ At(r, "erase")
        /\ accounts' = [accounts EXCEPT ![a] = [status |-> "DELETED", hasPhone |-> FALSE]]
        /\ CloseSessions(a, "gone")
        /\ codes' = IF a \in Partners THEN codes
                    ELSE [i \in DOMAIN codes |-> [codes[i] EXCEPT !.state = "gone"]]
        /\ SignedOut(a)
        /\ End(r)

-----------------------------------------------------------------------------
SessionsStep(r) ==
    \/ PartnerSendOtp(r) \/ PartnerRequestDeletion(r) \/ PartnerAddCode(r)
    \/ \E i \in DOMAIN codes :
          \/ VerifyOtp(r, i) \/ PartnerVerifyOtp(r, i)
          \/ ConfirmAccountDeletion(r, i) \/ PartnerConfirmDeletion(r, i)
    \/ PartnerUseCode(r) \/ FindAccount(r) \/ CreateAccount(r) \/ MarkUsed(r) \/ GenerateTokenPair(r)
    \/ \E t \in DOMAIN tokens : RefreshToken(r, t)
    \/ RotateToken(r)
    \/ \E a \in Accounts : Logout(r, a)
    \/ RevokeAll(r)
    \/ UseDeletionCode(r) \/ FindDeleted(r) \/ EraseAccount(r)

SessionsAlone == SendOtp \/ RequestAccountDeletion \/ AgeCodes \/ \E a \in Accounts : CompleteProfile(a)

SessionsNext == SessionsAlone \/ \E r \in Requests : SessionsStep(r) \/ (Abort(r) /\ UNCHANGED sessionVars)

SessionsSpec == HandlersInit /\ SessionsInit /\ [][SessionsNext]_<<sessionVars, handlerVars>>

-----------------------------------------------------------------------------
(* A code signs in once and a token is exchanged once, whatever dies half way:   *)
(* "The old refresh token is revoked, so each token is single-use", and a        *)
(* customer's code is used up only after the account was found or created.  Two  *)
(* that overlap both find it; but the number never belongs to two accounts.      *)
SingleUse ==
    /\ Cardinality(Holders(Users)) <= 1 /\ Cardinality(Holders(Partners)) <= 1
    /\ ~overlapped =>
          /\ \A t \in DOMAIN tokens : tokens[t].used <= 1
          /\ \A i \in DOMAIN codes : codes[i].pairs <= 1

(* Logging out and deleting the account end every session there was: one that  *)
(* is open now descends from a sign-in after the last of them.  A refresh that *)
(* has read its token before a logout puts a session back.                     *)
SessionsEnd ==
    ~overlapped =>
        \A t \in DOMAIN tokens : tokens[t].state = "active" => tokens[t].born = outs[tokens[t].owner]

=============================================================================
