------------------------------ MODULE Referrals ------------------------------
(***************************************************************************)
(* Referral codes and the coins they earn (referral.service.ts).  A code is  *)
(* made when it is first asked for; redeeming somebody's code pays both.     *)
(***************************************************************************)
EXTENDS Handlers, Integers, FiniteSets

CONSTANTS
    Members,       \* the users
    ReferralCodes, \* the codes generateCode draws from
    RefereeBonus, ReferrerBonus

VARIABLES
    members,       \* User: referralCode, referredBy, coinsBalance
    coinLog,       \* CoinTransaction, as the sum of the rows of each user
    shared         \* history: the codes handed out, with whose they were

referralVars == <<members, coinLog, shared>>

Nobody == "nobody"

NoCode == "noCode"

ASSUME ReferralsAssumption ==
    /\ IsFiniteSet(Members) /\ Nobody \notin Members
    /\ NoCode \notin ReferralCodes
    /\ RefereeBonus \in Nat /\ ReferrerBonus \in Nat

ReferralsInit ==
    /\ members = [u \in Members |-> [code |-> NoCode, referredBy |-> Nobody, coins |-> 0]]
    /\ coinLog = [u \in Members |-> 0]
    /\ shared = {}

(* A code that is set is returned as it is, and else one is made, later. *)
LookUpCode(r, u, frame) ==
    IF members[u].code # NoCode
    THEN End(r) /\ shared' = shared \cup {<<u, members[u].code>>}
    ELSE Goto(r, frame) /\ UNCHANGED shared

GetSummary(r, u) ==
    /\ "referral" \in calls /\ At(r, "idle")
    /\ LookUpCode(r, u, [at |-> "generate", user |-> u])
    /\ UNCHANGED <<members, coinLog>>

(* The draw is repeated while the unique key refuses it, five times at most. *)
GenerateCode(r) ==
    /\ At(r, "generate")
    /\ \/ /\ \E c \in ReferralCodes \ {members[v].code : v \in Members \ {req[r].user}} :
                /\ members' = [members EXCEPT ![req[r].user].code = c]
                /\ shared' = shared \cup {<<req[r].user, c>>}
       \/ UNCHANGED <<members, shared>>
    /\ End(r)
    /\ UNCHANGED coinLog

(* redeem reads the redeemer, *)
Redeem(r, u, c) ==
    /\ members[u].referredBy = Nobody
    /\ Begin(r, "redeem", [at |-> "referrer", user |-> u, code |-> c])
    /\ UNCHANGED referralVars

(* looks for whose code it is, *)
FindReferrer(r) ==
    LET u == req[r].user
        owners == {v \in Members \ {u} : members[v].code = req[r].code}
    IN  /\ At(r, "referrer")
        /\ IF owners = {} THEN End(r)
           ELSE \E v \in owners : Goto(r, [at |-> "bonuses", user |-> u, referrer |-> v])
        /\ UNCHANGED referralVars

Credited(member, bonus) == [member EXCEPT !.coins = @ + bonus]

(* Faulty: who referred the redeemer is not written down. *)
PayBonusesUnmarked(r) ==
    LET u == req[r].user
        v == req[r].referrer
    IN  /\ At(r, "bonuses")
        /\ coinLog' = [coinLog EXCEPT ![u] = @ + RefereeBonus, ![v] = @ + ReferrerBonus]
        /\ members' = [members EXCEPT ![u] = Credited(@, RefereeBonus), ![v] = Credited(@, ReferrerBonus)]
        /\ LookUpCode(r, u, [at |-> "generate", user |-> u])

(* and writes the four rows in one transaction; then the summary, as above. *)
PayBonuses(r) ==
    LET u == req[r].user
        v == req[r].referrer
    IN  /\ At(r, "bonuses")
        /\ coinLog' = [coinLog EXCEPT ![u] = @ + RefereeBonus, ![v] = @ + ReferrerBonus]
        /\ members' = [members EXCEPT ![u] = [Credited(@, RefereeBonus) EXCEPT !.referredBy = v],
                                      ![v] = Credited(@, ReferrerBonus)]
        /\ LookUpCode(r, u, [at |-> "generate", user |-> u])

ReferralsStep(r) ==
    \/ \E u \in Members : GetSummary(r, u) \/ \E c \in ReferralCodes : Redeem(r, u, c)
    \/ GenerateCode(r) \/ FindReferrer(r) \/ PayBonuses(r)

ReferralsNext == \E r \in Requests : ReferralsStep(r) \/ (Abort(r) /\ UNCHANGED referralVars)

ReferralsSpec == HandlersInit /\ ReferralsInit /\ [][ReferralsNext]_<<referralVars, handlerVars>>

(* A user's code, once handed out, leads to its user ("sharing it always        *)
(* works"), and the coins a user was given are exactly those of the invitations  *)
(* on record: one bonus for being referred and one for every user who names the  *)
(* user.  Two redemptions of one account that overlap are both paid, and two     *)
(* first calls each make a code, of which the earlier is lost.                   *)
ReferralsAgree ==
    ~overlapped =>
        /\ \A s \in shared : members[s[1]].code = s[2]
        /\ \A u \in Members :
            /\ coinLog[u] = members[u].coins
            /\ members[u].coins =
                (IF members[u].referredBy = Nobody THEN 0 ELSE RefereeBonus)
                + ReferrerBonus * Cardinality({v \in Members : members[v].referredBy = u})

=============================================================================
