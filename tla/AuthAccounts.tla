---------------------------- MODULE AuthAccounts ----------------------------
(***************************************************************************)
(* The accounts and tokens of nano-pulse-auth: AuthenticationService       *)
(* register and login as AuthController serves them, many requests at a    *)
(* time, over the collections "users" and "tokens" of MongoDB.             *)
(*                                                                         *)
(* A repository call is one step.  save writes the whole document that was *)
(* loaded.  The unique index that User declares on email is never created: *)
(* nothing in MongoConfig turns the creation of indexes on.                *)
(*                                                                         *)
(* A user document is named by the request that registered it, a token by  *)
(* the request that saved it.                                              *)
(***************************************************************************)
EXTENDS Naturals, FiniteSets

CONSTANTS
    Requests,
    Emails,
    MaxFailed   \* failed attempts that lock an account: 5

ASSUME AccountConstants == IsFiniteSet(Requests) /\ MaxFailed \in Nat \ {0}

VARIABLES
    op, email,          \* what each request asks for
    stored,             \* the user documents and two of their fields
    failedAttempts,
    accountNonLocked,
    token,              \* the token document each request saved
    pc,                 \* where a request is
    user,               \* the user document it works on, and
    seenAttempts,       \* the fields as it loaded them
    seenNonLocked,
    found,              \* valid tokens it found and did not revoke yet
    before              \* history: the requests finished before it began

inputVars == <<op, email>>
userVars  == <<stored, failedAttempts, accountNonLocked>>
loaded    == <<user, seenAttempts, seenNonLocked>>
vars      == <<inputVars, userVars, token, pc, loaded, found, before>>

PC == {"start", "saveUser", "loadUser", "saveLogin", "findTokens", "revoke",
       "saveToken", "loadFailed", "saveFailed", "done", "refused", "rejected"}

Finished    == {r \in Requests : pc[r] \in {"done", "refused", "rejected"}}
Matching(e) == {u \in stored : email[u] = e}
\* The wrong passwords that were counted against an account.
Failures(u) == {r \in Requests : pc[r] = "refused" /\ user[r] = u}

TypeOK ==
    /\ op \in [Requests -> {"register", "login", "wrongPassword"}]
    /\ email \in [Requests -> Emails]
    /\ stored \subseteq Requests
    /\ failedAttempts \in [Requests -> Nat]
    /\ accountNonLocked \in [Requests -> BOOLEAN]
    /\ token \in [Requests -> {"none", "valid", "revoked"}]
    /\ pc \in [Requests -> PC]
    /\ user \in [Requests -> Requests]
    /\ \A r \in Requests : token[r] # "none" => user[r] \in stored
    /\ seenAttempts \in [Requests -> Nat]
    /\ seenNonLocked \in [Requests -> BOOLEAN]
    /\ found \in [Requests -> SUBSET Requests]
    /\ before \in [Requests -> SUBSET Requests]

Init ==
    /\ op \in [Requests -> {"register", "login", "wrongPassword"}]
    /\ email \in [Requests -> Emails]
    /\ stored = {}
    /\ failedAttempts = [r \in Requests |-> 0]
    /\ accountNonLocked = [r \in Requests |-> TRUE]
    /\ token = [r \in Requests |-> "none"]
    /\ pc = [r \in Requests |-> "start"]
    /\ user = [r \in Requests |-> r]
    /\ seenAttempts = [r \in Requests |-> 0]
    /\ seenNonLocked = [r \in Requests |-> TRUE]
    /\ found = [r \in Requests |-> {}]
    /\ before = [r \in Requests |-> {}]

Goto(r, label) == pc' = [pc EXCEPT ![r] = label]
Begin(r) == pc[r] = "start" /\ before' = [before EXCEPT ![r] = Finished]

-----------------------------------------------------------------------------
(* register *)

CheckNothing(r) ==
    /\ Begin(r) /\ op[r] = "register"
    /\ Goto(r, "saveUser")
    /\ UNCHANGED <<inputVars, userVars, token, loaded, found>>

\* existsByEmail: UserAlreadyExistsException, or the request goes on.
CheckEmail(r) ==
    /\ Begin(r) /\ op[r] = "register"
    /\ Goto(r, IF Matching(email[r]) # {} THEN "rejected" ELSE "saveUser")
    /\ UNCHANGED <<inputVars, userVars, token, loaded, found>>

SaveUser(r) ==
    /\ pc[r] = "saveUser"
    /\ stored' = stored \cup {r}
    /\ failedAttempts' = [failedAttempts EXCEPT ![r] = 0]
    /\ accountNonLocked' = [accountNonLocked EXCEPT ![r] = TRUE]
    /\ Goto(r, "saveToken")
    /\ UNCHANGED <<inputVars, token, loaded, found, before>>

-----------------------------------------------------------------------------
(* login *)

\* authenticate loads the user.  No user is BadCredentialsException, like a wrong
\* password; two of them, or a locked account, are other exceptions, that login
\* does not catch.
Authenticate(r) ==
    /\ Begin(r) /\ op[r] # "register"
    /\ \/ /\ Cardinality(Matching(email[r])) > 1
          /\ Goto(r, "rejected")
       \/ /\ Matching(email[r]) = {}
          /\ Goto(r, "loadFailed")
       \/ \E u \in Requests :
            /\ Matching(email[r]) = {u}
            /\ Goto(r, IF ~accountNonLocked[u] THEN "rejected"
                       ELSE IF op[r] = "login" THEN "loadUser" ELSE "loadFailed")
    /\ UNCHANGED <<inputVars, userVars, token, loaded, found>>

\* findByEmail(...).orElseThrow(), by login and by handleFailedLogin.
Load(r, from, to) ==
    /\ pc[r] = from
    /\ \/ /\ Cardinality(Matching(email[r])) # 1
          /\ Goto(r, "rejected")
          /\ UNCHANGED loaded
       \/ \E u \in Requests :
            /\ Matching(email[r]) = {u}
            /\ user' = [user EXCEPT ![r] = u]
            /\ seenAttempts' = [seenAttempts EXCEPT ![r] = failedAttempts[u]]
            /\ seenNonLocked' = [seenNonLocked EXCEPT ![r] = accountNonLocked[u]]
            /\ Goto(r, to)
    /\ UNCHANGED <<inputVars, userVars, token, found, before>>

LoadUser(r)   == Load(r, "loadUser", "saveLogin")
LoadFailed(r) == Load(r, "loadFailed", "saveFailed")

\* The whole document as it was loaded, but for failedAttempts.
SaveLogin(r) ==
    /\ pc[r] = "saveLogin"
    /\ failedAttempts' = [failedAttempts EXCEPT ![user[r]] = 0]
    /\ accountNonLocked' = [accountNonLocked EXCEPT ![user[r]] = seenNonLocked[r]]
    /\ Goto(r, "findTokens")
    /\ UNCHANGED <<inputVars, stored, token, loaded, found, before>>

\* revokeAllUserTokens: the valid tokens are loaded, then saved one by one.
FindTokens(r) ==
    /\ pc[r] = "findTokens"
    /\ found' = [found EXCEPT ![r] =
                   {q \in Requests : token[q] = "valid" /\ user[q] = user[r]}]
    /\ Goto(r, "revoke")
    /\ UNCHANGED <<inputVars, userVars, token, loaded, before>>

RevokeOne(r, q) ==
    /\ pc[r] = "revoke" /\ q \in found[r]
    /\ token' = [token EXCEPT ![q] = "revoked"]
    /\ found' = [found EXCEPT ![r] = {}]
    /\ UNCHANGED <<inputVars, userVars, pc, loaded, before>>

RevokeToken(r, q) ==
    /\ pc[r] = "revoke" /\ q \in found[r]
    /\ token' = [token EXCEPT ![q] = "revoked"]
    /\ found' = [found EXCEPT ![r] = @ \ {q}]
    /\ UNCHANGED <<inputVars, userVars, pc, loaded, before>>

\* saveUserToken, the end of register and of login.
SaveToken(r) ==
    /\ pc[r] = "saveToken" \/ (pc[r] = "revoke" /\ found[r] = {})
    /\ token' = [token EXCEPT ![r] = "valid"]
    /\ Goto(r, "done")
    /\ UNCHANGED <<inputVars, userVars, loaded, found, before>>

LockEarly(r) ==
    /\ pc[r] = "saveFailed"
    /\ failedAttempts' = [failedAttempts EXCEPT ![user[r]] = seenAttempts[r] + 1]
    /\ accountNonLocked' = [accountNonLocked EXCEPT ![user[r]] =
                              seenNonLocked[r] /\ seenAttempts[r] + 2 < MaxFailed]
    /\ Goto(r, "refused")
    /\ UNCHANGED <<inputVars, stored, token, loaded, found, before>>

\* handleFailedLogin: the count that was loaded, plus one; at the limit the
\* account is locked, and nothing unlocks it again.
SaveFailed(r) ==
    /\ pc[r] = "saveFailed"
    /\ failedAttempts' = [failedAttempts EXCEPT ![user[r]] = seenAttempts[r] + 1]
    /\ accountNonLocked' = [accountNonLocked EXCEPT ![user[r]] =
                              seenNonLocked[r] /\ seenAttempts[r] + 1 < MaxFailed]
    /\ Goto(r, "refused")
    /\ UNCHANGED <<inputVars, stored, token, loaded, found, before>>

\* A repository call throws.  What it was to write may have been written: that is
\* the step and then this one, but for the last write of a request, whose lost
\* answer is not told from the one that arrives.
RequestFails(r) ==
    /\ pc[r] # "start" /\ r \notin Finished
    /\ Goto(r, "rejected")
    /\ UNCHANGED <<inputVars, userVars, token, loaded, found, before>>

Register(r) == CheckEmail(r) \/ SaveUser(r)

Login(r) ==
    \/ Authenticate(r) \/ LoadUser(r) \/ SaveLogin(r) \/ FindTokens(r)
    \/ \E q \in Requests : RevokeToken(r, q)
    \/ LoadFailed(r) \/ SaveFailed(r)

Next == \E r \in Requests : Register(r) \/ Login(r) \/ SaveToken(r) \/ RequestFails(r)

Spec == Init /\ [][Next]_vars

-----------------------------------------------------------------------------
(* Properties *)

\* Nobody is locked out by less than MaxFailed wrong passwords, although every
\* count is read, incremented and saved among those of other logins.
LockEarned ==
    \A u \in stored : ~accountNonLocked[u] => Cardinality(Failures(u)) >= MaxFailed

\* A login that succeeded ended every session that was there before it began,
\* however the logins of the same user run across each other.
LoginSupersedes ==
    \A r, q \in Requests :
        pc[r] = "done" /\ op[r] = "login" /\ q \in before[r] /\ user[q] = user[r]
            => token[q] # "valid"

\* "Email already registered": two accounts get the same email only when the one
\* registration was under way during the other.
DuplicatesOverlap ==
    \A r, q \in stored : r # q /\ email[r] = email[q] => q \notin before[r]
=============================================================================
