------------------------- MODULE AuthAccountsProofs -------------------------
(***************************************************************************)
(* Proofs about AuthAccounts, for any finite set of requests, any emails   *)
(* and any limit of failed attempts.                                       *)
(***************************************************************************)
EXTENDS AuthAccounts, FiniteSetTheorems, TLAPS

-----------------------------------------------------------------------------
(* Types, and the documents that requests work on *)

Working == {"saveLogin", "findTokens", "revoke", "saveToken", "saveFailed"}

\* A request that is past its loads works on documents that are stored.
UserStored ==
    \A r \in Requests :
        /\ pc[r] \in {"start", "saveUser"} => user[r] = r
        /\ pc[r] \in Working => user[r] \in stored
        /\ \A q \in found[r] : token[q] # "none"

TypeInv == TypeOK /\ UserStored

LEMMA InitType == Init => TypeInv
BY DEF Init, TypeInv, TypeOK, UserStored, PC, Working

LEMMA NextType == TypeInv /\ [Next]_vars => TypeInv'
<1> SUFFICES ASSUME TypeInv, [Next]_vars PROVE TypeInv'
    OBVIOUS
<1> USE DEF TypeInv, TypeOK, UserStored, PC, Working, Goto, Begin,
            inputVars, userVars, loaded
<1>1. ASSUME NEW r \in Requests, CheckEmail(r) PROVE TypeInv'
    BY <1>1 DEF CheckEmail, Finished
<1>2. ASSUME NEW r \in Requests, SaveUser(r) PROVE TypeInv'
    BY <1>2 DEF SaveUser
<1>3. ASSUME NEW r \in Requests, Authenticate(r) PROVE TypeInv'
  <2>1. PICK label \in {"rejected", "loadFailed", "loadUser"} : pc' = [pc EXCEPT ![r] = label]
      BY <1>3 DEF Authenticate
  <2>2. UNCHANGED <<inputVars, userVars, token, loaded, found>>
      BY <1>3 DEF Authenticate
  <2>3. before' \in [Requests -> SUBSET Requests]
      BY <1>3 DEF Authenticate, Finished
  <2>4. QED
      BY <2>1, <2>2, <2>3
<1>4. ASSUME NEW r \in Requests, NEW from \in PC, NEW to \in PC, Load(r, from, to),
             from \notin Working \cup {"saveUser"}, to \in Working
      PROVE  TypeInv'
  <2>1. CASE Goto(r, "rejected") /\ UNCHANGED loaded
      BY <1>4, <2>1 DEF Load
  <2>2. ASSUME NEW u \in Requests, Matching(email[r]) = {u},
               user' = [user EXCEPT ![r] = u],
               seenAttempts' = [seenAttempts EXCEPT ![r] = failedAttempts[u]],
               seenNonLocked' = [seenNonLocked EXCEPT ![r] = accountNonLocked[u]],
               Goto(r, to)
        PROVE  TypeInv'
    <3>1. u \in stored
        BY <2>2 DEF Matching
    <3>2. UNCHANGED <<inputVars, userVars, token, found, before>>
        BY <1>4 DEF Load
    <3>3. TypeOK'
        BY <2>2, <3>1, <3>2
    <3>4. UserStored'
        BY <1>4, <2>2, <3>1, <3>2
    <3>5. QED
        BY <3>3, <3>4
  <2>3. QED
      BY <1>4, <2>1, <2>2 DEF Load
<1>5. ASSUME NEW r \in Requests, SaveLogin(r) PROVE TypeInv'
    BY <1>5 DEF SaveLogin
<1>6. ASSUME NEW r \in Requests, FindTokens(r) PROVE TypeInv'
    BY <1>6 DEF FindTokens
<1>7. ASSUME NEW r \in Requests, NEW q \in Requests, RevokeToken(r, q) PROVE TypeInv'
    BY <1>7 DEF RevokeToken
<1>8. ASSUME NEW r \in Requests, SaveFailed(r) PROVE TypeInv'
    BY <1>8 DEF SaveFailed
<1>9. ASSUME NEW r \in Requests, SaveToken(r) PROVE TypeInv'
    BY <1>9 DEF SaveToken
<1>10. ASSUME NEW r \in Requests, RequestFails(r) PROVE TypeInv'
    BY <1>10 DEF RequestFails
<1>11. CASE UNCHANGED vars
    BY <1>11 DEF vars
<1>12. QED
    BY <1>1, <1>2, <1>3, <1>4, <1>5, <1>6, <1>7, <1>8, <1>9, <1>10, <1>11
    DEF Next, Register, Login, LoadUser, LoadFailed

\* The state of accounts, tokens and requests has its type, and every token
\* belongs to an account that is stored.
THEOREM TypeCorrect == Spec => []TypeOK
<1>1. TypeInv => TypeOK
    BY DEF TypeInv
<1>2. QED
    BY InitType, NextType, <1>1, PTL DEF Spec

-----------------------------------------------------------------------------
(* Requests that finished stay as they are *)

\* What no step does: touch a request that finished, or the account of one that
\* was counted as a failure.
LEMMA FinishedStay ==
    ASSUME TypeInv, [Next]_vars
    PROVE  /\ op' = op /\ email' = email
           /\ \A q \in Finished : pc'[q] = pc[q] /\ user'[q] = user[q]
           /\ \A q \in Finished : token'[q] = "valid" => token[q] = "valid"
           /\ \A q \in Finished : q \in stored' => q \in stored
<1> USE DEF TypeInv, TypeOK, Finished, Goto, Begin, inputVars, userVars, loaded
<1>1. CASE UNCHANGED vars
    BY <1>1 DEF vars
<1>2. ASSUME NEW r \in Requests, LoadUser(r) \/ LoadFailed(r)
      PROVE  /\ op' = op /\ email' = email
             /\ \A q \in Finished : pc'[q] = pc[q] /\ user'[q] = user[q]
             /\ \A q \in Finished : token'[q] = "valid" => token[q] = "valid"
             /\ \A q \in Finished : q \in stored' => q \in stored
    BY <1>2 DEF LoadUser, LoadFailed, Load
<1>3. ASSUME NEW r \in Requests, NEW q \in Requests, RevokeToken(r, q)
      PROVE  /\ op' = op /\ email' = email
             /\ \A p \in Finished : pc'[p] = pc[p] /\ user'[p] = user[p]
             /\ \A p \in Finished : token'[p] = "valid" => token[p] = "valid"
             /\ \A p \in Finished : p \in stored' => p \in stored
    BY <1>3 DEF RevokeToken
<1>4. ASSUME NEW r \in Requests,
             \/ CheckEmail(r) \/ SaveUser(r) \/ Authenticate(r) \/ SaveLogin(r)
             \/ FindTokens(r) \/ SaveFailed(r) \/ SaveToken(r) \/ RequestFails(r)
      PROVE  /\ op' = op /\ email' = email
             /\ \A q \in Finished : pc'[q] = pc[q] /\ user'[q] = user[q]
             /\ \A q \in Finished : token'[q] = "valid" => token[q] = "valid"
             /\ \A q \in Finished : q \in stored' => q \in stored
    BY <1>4 DEF CheckEmail, SaveUser, Authenticate, SaveLogin, FindTokens,
                SaveFailed, SaveToken, RequestFails
<1>5. QED
    BY <1>1, <1>2, <1>3, <1>4 DEF Next, Register, Login

-----------------------------------------------------------------------------
(* Locked accounts *)

LEMMA FailuresFinite ==
    ASSUME NEW u
    PROVE  IsFiniteSet(Failures(u)) /\ Cardinality(Failures(u)) \in Nat
<1>1. Failures(u) \in SUBSET Requests
    BY DEF Failures
<1>2. QED
    BY <1>1, AccountConstants, FS_Subset, FS_CardinalityType

LEMMA FailuresGrow ==
    ASSUME TypeInv, [Next]_vars, NEW u
    PROVE  /\ Failures(u) \subseteq Failures(u)'
           /\ IsFiniteSet(Failures(u)') /\ Cardinality(Failures(u)') \in Nat
           /\ Cardinality(Failures(u)) <= Cardinality(Failures(u)')
<1>1. Failures(u) \subseteq Failures(u)'
    BY FinishedStay DEF Failures, Finished
<1>2. IsFiniteSet(Failures(u)') /\ Cardinality(Failures(u)') \in Nat
  <2>1. Failures(u)' \in SUBSET Requests
      BY DEF Failures
  <2>2. QED
      BY <2>1, AccountConstants, FS_Subset, FS_CardinalityType
<1>3. QED
    BY <1>1, <1>2, FS_Subset

\* Every count, stored or loaded, is one of wrong passwords that were counted,
\* and every lock, stored or loaded, comes from enough of them.
StoredCount(u) ==
    /\ failedAttempts[u] <= Cardinality(Failures(u))
    /\ ~accountNonLocked[u] => Cardinality(Failures(u)) >= MaxFailed

LoadedCount(r) ==
    pc[r] \in {"saveLogin", "saveFailed"} =>
        \A u \in Requests : user[r] = u =>
            /\ seenAttempts[r] <= Cardinality(Failures(u))
            /\ ~seenNonLocked[r] => Cardinality(Failures(u)) >= MaxFailed

CountInv ==
    /\ \A u \in Requests : StoredCount(u)
    /\ \A r \in Requests : LoadedCount(r)

LEMMA InitCount == Init => CountInv
<1> SUFFICES ASSUME Init PROVE CountInv
    OBVIOUS
<1>1. \A u : Cardinality(Failures(u)) \in Nat
    BY FailuresFinite
<1>2. QED
    BY <1>1 DEF Init, CountInv, StoredCount, LoadedCount

LEMMA NextCount == TypeInv /\ CountInv /\ [Next]_vars => CountInv'
<1> SUFFICES ASSUME TypeInv, CountInv, [Next]_vars PROVE CountInv'
    OBVIOUS
<1>t. TypeOK /\ MaxFailed \in Nat
    BY AccountConstants DEF TypeInv
<1>g. \A u : /\ Cardinality(Failures(u)) \in Nat /\ Cardinality(Failures(u)') \in Nat
             /\ Cardinality(Failures(u)) <= Cardinality(Failures(u)')
    BY FailuresFinite, FailuresGrow
<1>s. ASSUME NEW u \in Requests, failedAttempts'[u] = failedAttempts[u],
             accountNonLocked'[u] = accountNonLocked[u]
      PROVE  StoredCount(u)'
    BY <1>t, <1>g, <1>s DEF CountInv, TypeOK, StoredCount
<1>l. ASSUME NEW r \in Requests, pc'[r] \in {"saveLogin", "saveFailed"} => pc[r] = pc'[r],
             user'[r] = user[r], seenAttempts'[r] = seenAttempts[r],
             seenNonLocked'[r] = seenNonLocked[r]
      PROVE  LoadedCount(r)'
  <2> SUFFICES ASSUME pc'[r] \in {"saveLogin", "saveFailed"},
                      NEW u \in Requests, user[r] = u
               PROVE  /\ seenAttempts[r] <= Cardinality(Failures(u)')
                      /\ ~seenNonLocked[r] => Cardinality(Failures(u)') >= MaxFailed
      BY <1>l DEF LoadedCount
  <2>1. /\ seenAttempts[r] <= Cardinality(Failures(u))
        /\ ~seenNonLocked[r] => Cardinality(Failures(u)) >= MaxFailed
      BY <1>l DEF CountInv, LoadedCount
  <2>2. seenAttempts[r] \in Nat
      BY <1>t DEF TypeOK
  <2>3. QED
      BY <1>t, <1>g, <2>1, <2>2
<1>1. ASSUME NEW r \in Requests, LoadUser(r) \/ LoadFailed(r) PROVE CountInv'
  <2>1. \A u \in Requests : StoredCount(u)'
      BY <1>1, <1>s DEF LoadUser, LoadFailed, Load, userVars
  <2>2. ASSUME NEW q \in Requests, q # r PROVE LoadedCount(q)'
      BY <1>t, <1>1, <2>2, <1>l DEF LoadUser, LoadFailed, Load, Goto, loaded, TypeOK
  <2>3. LoadedCount(r)'
    <3>1. CASE Goto(r, "rejected")
        BY <1>t, <3>1 DEF Goto, TypeOK, LoadedCount
    <3>2. ASSUME NEW u \in Requests, user'[r] = u,
                 seenAttempts'[r] = failedAttempts[u],
                 seenNonLocked'[r] = accountNonLocked[u]
          PROVE  LoadedCount(r)'
        BY <1>t, <1>g, <3>2 DEF CountInv, TypeOK, StoredCount, LoadedCount
    <3>3. QED
        BY <1>t, <1>1, <3>1, <3>2 DEF LoadUser, LoadFailed, Load, TypeOK
  <2>4. QED
      BY <2>1, <2>2, <2>3 DEF CountInv
<1>2. ASSUME NEW r \in Requests, SaveLogin(r) PROVE CountInv'
  <2>1. \A q \in Requests : LoadedCount(q)'
      BY <1>t, <1>2, <1>l DEF SaveLogin, Goto, loaded, TypeOK
  <2>2. ASSUME NEW u \in Requests, u = user[r] PROVE StoredCount(u)'
    <3>1. failedAttempts'[u] = 0 /\ accountNonLocked'[u] = seenNonLocked[r]
        BY <1>t, <1>2, <2>2 DEF SaveLogin, TypeOK
    <3>2. ~seenNonLocked[r] => Cardinality(Failures(u)) >= MaxFailed
        BY <1>2, <2>2 DEF SaveLogin, CountInv, LoadedCount
    <3>3. QED
        BY <1>t, <1>g, <3>1, <3>2 DEF StoredCount
  <2>3. ASSUME NEW u \in Requests, u # user[r] PROVE StoredCount(u)'
      BY <1>t, <1>2, <2>3, <1>s DEF SaveLogin, TypeOK
  <2>4. QED
      BY <2>1, <2>2, <2>3 DEF CountInv
<1>3. ASSUME NEW r \in Requests, SaveFailed(r) PROVE CountInv'
  <2>1. \A q \in Requests : LoadedCount(q)'
      BY <1>t, <1>3, <1>l DEF SaveFailed, Goto, loaded, TypeOK
  <2>2. ASSUME NEW u \in Requests, u = user[r] PROVE StoredCount(u)'
    <3>1. /\ seenAttempts[r] \in Nat
          /\ failedAttempts'[u] = seenAttempts[r] + 1
          /\ ~accountNonLocked'[u] => ~seenNonLocked[r] \/ seenAttempts[r] + 1 >= MaxFailed
        BY <1>t, <1>3, <2>2 DEF SaveFailed, TypeOK
    <3>2. /\ seenAttempts[r] <= Cardinality(Failures(u))
          /\ ~seenNonLocked[r] => Cardinality(Failures(u)) >= MaxFailed
        BY <1>3, <2>2 DEF SaveFailed, CountInv, LoadedCount
    <3>3. Cardinality(Failures(u)') = Cardinality(Failures(u)) + 1
      <4>1. Failures(u)' = Failures(u) \cup {r}
          BY <1>t, <1>3, <2>2 DEF SaveFailed, Failures, Goto, loaded, TypeOK
      <4>2. r \notin Failures(u)
          BY <1>3 DEF SaveFailed, Failures
      <4>3. QED
          BY <4>1, <4>2, FailuresFinite, FS_AddElement
    <3>4. QED
        BY <1>t, <1>g, <3>1, <3>2, <3>3 DEF StoredCount
  <2>3. ASSUME NEW u \in Requests, u # user[r] PROVE StoredCount(u)'
      BY <1>t, <1>3, <2>3, <1>s DEF SaveFailed, TypeOK
  <2>4. QED
      BY <2>1, <2>2, <2>3 DEF CountInv
<1>4. ASSUME NEW r \in Requests, SaveUser(r) PROVE CountInv'
  <2>1. \A q \in Requests : LoadedCount(q)'
      BY <1>t, <1>4, <1>l DEF SaveUser, Goto, loaded, TypeOK
  <2>2. StoredCount(r)'
      BY <1>t, <1>g, <1>4 DEF SaveUser, StoredCount, TypeOK
  <2>3. ASSUME NEW u \in Requests, u # r PROVE StoredCount(u)'
      BY <1>t, <1>4, <2>3, <1>s DEF SaveUser, TypeOK
  <2>4. QED
      BY <2>1, <2>2, <2>3 DEF CountInv
<1>5. ASSUME UNCHANGED <<failedAttempts, accountNonLocked, loaded>>,
             \A r \in Requests :
                pc'[r] \in {"saveLogin", "saveFailed"} => pc[r] = pc'[r]
      PROVE  CountInv'
    BY <1>s, <1>l, <1>5 DEF loaded, CountInv
<1>6. ASSUME NEW r \in Requests,
             \/ CheckEmail(r) \/ Authenticate(r) \/ FindTokens(r)
             \/ (\E q \in Requests : RevokeToken(r, q)) \/ SaveToken(r) \/ RequestFails(r)
      PROVE  CountInv'
    BY <1>t, <1>5, <1>6 DEF CheckEmail, Authenticate, FindTokens, RevokeToken, SaveToken,
                      RequestFails, Goto, Begin, userVars, TypeOK
<1>7. CASE UNCHANGED vars
    BY <1>5, <1>7 DEF vars, userVars
<1>8. QED
    BY <1>1, <1>2, <1>3, <1>4, <1>6, <1>7 DEF Next, Register, Login

\* No account is locked by fewer than MaxFailed wrong passwords, whichever way
\* the loads and saves of concurrent logins interleave.
THEOREM LocksAreEarned == Spec => []LockEarned
<1>1. TypeInv /\ CountInv => LockEarned
    BY DEF TypeInv, TypeOK, CountInv, StoredCount, LockEarned
<1>2. QED
    BY InitType, NextType, InitCount, NextCount, <1>1, PTL DEF Spec

-----------------------------------------------------------------------------
(* Sessions *)

\* What a login still has to revoke, and what it revoked when it is done.
Session(r) ==
    /\ pc[r] \in {"saveUser", "saveToken"} => op[r] = "register"
    /\ before[r] \subseteq Finished
    /\ r \notin before[r]
    /\ \A q \in before[r] : user[q] = user[r] /\ token[q] = "valid" =>
         /\ pc[r] = "revoke" => q \in found[r]
         /\ ~(pc[r] = "done" /\ op[r] = "login")

SessionInv == \A r \in Requests : Session(r)

LEMMA InitSession == Init => SessionInv
BY DEF Init, SessionInv, Session

LEMMA NextSession == TypeInv /\ SessionInv /\ [Next]_vars => SessionInv'
<1> SUFFICES ASSUME TypeInv, SessionInv, [Next]_vars PROVE SessionInv'
    OBVIOUS
<1>t. TypeOK
    BY DEF TypeInv
<1>f. /\ op' = op /\ Finished \subseteq Finished'
      /\ \A q \in Finished : user'[q] = user[q]
      /\ \A q \in Finished : token'[q] = "valid" => token[q] = "valid"
    BY FinishedStay DEF Finished
\* A request that this step does not move to another of these places.
<1>k. ASSUME NEW r \in Requests,
             pc'[r] \in {"saveUser", "saveToken", "revoke", "done"}
                => pc'[r] = pc[r] /\ user'[r] = user[r],
             before'[r] = before[r],
             \A q \in found[r] : q \in found'[r] \/ token'[q] # "valid"
      PROVE  Session(r)'
    BY <1>f, <1>k DEF SessionInv, Session
<1>1. CASE UNCHANGED vars
    BY <1>k, <1>1 DEF vars, loaded, SessionInv
<1>2. ASSUME NEW r \in Requests, Begin(r), UNCHANGED <<user, found>>,
             pc' = [pc EXCEPT ![r] = pc'[r]], pc'[r] \notin {"saveToken", "revoke", "done"},
             pc'[r] = "saveUser" => op[r] = "register"
      PROVE  SessionInv'
  <2>1. Session(r)'
    <3>1. before'[r] = Finished /\ r \notin Finished
        BY <1>t, <1>2 DEF Begin, Finished, TypeOK
    <3>2. QED
        BY <1>f, <1>2, <3>1 DEF Session
  <2>2. ASSUME NEW q \in Requests, q # r PROVE Session(q)'
      BY <1>t, <1>2, <2>2, <1>k DEF Begin, TypeOK
  <2>3. QED
      BY <2>1, <2>2 DEF SessionInv
<1>3. ASSUME NEW r \in Requests,
             CheckEmail(r) \/ Authenticate(r)
      PROVE  SessionInv'
    BY <1>t, <1>2, <1>3 DEF CheckEmail, Authenticate, Begin, Goto, loaded, TypeOK
<1>4. ASSUME NEW r \in Requests, LoadUser(r) \/ LoadFailed(r) \/ SaveLogin(r)
                                 \/ SaveFailed(r) \/ RequestFails(r)
      PROVE  SessionInv'
    BY <1>t, <1>4, <1>k DEF LoadUser, LoadFailed, Load, SaveLogin, SaveFailed, RequestFails,
                      Goto, loaded, TypeOK, SessionInv
<1>5. ASSUME NEW r \in Requests, SaveUser(r) PROVE SessionInv'
  <2>1. Session(r)'
      BY <1>t, <1>f, <1>5 DEF SaveUser, Goto, loaded, TypeOK, SessionInv, Session
  <2>2. ASSUME NEW q \in Requests, q # r PROVE Session(q)'
      BY <1>t, <1>5, <2>2, <1>k DEF SaveUser, Goto, loaded, TypeOK
  <2>3. QED
      BY <2>1, <2>2 DEF SessionInv
<1>6. ASSUME NEW r \in Requests, FindTokens(r) PROVE SessionInv'
  <2>1. Session(r)'
      BY <1>t, <1>f, <1>6 DEF FindTokens, Goto, loaded, TypeOK, SessionInv, Session
  <2>2. ASSUME NEW q \in Requests, q # r PROVE Session(q)'
      BY <1>t, <1>6, <2>2, <1>k DEF FindTokens, Goto, loaded, TypeOK
  <2>3. QED
      BY <2>1, <2>2 DEF SessionInv
<1>7. ASSUME NEW r \in Requests, NEW q \in Requests, RevokeToken(r, q) PROVE SessionInv'
    BY <1>t, <1>7, <1>k DEF RevokeToken, loaded, TypeOK, SessionInv
<1>8. ASSUME NEW r \in Requests, SaveToken(r) PROVE SessionInv'
  <2>1. Session(r)'
      BY <1>t, <1>f, <1>8 DEF SaveToken, Goto, loaded, TypeOK, SessionInv, Session
  <2>2. ASSUME NEW q \in Requests, q # r PROVE Session(q)'
    <3>1. pc'[q] = pc[q] /\ user' = user /\ before' = before /\ found' = found
        BY <1>t, <1>8, <2>2 DEF SaveToken, Goto, loaded, TypeOK
    <3>2. QED
        BY <3>1, <1>k
  <2>3. QED
      BY <2>1, <2>2 DEF SessionInv
<1>9. QED
    BY <1>1, <1>3, <1>4, <1>5, <1>6, <1>7, <1>8 DEF Next, Register, Login

\* Of two logins of one user that do not overlap, the later one leaves no session
\* of the earlier one, with any number of other requests between their steps.
THEOREM SessionsSuperseded == Spec => []LoginSupersedes
<1>1. SessionInv => LoginSupersedes
    BY DEF SessionInv, Session, LoginSupersedes
<1>2. QED
    BY InitType, NextType, InitSession, NextSession, <1>1, PTL DEF Spec

-----------------------------------------------------------------------------
(* Emails *)

\* A registration that found no account stores one beside no earlier one.
EmailInv ==
    \A r \in Requests :
        /\ before[r] \subseteq Finished /\ r \notin before[r]
        /\ r \in stored => pc[r] # "start"
        /\ pc[r] = "saveUser" \/ r \in stored =>
             \A q \in before[r] \cap stored : email[q] # email[r]

LEMMA InitEmail == Init => EmailInv
BY DEF Init, EmailInv

LEMMA NextEmail == TypeInv /\ EmailInv /\ [Next]_vars => EmailInv'
<1> SUFFICES ASSUME TypeInv, EmailInv, [Next]_vars PROVE EmailInv'
    OBVIOUS
<1>t. TypeOK
    BY DEF TypeInv
<1>f. /\ email' = email /\ Finished \subseteq Finished'
      /\ \A q \in Finished : q \in stored' => q \in stored
    BY FinishedStay DEF Finished
<1>1. CASE UNCHANGED vars
    BY <1>f, <1>1 DEF vars, userVars, EmailInv
<1>2. ASSUME NEW r \in Requests, CheckEmail(r) PROVE EmailInv'
    BY <1>t, <1>f, <1>2 DEF CheckEmail, Begin, Goto, Matching, Finished, userVars, TypeOK, EmailInv
<1>3. ASSUME NEW r \in Requests, Authenticate(r) PROVE EmailInv'
  <2>1. PICK label \in {"rejected", "loadFailed", "loadUser"} : pc' = [pc EXCEPT ![r] = label]
      BY <1>3 DEF Authenticate, Goto
  <2>2. /\ pc[r] = "start" /\ stored' = stored
        /\ before' = [before EXCEPT ![r] = Finished]
      BY <1>3 DEF Authenticate, Begin, userVars
  <2>3. QED
      BY <1>t, <1>f, <2>1, <2>2 DEF Finished, TypeOK, EmailInv
<1>4. ASSUME NEW r \in Requests, SaveUser(r) PROVE EmailInv'
    BY <1>t, <1>f, <1>4 DEF SaveUser, Goto, Finished, TypeOK, EmailInv
<1>5. ASSUME stored' = stored, before' = before,
             \A r \in Requests : pc'[r] \in {"start", "saveUser"} => pc'[r] = pc[r]
      PROVE  EmailInv'
    BY <1>f, <1>5 DEF EmailInv
<1>6. ASSUME NEW r \in Requests,
             \/ LoadUser(r) \/ LoadFailed(r) \/ SaveLogin(r) \/ FindTokens(r)
             \/ (\E q \in Requests : RevokeToken(r, q))
             \/ SaveFailed(r) \/ SaveToken(r) \/ RequestFails(r)
      PROVE  EmailInv'
    BY <1>t, <1>5, <1>6 DEF LoadUser, LoadFailed, Load, SaveLogin, FindTokens, RevokeToken,
                      SaveFailed, SaveToken, RequestFails, Goto, userVars, TypeOK
<1>7. QED
    BY <1>1, <1>2, <1>3, <1>4, <1>6 DEF Next, Register, Login

\* A registration that began after another one of the same email had ended stores
\* no account; that needs no unique index.
THEOREM DuplicatesAreConcurrent == Spec => []DuplicatesOverlap
<1>1. TypeInv /\ EmailInv => DuplicatesOverlap
    BY DEF TypeInv, TypeOK, EmailInv, DuplicatesOverlap
<1>2. QED
    BY InitType, NextType, InitEmail, NextEmail, <1>1, PTL DEF Spec
=============================================================================
