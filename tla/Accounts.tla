------------------------------ MODULE Accounts ------------------------------
(***************************************************************************)
(* Who may log in: accounts, the keys registered for them, the enrollment  *)
(* codes that register a key, the sessions the login node holds open, and  *)
(* the credential each session has in the store.                           *)
(*                                                                         *)
(* Signing out, suspending and deleting are requests of several statements *)
(* each, and so are enrolling and registering a key; they interleave, and  *)
(* a request whose client goes away stops between two statements.  One     *)
(* registration of a key and one request on an account are under way at a  *)
(* time.                                                                   *)
(***************************************************************************)
EXTENDS Naturals, FiniteSets

CONSTANTS
  Users, Keys, Codes, Sessions,
  NoKey,       \* the key of a session that logged in with a certificate
  Nobody,
  MaxRequests, \* bound: requests that change accounts, keys or codes
  MaxCrashes   \* bound: restarts of the daemon

VARIABLES
  \* the store
  account,   \* users: "none", "active" or "disabled"
  keyOf,     \* user_keys: the account of each key, or Nobody
  code,      \* enroll_codes: its account, and whether it is "none", "open" or "spent"
  cred,      \* session_tokens: per session the account its credential is good for, or Nobody
  \* the daemon
  adding,    \* AddUserKey past its check: the account the key is for
  conn,      \* per session: its step, account, key, and code offered
  request,   \* per account: the request under way, its next step, and the key it is about
  \* history and bounds
  out,       \* accounts signed out everywhere and given no new way in since
  early,     \* per account: the keys a sign-out of everything could not see
  asked, crashes

accountStore == <<account, keyOf, code, cred>>
accountHistory == <<out, early, asked, crashes>>
accountVars == <<accountStore, adding, conn, request, accountHistory>>

\* Nobody is nobody's name.
ASSUME AccountsAssumption == Nobody \notin Users

Gone == [step |-> "idle", user |-> Nobody, key |-> NoKey]
NoRequest == [step |-> "idle", what |-> "none", key |-> NoKey]

AccountsTypeOK ==
  /\ account \in [Users -> {"none", "active", "disabled"}]
  /\ keyOf \in [Keys -> Users \cup {Nobody}] /\ adding \in [Keys -> Users \cup {Nobody}]
  /\ code \in [Codes -> [state: {"none", "open", "spent"}, user: Users \cup {Nobody}]]
  /\ cred \in [Sessions -> Users \cup {Nobody}]
  /\ conn \in [Sessions -> [step: {"idle", "redeemed", "adding", "named", "accepted", "open", "closing"},
                            user: Users \cup {Nobody}, key: Keys \cup {NoKey}]]
  /\ request \in [Users -> [step: {"idle", "keys", "codes", "tokens", "close"},
                            what: {"none", "signout", "suspend", "delete"}, key: Keys \cup {NoKey}]]
  /\ out \subseteq Users /\ early \in [Users -> SUBSET Keys]
  /\ asked \in Nat /\ crashes \in Nat

AccountsInit ==
  /\ account = [u \in Users |-> "none"]
  /\ keyOf = [k \in Keys |-> Nobody] /\ adding = [k \in Keys |-> Nobody]
  /\ code = [c \in Codes |-> [state |-> "none", user |-> Nobody]]
  /\ cred = [s \in Sessions |-> Nobody] /\ conn = [s \in Sessions |-> Gone]
  /\ request = [u \in Users |-> NoRequest]
  /\ out = {} /\ early = [u \in Users |-> {}] /\ asked = 0 /\ crashes = 0

Active(u) == u \in Users /\ account[u] = "active"
KeysOf(u) == {k \in Keys : keyOf[k] = u}
Asked == asked < MaxRequests /\ asked' = asked + 1
To(s, step) == conn' = [conn EXCEPT ![s].step = step]

-----------------------------------------------------------------------------
(* Accounts, codes and keys *)

CreateUser(u) ==
  /\ account[u] = "none" /\ Asked
  /\ account' = [account EXCEPT ![u] = "active"]
  /\ UNCHANGED <<keyOf, code, cred, adding, conn, request, out, early, crashes>>

Unquarantine(u) ==
  /\ account[u] = "disabled" /\ Asked
  /\ account' = [account EXCEPT ![u] = "active"]
  /\ UNCHANGED <<keyOf, code, cred, adding, conn, request, out, early, crashes>>

\* By an admin for anybody, or by the account for itself.
CreateEnrollCode(u, c) ==
  /\ Active(u) /\ code[c].state = "none" /\ Asked
  /\ code' = [code EXCEPT ![c] = [state |-> "open", user |-> u]]
  /\ out' = out \ {u}
  /\ UNCHANGED <<account, keyOf, cred, adding, conn, request, early, crashes>>

\* It expires, or an admin cancels it.
CodeEnds(c) ==
  /\ code[c].state = "open"
  /\ code' = [code EXCEPT ![c].state = "spent"]
  /\ UNCHANGED <<account, keyOf, cred, adding, conn, request, accountHistory>>

\* AddUserKey looks for the account, and inserts in a second statement.
AddUserKey(u, k) ==
  /\ Active(u) /\ adding[k] = Nobody /\ Asked
  /\ adding' = [adding EXCEPT ![k] = u]
  /\ out' = out \ {u}
  /\ UNCHANGED <<accountStore, conn, request, early, crashes>>

EnrollKey(s) ==
  /\ conn[s].step = "redeemed" /\ adding[conn[s].key] = Nobody
  /\ IF Active(conn[s].user)
     THEN adding' = [adding EXCEPT ![conn[s].key] = conn[s].user] /\ To(s, "adding")
     ELSE conn' = [conn EXCEPT ![s] = Gone] /\ UNCHANGED adding
  /\ UNCHANGED <<accountStore, request, accountHistory>>

\* A key is registered once, for one account.
InsertKey(k) ==
  /\ adding[k] # Nobody
  /\ LET free == keyOf[k] = Nobody
     IN  /\ keyOf' = IF free THEN [keyOf EXCEPT ![k] = adding[k]] ELSE keyOf
         /\ conn' = [s \in Sessions |->
                       IF conn[s].step # "adding" \/ conn[s].key # k THEN conn[s]
                       ELSE IF free THEN [conn[s] EXCEPT !.step = "named"] ELSE Gone]
  /\ adding' = [adding EXCEPT ![k] = Nobody]
  /\ UNCHANGED <<account, code, cred, request, accountHistory>>

-----------------------------------------------------------------------------
(* Logging in *)

CanConnect(s) == conn[s].step = "idle" /\ cred[s] = Nobody
Comes(s, step, u, k) == conn' = [conn EXCEPT ![s] = [step |-> step, user |-> u, key |-> k]]

authPublicKey(s, k) ==
  /\ CanConnect(s) /\ Active(keyOf[k])
  /\ Comes(s, "accepted", keyOf[k], k)
  /\ UNCHANGED <<accountStore, adding, request, accountHistory>>

authCertificate(s, u) ==
  /\ CanConnect(s) /\ Active(u)
  /\ Comes(s, "accepted", u, NoKey)
  /\ UNCHANGED <<accountStore, adding, request, accountHistory>>

\* authEnroll: the key was refused and is remembered.  The code is spent even if
\* its account turns out to be gone or suspended, or is not the one logged in to.
RedeemEnrollCode(s, k, c) ==
  /\ CanConnect(s) /\ ~Active(keyOf[k])
  /\ code[c].state = "open"
  /\ code' = [code EXCEPT ![c].state = "spent"]
  /\ \/ Active(code[c].user) /\ Comes(s, "redeemed", code[c].user, k)
     \/ UNCHANGED conn
  /\ UNCHANGED <<account, keyOf, cred, adding, request, accountHistory>>

Enrolled(s) ==
  /\ conn[s].step = "named"
  /\ IF Active(conn[s].user) THEN To(s, "accepted") ELSE conn' = [conn EXCEPT ![s] = Gone]
  /\ UNCHANGED <<accountStore, adding, request, accountHistory>>

\* Only from here on can the session be closed from outside.
Register(s) ==
  /\ conn[s].step = "accepted" /\ To(s, "open")
  /\ UNCHANGED <<accountStore, adding, request, accountHistory>>

StartShell(s) ==
  /\ conn[s].step = "open" /\ cred[s] = Nobody
  /\ cred' = [cred EXCEPT ![s] = conn[s].user]
  /\ UNCHANGED <<account, keyOf, code, adding, conn, request, accountHistory>>

\* Mutant: the account is enough.
stillAuthorizedMutant(u, k) == Active(u)

stillAuthorized(u, k) == Active(u) /\ (k # NoKey => keyOf[k] = u)

watchAuthorization(s) ==
  /\ conn[s].step = "open" /\ ~stillAuthorized(conn[s].user, conn[s].key)
  /\ To(s, "closing")
  /\ UNCHANGED <<accountStore, adding, request, accountHistory>>

Leave(s) ==
  /\ conn[s].step = "open" /\ To(s, "closing")
  /\ UNCHANGED <<accountStore, adding, request, accountHistory>>

cleanup(s) ==
  /\ conn[s].step = "closing"
  /\ cred' = [cred EXCEPT ![s] = Nobody] /\ conn' = [conn EXCEPT ![s] = Gone]
  /\ UNCHANGED <<account, keyOf, code, adding, request, accountHistory>>

\* A restart loses the sessions and what was under way; the credentials stay
\* until they expire.
Crash ==
  /\ crashes < MaxCrashes /\ crashes' = crashes + 1
  /\ conn' = [s \in Sessions |-> Gone] /\ adding' = [k \in Keys |-> Nobody]
  /\ request' = [u \in Users |-> NoRequest]
  /\ UNCHANGED <<accountStore, out, early, asked>>

CredentialExpires(s) ==
  /\ conn[s].step = "idle" /\ cred[s] # Nobody /\ cred' = [cred EXCEPT ![s] = Nobody]
  /\ UNCHANGED <<account, keyOf, code, adding, conn, request, accountHistory>>

-----------------------------------------------------------------------------
(* Withdrawing access *)

Begin(u, what, k, step) == request' = [request EXCEPT ![u] = [step |-> step, what |-> what, key |-> k]]
Step(u, step) == request' = [request EXCEPT ![u].step = step]
End(u) == request' = [request EXCEPT ![u] = NoRequest]

\* Unenroll, of one computer or (NoKey) of all of them.
SignOut(u, k) ==
  /\ request[u].step = "idle" /\ Asked
  /\ k # NoKey => keyOf[k] = u
  /\ keyOf' = [x \in Keys |-> IF keyOf[x] = u /\ k \in {NoKey, x} THEN Nobody ELSE keyOf[x]]
  /\ Begin(u, "signout", k, "codes")
  /\ UNCHANGED <<account, code, cred, adding, conn, out, early, crashes>>

Enrolling(u) ==
  {k \in Keys : \/ adding[k] = u
                \/ \E s \in Sessions : conn[s].step = "redeemed" /\ conn[s].user = u /\ conn[s].key = k}

SignedOut(u) ==
  IF request[u].key = NoKey
  THEN out' = out \cup {u} /\ early' = [early EXCEPT ![u] = KeysOf(u) \cup Enrolling(u)]
  ELSE UNCHANGED <<out, early>>

\* Mutant: a code that was handed out stays good.
InvalidateEnrollCodesMutant(u) ==
  /\ request[u].step = "codes"
  /\ SignedOut(u) /\ Step(u, "tokens")
  /\ UNCHANGED <<accountStore, adding, conn, asked, crashes>>

InvalidateEnrollCodes(u) ==
  /\ request[u].step = "codes"
  /\ code' = [c \in Codes |-> IF code[c].user = u THEN [code[c] EXCEPT !.state = "spent"] ELSE code[c]]
  /\ SignedOut(u) /\ Step(u, "tokens")
  /\ UNCHANGED <<account, keyOf, cred, adding, conn, asked, crashes>>

\* An error here is logged, and the request goes on.
DeleteSessionTokensFor(u) ==
  /\ request[u].step = "tokens"
  /\ cred' = [s \in Sessions |-> IF cred[s] = u THEN Nobody ELSE cred[s]]
  /\ Step(u, "close")
  /\ UNCHANGED <<account, keyOf, code, adding, conn, accountHistory>>

CloseSessionsFor(u) ==
  /\ request[u].step = "close"
  /\ conn' = [s \in Sessions |->
                IF conn[s].step = "open" /\ conn[s].user = u /\ request[u].key \in {NoKey, conn[s].key}
                THEN [conn[s] EXCEPT !.step = "closing"] ELSE conn[s]]
  /\ End(u)
  /\ UNCHANGED <<accountStore, adding, accountHistory>>

Quarantine(u) ==
  /\ request[u].step = "idle" /\ account[u] # "none" /\ Asked
  /\ account' = [account EXCEPT ![u] = "disabled"]
  /\ Begin(u, "suspend", NoKey, "tokens")
  /\ UNCHANGED <<keyOf, code, cred, adding, conn, out, early, crashes>>

\* The keys go with the account; credentials and codes do not, and open sessions
\* are left to the watch.
DeleteUser(u) ==
  /\ request[u].step = "idle" /\ account[u] # "none" /\ Asked
  /\ account' = [account EXCEPT ![u] = "none"]
  /\ Begin(u, "delete", NoKey, "keys")
  /\ UNCHANGED <<keyOf, code, cred, adding, conn, out, early, crashes>>

DeleteUserKeys(u) ==
  /\ request[u].step = "keys"
  /\ keyOf' = [k \in Keys |-> IF keyOf[k] = u THEN Nobody ELSE keyOf[k]]
  /\ End(u)
  /\ UNCHANGED <<account, code, cred, adding, conn, accountHistory>>

\* The client of the request goes away, and its next statement fails with it.
GiveUp(u) ==
  /\ request[u].step \in {"keys", "codes"}
  /\ End(u)
  /\ UNCHANGED <<accountStore, adding, conn, accountHistory>>

-----------------------------------------------------------------------------

Unenroll(u) == (\E k \in Keys \cup {NoKey} : SignOut(u, k)) \/ InvalidateEnrollCodes(u) \/ GiveUp(u)
quarantine(u) == Quarantine(u) \/ DeleteSessionTokensFor(u) \/ CloseSessionsFor(u)
delUser(u) == DeleteUser(u) \/ DeleteUserKeys(u)

authEnroll(s) ==
  \/ \E k \in Keys, c \in Codes : RedeemEnrollCode(s, k, c)
  \/ EnrollKey(s) \/ Enrolled(s)

handle(s) ==
  \/ \E k \in Keys : authPublicKey(s, k)
  \/ \E u \in Users : authCertificate(s, u)
  \/ authEnroll(s) \/ Register(s) \/ StartShell(s) \/ Leave(s) \/ cleanup(s)

AccountsNext ==
  \/ \E u \in Users :
       \/ CreateUser(u) \/ Unquarantine(u) \/ Unenroll(u) \/ quarantine(u) \/ delUser(u)
       \/ \E c \in Codes : CreateEnrollCode(u, c)
       \/ \E k \in Keys : AddUserKey(u, k)
  \/ \E c \in Codes : CodeEnds(c)
  \/ \E k \in Keys : InsertKey(k)
  \/ \E s \in Sessions : handle(s) \/ watchAuthorization(s) \/ CredentialExpires(s)
  \/ Crash

AccountsSpec == AccountsInit /\ [][AccountsNext]_accountVars

\* The watch looks again every five seconds, a session that was cancelled runs its
\* deferred clean-up, and a credential that nobody takes back expires.
AccountsFairSpec ==
  /\ AccountsSpec
  /\ \A s \in Sessions :
       WF_accountVars(watchAuthorization(s)) /\ WF_accountVars(cleanup(s))
         /\ WF_accountVars(CredentialExpires(s))

-----------------------------------------------------------------------------
(* Properties *)

\* Once an account is signed out everywhere, and is given no new code or key, no
\* code of it is good and no key of it is registered, but for keys whose enrollment
\* was already past its code (Unenroll: "A key revoked because a machine was lost
\* or borrowed, with a live code left behind, is not revoked").
SignOutHolds ==
  \A u \in out : /\ KeysOf(u) \subseteq early[u]
                 /\ \A c \in Codes : code[c].user = u => code[c].state # "open"

Authorised(s) ==
  /\ Active(conn[s].user)
  /\ conn[s].key # NoKey => keyOf[conn[s].key] = conn[s].user

\* A session whose account or key is withdrawn ends, and its credential with it,
\* whether or not the withdrawal could see it or got as far as closing sessions,
\* unless access is given back first (watchAuthorization, cleanup).
RevokedSessionsEnd ==
  \A s \in Sessions :
    (conn[s].step = "open" /\ ~Authorised(s)) ~>
      IF conn[s].step = "open" THEN Authorised(s) ELSE cred[s] = Nobody

=============================================================================
