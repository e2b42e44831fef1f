----------------------------- MODULE AuthStorage -----------------------------
(***************************************************************************)
(* The credential store (agent-host/src/auth-storage.ts): processes that   *)
(* share auth.json, each with the credentials it last read.  login, logout *)
(* and reload take the file's lock synchronously and give up when it stays *)
(* held; a refresh of an expired OAuth token holds the lock across its     *)
(* request to the provider.                                                *)
(***************************************************************************)
EXTENDS Naturals, FiniteSets

CONSTANTS
  Processes,
  Calls,      \* calls of getApiKey that find an expired token
  OwnerOf,    \* the process of a call
  Providers,
  None,       \* no holder of a lock, no provider
  MaxTokens,  \* bound: tokens ever issued
  Expiring    \* those of them that can expire

ASSUME CallAssumption == None \notin Calls \cup Providers /\ OwnerOf \in [Calls -> Processes]
ASSUME TokenAssumption == MaxTokens \in Nat /\ Expiring \subseteq Nat

VARIABLES
  file,       \* auth.json: "missing", "json", or "torn", which does not parse
  auth,       \* the credentials in it
  lock,       \* who holds the lock of the file
  proc,       \* "down", "creating" (in ensureFileExists), "up"
  symlinked,  \* whether auth.json is a symbolic link
  data,       \* AuthStorage.data of each process
  shared,     \* the call under way whose currentData is that very object
  loadError,  \* whether its loadError is set
  pc,         \* where a call is
  provider,   \* the provider a call asks for
  current,    \* currentData: the credentials the call read under the lock
  token,      \* the token its request to the provider carries
  changed,    \* history: providers its process has set or removed in currentData
  fresh,      \* the token the provider gave it, 0 before
  compromised,\* onCompromised was called
  issued,     \* tokens 1..issued exist
  expired,    \* those that have expired
  usable,     \* those whose refresh token the provider still accepts
  lost,       \* history: used tokens whose replacement reached no file
  raced       \* history: two were at the file at once, past a lock

fileVars == <<file, auth>>
memoryVars == <<data, shared, loadError>>
callVars == <<pc, provider, current, token, changed, fresh, compromised>>
tokenVars == <<issued, expired, usable, lost>>
vars == <<fileVars, symlinked, lock, proc, memoryVars, callVars, tokenVars, raced>>

(* A credential is an OAuth token; an API key is one that never expires.   *)
NoCred == 0
Cred == 0..MaxTokens
Nothing == [q \in Providers |-> NoCred]

Orphan == "orphan"  \* the lock of a process that was killed

Up(p) == proc[p] = "up"
Holding(c) == pc[c] \in {"refreshing", "refreshed", "releasing", "failing"}

Init ==
  /\ file = "missing" /\ auth = Nothing
  /\ lock = None
  /\ proc = [p \in Processes |-> "down"]
  /\ symlinked \in BOOLEAN
  /\ shared = [p \in Processes |-> None]
  /\ data = [p \in Processes |-> Nothing]
  /\ loadError = [p \in Processes |-> FALSE]
  /\ pc = [c \in Calls |-> "idle"]
  /\ provider = [c \in Calls |-> None]
  /\ current = [c \in Calls |-> Nothing]
  /\ token = [c \in Calls |-> NoCred]
  /\ changed = [c \in Calls |-> {}]
  /\ fresh = [c \in Calls |-> 0]
  /\ compromised = [c \in Calls |-> FALSE]
  /\ issued = 0 /\ expired = {} /\ usable = {} /\ lost = {}
  /\ raced = FALSE
-----------------------------------------------------------------------------
(* proper-lockfile.  A lock that was not updated for some time is stale    *)
(* and anybody's: that of a killed process, or of one that was suspended,  *)
(* or whose updates come too seldom for the threshold of the other side.   *)
(* At a link the synchronous sections do not even see it.                  *)
Overlaps(C) == raced' = (raced \/ \E c \in C : Holding(c) /\ (lock = c \/ symlinked))

(* acquireLockSyncWithRetry and release around a synchronous section: it   *)
(* fails only when the lock is held for all ten attempts, and blocks its   *)
(* own process meanwhile.  It does not resolve the path (realpath: false), *)
(* lock() does: at a link there are two locks, and a refresh does not keep *)
(* out the synchronous sections.  Who was killed in one may have left that *)
(* lock.                                                                   *)
LockSync(ok) ==
  IF ok THEN Overlaps(Calls) /\ lock' = IF symlinked THEN lock ELSE None
  ELSE (symlinked \/ lock # None) /\ UNCHANGED <<lock, raced>>

(* this.data becomes another object.                                       *)
NewData(p, credentials) ==
  /\ data' = [data EXCEPT ![p] = credentials]
  /\ loadError' = [loadError EXCEPT ![p] = FALSE]
  /\ shared' = [shared EXCEPT ![p] = None]

(* reload: what is kept when the lock or the parser fails is what was there.*)
Reload(p, ok) ==
  /\ LockSync(ok)
  /\ IF ok /\ file # "torn"
       THEN NewData(p, auth)
       ELSE /\ loadError' = [loadError EXCEPT ![p] = TRUE]
            /\ UNCHANGED <<data, shared>>

(* The constructor, when the file exists.                                  *)
Start(p, ok) ==
  /\ proc[p] = "down" /\ file # "missing"
  /\ proc' = [proc EXCEPT ![p] = "up"]
  /\ Reload(p, ok)
  /\ UNCHANGED <<fileVars, symlinked, callVars, tokenVars>>

(* ensureFileExists: between existsSync and writeFileSync another process  *)
(* may do the same and more.                                               *)
StartMissing(p) ==
  /\ proc[p] = "down" /\ file = "missing"
  /\ proc' = [proc EXCEPT ![p] = "creating"]
  /\ UNCHANGED <<fileVars, symlinked, lock, memoryVars, callVars, tokenVars, raced>>

CreateFile(p) ==
  /\ proc[p] = "creating"
  /\ file' = "json" /\ auth' = Nothing
  /\ proc' = [proc EXCEPT ![p] = "up"]
  /\ data' = [data EXCEPT ![p] = Nothing]
  /\ raced' = (raced \/ file # "missing")
  /\ UNCHANGED <<symlinked, lock, shared, loadError, callVars, tokenVars>>

(* Mutant: the file gets the credentials of the process. *)
MergedFromMemory(p, q, cred) == [data[p] EXCEPT ![q] = cred]

(* The credentials of the file with one changed.                           *)
Merged(p, q, cred) == [auth EXCEPT ![q] = cred]

(* set and remove change the object this.data is, which a refresh under    *)
(* way may be about to write.                                              *)
SetInMemory(p, q, cred) ==
  /\ data' = [data EXCEPT ![p][q] = cred]
  /\ IF shared[p] = None THEN UNCHANGED <<current, changed>>
     ELSE /\ current' = [current EXCEPT ![shared[p]][q] = cred]
          /\ changed' = [changed EXCEPT ![shared[p]] = @ \cup {q}]

(* set and remove with persistProviderChange: memory changes always, the   *)
(* file unless the last load failed, the lock is held or it does not parse.*)
SetCredential(p, q, cred, ok) ==
  /\ Up(p)
  /\ SetInMemory(p, q, cred)
  /\ IF loadError[p]
       THEN UNCHANGED <<auth, lock, raced>>
       ELSE /\ LockSync(ok)
            /\ auth' = IF ok /\ file = "json" THEN Merged(p, q, cred) ELSE auth
  /\ UNCHANGED <<file, symlinked, proc, shared, loadError, pc, provider, token, fresh, compromised>>

(* login, or an API key entered: a new token.                              *)
Login(p, q, ok) ==
  /\ issued < MaxTokens
  /\ SetCredential(p, q, issued + 1, ok)
  /\ issued' = issued + 1
  /\ usable' = usable \cup {issued + 1}
  /\ UNCHANGED <<expired, lost>>

Logout(p, q, ok) == SetCredential(p, q, NoCred, ok) /\ UNCHANGED tokenVars

Expire(t) ==
  /\ t \in (1..issued \cap Expiring) \ expired
  /\ expired' = expired \cup {t}
  /\ UNCHANGED <<fileVars, symlinked, lock, proc, memoryVars, callVars, issued, usable, lost, raced>>
-----------------------------------------------------------------------------
Goto(c, l) == pc' = [pc EXCEPT ![c] = l]

(* The calls in C end, and with them what they hold.                       *)
Ended(C) ==
  /\ pc' = [c \in Calls |-> IF c \in C THEN "idle" ELSE pc[c]]
  /\ provider' = [c \in Calls |-> IF c \in C THEN None ELSE provider[c]]
  /\ current' = [c \in Calls |-> IF c \in C THEN Nothing ELSE current[c]]
  /\ token' = [c \in Calls |-> IF c \in C THEN NoCred ELSE token[c]]
  /\ changed' = [c \in Calls |-> IF c \in C THEN {} ELSE changed[c]]
  /\ fresh' = [c \in Calls |-> IF c \in C THEN 0 ELSE fresh[c]]
  /\ compromised' = [c \in Calls |-> IF c \in C THEN FALSE ELSE compromised[c]]

(* getApiKey of an expired token waits for the lock.                       *)
GetApiKey(c, q) ==
  /\ Up(OwnerOf[c]) /\ pc[c] = "idle"
  /\ data[OwnerOf[c]][q] \in expired
  /\ Goto(c, "locking")
  /\ provider' = [provider EXCEPT ![c] = q]
  /\ UNCHANGED <<fileVars, symlinked, lock, proc, memoryVars, current, token, changed, fresh,
                 compromised, tokenVars, raced>>

(* Mutant: the refresh uses the credentials its process has in memory. *)
ReadUnderLockStale(c) == data[OwnerOf[c]]
ReadUnderLock(c) == auth

(* Mutant: the refresh goes on without the lock. *)
AcquiredNot(c) == UNCHANGED lock
Acquired(c) == lock' = c

(* refreshOAuthTokenWithLock with the lock: the file is read again and     *)
(* decides whether a refresh is still needed.  What was read becomes       *)
(* this.data, the same object.                                             *)
Locked(c) ==
  /\ pc[c] = "locking"
  /\ Overlaps(Calls) /\ Acquired(c)
  /\ changed' = [changed EXCEPT ![c] = {}]
  /\ IF file = "torn"
       THEN Goto(c, "failing") /\ UNCHANGED <<memoryVars, current, token>>
       ELSE LET read == ReadUnderLock(c)  refreshes == read[provider[c]] \in expired IN
            /\ data' = [data EXCEPT ![OwnerOf[c]] = read]
            /\ loadError' = [loadError EXCEPT ![OwnerOf[c]] = FALSE]
            /\ shared' = [shared EXCEPT ![OwnerOf[c]] = IF refreshes THEN c ELSE None]
            /\ current' = [current EXCEPT ![c] = read]
            /\ token' = [token EXCEPT ![c] = read[provider[c]]]
            /\ Goto(c, IF refreshes THEN "refreshing" ELSE "releasing")
  /\ UNCHANGED <<fileVars, symlinked, proc, provider, fresh, compromised, tokenVars>>

(* The retries of lock() are used up.                                      *)
LockFails(c, ok) ==
  /\ pc[c] = "locking" /\ lock # None
  /\ Ended({c})
  /\ Reload(OwnerOf[c], ok)
  /\ UNCHANGED <<fileVars, symlinked, proc, tokenVars>>

(* The provider answers: a refresh token is accepted once and replaced.    *)
ProviderRefreshes(c) ==
  /\ pc[c] = "refreshing"
  /\ token[c] \in usable /\ issued < MaxTokens
  /\ issued' = issued + 1
  /\ usable' = (usable \ {token[c]}) \cup {issued + 1}
  /\ fresh' = [fresh EXCEPT ![c] = issued + 1]
  /\ Goto(c, "refreshed")
  /\ UNCHANGED <<fileVars, symlinked, lock, proc, memoryVars, provider, current, token, changed,
                 compromised, expired, lost, raced>>

(* The object the call read will not be written any more.                  *)
Unshared(c) == [p \in Processes |-> IF shared[p] = c THEN None ELSE shared[p]]

(* It refuses, or is not reached, or its answer is lost.                   *)
ProviderFails(c) ==
  /\ pc[c] = "refreshing"
  /\ Goto(c, "failing")
  /\ \/ UNCHANGED <<usable, lost>>
     \/ usable' = usable \ {token[c]} /\ lost' = lost \cup {token[c]}
  /\ shared' = Unshared(c)
  /\ UNCHANGED <<fileVars, symlinked, lock, proc, data, loadError, provider, current, token, changed,
                 fresh, compromised, issued, expired, raced>>

(* What a refresh writes: the credentials read under the lock, with what   *)
(* its process has set or removed in them since, and the new ones, which   *)
(* undoes a set or remove of the same provider (refreshOAuthTokenWithLock).*)
Refreshed(c) == [current[c] EXCEPT ![provider[c]] = fresh[c]]

(* A lock known to be lost keeps the result from the file.                 *)
FinishRefresh(c) ==
  /\ pc[c] = "refreshed"
  /\ NewData(OwnerOf[c], Refreshed(c))
  /\ IF compromised[c]
       THEN Goto(c, "failing") /\ lost' = lost \cup {token[c]} /\ UNCHANGED fileVars
       ELSE Goto(c, "releasing") /\ auth' = Refreshed(c) /\ file' = "json" /\ UNCHANGED lost
  /\ UNCHANGED <<symlinked, lock, proc, provider, current, token, changed, fresh, compromised, issued,
                 expired, usable, raced>>

(* release() deletes the lock, whoever holds it, unless the call knows that*)
(* it lost it.                                                             *)
AfterRelease(c) == IF compromised[c] THEN lock ELSE None

(* The finally block; a call that failed goes on to reload the file.       *)
Release(c) ==
  /\ pc[c] \in {"releasing", "failing"}
  /\ lock' = AfterRelease(c)
  /\ IF pc[c] = "failing"
       THEN Goto(c, "reloading") /\ UNCHANGED <<provider, current, token, changed, fresh, compromised>>
       ELSE Ended({c})
  /\ UNCHANGED <<fileVars, symlinked, proc, memoryVars, tokenVars, raced>>

ReloadAfterFailure(c, ok) ==
  /\ pc[c] = "reloading"
  /\ Ended({c})
  /\ Reload(OwnerOf[c], ok)
  /\ UNCHANGED <<fileVars, symlinked, proc, tokenVars>>

(* The timer of proper-lockfile notices that the lock is another's.        *)
NoticeCompromised(c) ==
  /\ Holding(c) /\ lock # c /\ ~compromised[c]
  /\ compromised' = [compromised EXCEPT ![c] = TRUE]
  /\ UNCHANGED <<fileVars, symlinked, lock, proc, memoryVars, pc, provider, current, token, changed,
                 fresh, tokenVars, raced>>

CallsOf(p) == {c \in Calls : OwnerOf[c] = p}

(* What a kill leaves of a file that was being written: nothing, which     *)
(* reads as no credentials, or a part.                                     *)
WriteCut ==
  \/ file' = "json" /\ auth' = Nothing
  \/ file' = "torn" /\ UNCHANGED auth

(* The process is killed, perhaps while it writes the file: in a           *)
(* synchronous section or at the end of a refresh.                         *)
Kill(p) ==
  LET afterDeath == IF lock \in CallsOf(p) THEN Orphan ELSE lock IN
  /\ proc[p] # "down"
  /\ proc' = [proc EXCEPT ![p] = "down"]
  /\ data' = [data EXCEPT ![p] = Nothing]
  /\ shared' = [shared EXCEPT ![p] = None]
  /\ loadError' = [loadError EXCEPT ![p] = FALSE]
  /\ Ended(CallsOf(p))
  /\ lost' = lost \cup {token[c] : c \in {d \in CallsOf(p) : pc[d] = "refreshed"}}
  /\ \/ lock' = afterDeath /\ UNCHANGED <<fileVars, raced>>
     \/ /\ Up(p) /\ file = "json" /\ ~loadError[p] /\ (symlinked \/ lock = None)
        /\ lock' = IF symlinked THEN afterDeath ELSE Orphan
        /\ WriteCut /\ Overlaps(Calls \ CallsOf(p))
     \/ /\ Up(p) /\ file = "json"
        /\ \E c \in CallsOf(p) : pc[c] = "refreshed" /\ ~compromised[c] /\ lock = c
        /\ lock' = Orphan /\ WriteCut /\ UNCHANGED raced
  /\ UNCHANGED <<symlinked, issued, expired, usable>>

CallStep(c) ==
  \/ Locked(c)
  \/ \E ok \in BOOLEAN : LockFails(c, ok) \/ ReloadAfterFailure(c, ok)
  \/ ProviderRefreshes(c) \/ ProviderFails(c)
  \/ FinishRefresh(c) \/ Release(c)

Next ==
  \/ \E p \in Processes :
       \/ \E ok \in BOOLEAN :
            \/ Start(p, ok)
            \/ \E q \in Providers : Login(p, q, ok) \/ Logout(p, q, ok)
       \/ StartMissing(p) \/ CreateFile(p)
       \/ Kill(p)
  \/ \E t \in 1..issued : Expire(t)
  \/ \E c \in Calls :
       \/ \E q \in Providers : GetApiKey(c, q)
       \/ CallStep(c) \/ NoticeCompromised(c)

Spec == Init /\ [][Next]_vars

-----------------------------------------------------------------------------
(* Every variable has the type its declaration names.                      *)
TypeOK ==
  /\ file \in {"missing", "json", "torn"} /\ auth \in [Providers -> Cred]
  /\ lock \in Calls \cup {None, Orphan}
  /\ proc \in [Processes -> {"down", "creating", "up"}]
  /\ symlinked \in BOOLEAN
  /\ shared \in [Processes -> Calls \cup {None}]
  /\ data \in [Processes -> [Providers -> Cred]] /\ loadError \in [Processes -> BOOLEAN]
  /\ pc \in [Calls -> {"idle", "locking", "refreshing", "refreshed", "releasing", "failing",
                       "reloading"}]
  /\ provider \in [Calls -> Providers \cup {None}] /\ current \in [Calls -> [Providers -> Cred]]
  /\ token \in [Calls -> Cred] /\ changed \in [Calls -> SUBSET Providers]
  /\ fresh \in [Calls -> 0..MaxTokens] /\ compromised \in [Calls -> BOOLEAN]
  /\ issued \in 0..MaxTokens
  /\ expired \subseteq 1..issued /\ usable \subseteq 1..issued /\ lost \subseteq 1..issued
  /\ raced \in BOOLEAN

(* "Uses file locking to prevent race conditions when multiple pi instances*)
(* try to refresh tokens simultaneously": no request carries a refresh     *)
(* token that was used before (and the types hold).  The exceptions: the   *)
(* replacement was lost with its process or on the way, or two were at the *)
(* file at once: a lock was taken as stale from a process that lives, or   *)
(* auth.json is a link.                                                    *)
RefreshTokenUsedOnce ==
  /\ TypeOK
  /\ \A c \in Calls : pc[c] = "refreshing" => raced \/ token[c] \in usable \cup lost

(* The call ends a refresh and writes what it has.                         *)
Writes(c) == pc[c] = "refreshed" /\ pc'[c] = "releasing"

(* Nobody's change of one provider touches another's credentials in the    *)
(* file, however old the changer's memory is: set and remove change one    *)
(* (persistProviderChange), a refresh its own and those its process has    *)
(* set or removed since the refresh read the file, which the merge takes   *)
(* along.  A kill or a creation of the file may do more.                   *)
OnlyChanges(qs) == \A r \in Providers \ qs : auth'[r] = auth[r]
OwnChange ==
  \/ pc' = pc /\ \E q \in Providers : OnlyChanges({q})
  \/ \E c \in Calls : Writes(c) /\ OnlyChanges(changed[c] \cup {provider[c]})
OthersUntouched == [][auth' # auth /\ ~raced /\ proc' = proc => OwnChange]_vars

(* What a logout took out of the file comes back by a login only, never by *)
(* a refresh that has read it before; a refresh may carry the login of its *)
(* own process to the file.  A logout that finds the file locked takes     *)
(* nothing out of it: LogoutHolds.                                         *)
LogoutStays ==
  [][\A q \in Providers : (auth[q] = NoCred /\ auth'[q] # NoCred /\ ~raced) =>
       pc' = pc \/ \E c \in Calls : Writes(c) /\ q \in changed[c]]_vars

(* What its own process has logged out of, a refresh does not write.  The  *)
(* code violates it: the logout of the provider being refreshed fails on   *)
(* the lock of the refresh, whose end restores the credentials in memory   *)
(* and in the file.                                                        *)
LogoutHolds ==
  [][\A c \in Calls, q \in Providers :
       Writes(c) /\ data[OwnerOf[c]][q] = NoCred => auth'[q] = NoCred]_vars

(* "Credentials saved to auth.json": what login or a key entered sets is   *)
(* in the file (completeProviderAuthentication).                           *)
LoginIsSaved ==
  [][\A p \in Processes, q \in Providers :
       (Up(p) /\ pc' = pc /\ proc' = proc /\ data[p][q] # data'[p][q] /\ data'[p][q] # NoCred
          /\ file # "torn") =>
            auth'[q] = data'[p][q]]_vars
=============================================================================
