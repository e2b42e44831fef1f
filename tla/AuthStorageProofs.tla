-------------------------- MODULE AuthStorageProofs --------------------------
(* Proofs about AuthStorage, for any processes, calls, providers and       *)
(* tokens: unless two are at the file at once, a refresh token is used     *)
(* once, no change touches credentials that its process did not change,    *)
(* and what was taken out of the file comes back by a login only.          *)
EXTENDS AuthStorage, TLAPS

(* A call asks for a provider, and refreshes a token that exists.          *)
AskInv ==
  \A c \in Calls :
    /\ pc[c] # "idle" => provider[c] \in Providers
    /\ pc[c] \in {"refreshing", "refreshed"} => token[c] \in 1..issued

(* Who works under the lock has it.                                        *)
LockInv ==
  \A c \in Calls : (Holding(c) => lock = c) /\ ~compromised[c]

(* While a call refreshes the file is as it was read; what its process has *)
(* changed in the credentials that were read is no login or one that no    *)
(* file has seen.                                                          *)
Refreshing(c) == pc[c] \in {"refreshing", "refreshed"}
Carries(c) ==
  /\ token[c] = auth[provider[c]]
  /\ \A q \in Providers \ changed[c] : current[c][q] = auth[q]
  /\ \A q \in changed[c] :
       \/ current[c][q] = NoCred
       \/ current[c][q] \in usable /\ \A r \in Providers : auth[r] # current[c][q]
  /\ \A q, r \in Providers : current[c][q] = current[c][r] /\ current[c][q] # NoCred => q = r

(* The new token is nowhere yet.                                           *)
IsNew(c) ==
  fresh[c] \in usable /\ \A q \in Providers : auth[q] # fresh[c] /\ current[c][q] # fresh[c]

ReadInv ==
  /\ \A c \in Calls : Refreshing(c) => Carries(c)
  /\ \A c \in Calls : pc[c] = "refreshed" => IsNew(c)
  /\ file = "missing" => auth = Nothing

(* A token of the file is good for a refresh, unless one has just used it  *)
(* and is about to write, and no two providers share one.                  *)
TokenInv ==
  /\ \A q \in Providers : auth[q] \in 0..issued
  /\ \A q, r \in Providers : auth[q] = auth[r] /\ auth[q] # NoCred => q = r
  /\ \A q \in Providers :
       \/ auth[q] \in usable \cup lost \cup {NoCred}
       \/ \E c \in Calls : pc[c] = "refreshed" /\ provider[c] = q

Guarded == LockInv /\ ReadInv /\ TokenInv

IInv == TypeOK /\ AskInv /\ (raced \/ Guarded)
-----------------------------------------------------------------------------
USE CallAssumption, TokenAssumption

CallTypes ==
  /\ pc \in [Calls -> {"idle", "locking", "refreshing", "refreshed", "releasing", "failing",
                       "reloading"}]
  /\ provider \in [Calls -> Providers \cup {None}] /\ current \in [Calls -> [Providers -> Cred]]
  /\ token \in [Calls -> Cred] /\ changed \in [Calls -> SUBSET Providers]
  /\ fresh \in [Calls -> 0..MaxTokens] /\ compromised \in [Calls -> BOOLEAN]

(* No credentials are credentials.                                         *)
LEMMA NothingType == Nothing \in [Providers -> Cred]
  BY DEF Nothing, NoCred, Cred

(* The invariant holds at first.                                           *)
LEMMA InitIInv == Init => IInv
<1> SUFFICES ASSUME Init PROVE IInv
  OBVIOUS
<1>1. TypeOK
  <2>1. auth \in [Providers -> Cred] /\ data \in [Processes -> [Providers -> Cred]]
    BY NothingType DEF Init
  <2>2. CallTypes
    BY NothingType DEF Init, CallTypes, NoCred, Cred
  <2>3. /\ proc \in [Processes -> {"down", "creating", "up"}]
        /\ loadError \in [Processes -> BOOLEAN] /\ symlinked \in BOOLEAN
        /\ shared \in [Processes -> Calls \cup {None}]
    BY DEF Init
  <2>4. issued \in 0..MaxTokens /\ expired = {} /\ usable = {} /\ lost = {}
    BY DEF Init
  <2> QED BY <2>1, <2>2, <2>3, <2>4 DEF Init, TypeOK, CallTypes
<1>2. AskInv
  BY DEF Init, AskInv
<1>3. LockInv
  BY DEF Init, LockInv, Holding
<1>4. ReadInv /\ TokenInv
  BY DEF Init, ReadInv, Refreshing, TokenInv, Nothing, NoCred
<1> QED BY <1>1, <1>2, <1>3, <1>4 DEF IInv, Guarded

(* What the steps of the calls are made of.                                *)
LEMMA EndedTypes == ASSUME CallTypes, NEW C, Ended(C) PROVE CallTypes'
<1>1. /\ pc' \in [Calls -> {"idle", "locking", "refreshing", "refreshed", "releasing", "failing",
                            "reloading"}]
      /\ provider' \in [Calls -> Providers \cup {None}]
  BY DEF Ended, CallTypes
<1>2. current' \in [Calls -> [Providers -> Cred]]
  BY NothingType DEF Ended, CallTypes
<1>3. fresh' \in [Calls -> 0..MaxTokens]
  BY DEF Ended, CallTypes
<1>4. compromised' \in [Calls -> BOOLEAN]
  BY Zenon DEF Ended, CallTypes
<1>5. token' \in [Calls -> Cred] /\ changed' \in [Calls -> SUBSET Providers]
  BY DEF Ended, CallTypes, NoCred, Cred
<1> QED BY <1>1, <1>2, <1>3, <1>4, <1>5 DEF CallTypes

LEMMA LockSyncTypes ==
  ASSUME lock \in Calls \cup {None, Orphan}, raced \in BOOLEAN, NEW ok \in BOOLEAN, LockSync(ok)
  PROVE  /\ lock' \in Calls \cup {None, Orphan} /\ raced' \in BOOLEAN /\ (raced => raced')
         /\ ~ok => lock' = lock
  BY DEF LockSync, Overlaps

DataTypes ==
  /\ data \in [Processes -> [Providers -> Cred]] /\ loadError \in [Processes -> BOOLEAN]
  /\ shared \in [Processes -> Calls \cup {None}]

LEMMA SetTypes ==
  ASSUME DataTypes, CallTypes, NEW p \in Processes, NEW q \in Providers, NEW cred \in Cred,
         SetInMemory(p, q, cred),
         UNCHANGED <<shared, loadError, pc, provider, token, fresh, compromised>>
  PROVE  DataTypes' /\ CallTypes'
<1>1. data' = [data EXCEPT ![p] = [data[p] EXCEPT ![q] = cred]]
  BY DEF SetInMemory
<1>2. DataTypes'
  BY <1>1 DEF DataTypes
<1>3. CASE shared[p] = None
  BY <1>2, <1>3 DEF SetInMemory, CallTypes
<1>4. CASE shared[p] # None
  <2>1. /\ shared[p] \in Calls
        /\ current' = [current EXCEPT ![shared[p]] = [current[shared[p]] EXCEPT ![q] = cred]]
        /\ changed' = [changed EXCEPT ![shared[p]] = changed[shared[p]] \cup {q}]
    BY <1>4 DEF SetInMemory, DataTypes
  <2> QED BY <1>2, <2>1 DEF CallTypes
<1> QED BY <1>3, <1>4

LEMMA ReloadTypes ==
  ASSUME DataTypes, auth \in [Providers -> Cred], NEW p \in Processes, NEW ok \in BOOLEAN, Reload(p, ok)
  PROVE  DataTypes' /\ LockSync(ok)
<1>1. CASE ok /\ file # "torn"
  <2>1. /\ data' = [data EXCEPT ![p] = auth] /\ shared' = [shared EXCEPT ![p] = None]
        /\ loadError' = [loadError EXCEPT ![p] = FALSE] /\ LockSync(ok)
    BY <1>1 DEF Reload, NewData
  <2> QED BY <2>1 DEF DataTypes
<1>2. CASE ~(ok /\ file # "torn")
  BY <1>2 DEF DataTypes, Reload
<1> QED BY <1>1, <1>2

FileTypes ==
  /\ file \in {"missing", "json", "torn"} /\ auth \in [Providers -> Cred]
  /\ lock \in Calls \cup {None, Orphan} /\ raced \in BOOLEAN /\ symlinked \in BOOLEAN

TokenTypes ==
  /\ issued \in 0..MaxTokens
  /\ expired \subseteq 1..issued /\ usable \subseteq 1..issued /\ lost \subseteq 1..issued

(* A token that exists is a credential.                                    *)
LEMMA TokenRange ==
  ASSUME TokenTypes, NEW t \in usable
  PROVE  t \in 0..issued
  BY DEF TokenTypes

ProcTypes == proc \in [Processes -> {"down", "creating", "up"}]

(* The parts together are the types.                                       *)
LEMMA TypeParts == TypeOK <=> FileTypes /\ TokenTypes /\ ProcTypes /\ DataTypes /\ CallTypes
  BY DEF TypeOK, FileTypes, TokenTypes, ProcTypes, DataTypes, CallTypes

(* Every step keeps the types, and what calls ask for.                     *)
LEMMA TypeStep == TypeOK /\ AskInv /\ [Next]_vars => (TypeOK /\ AskInv)' /\ (raced => raced')
<1> SUFFICES ASSUME TypeOK, AskInv, [Next]_vars
             PROVE  /\ FileTypes' /\ TokenTypes' /\ ProcTypes' /\ DataTypes' /\ CallTypes'
                    /\ AskInv' /\ (raced => raced')
  BY TypeParts, PTL
<1>a. FileTypes /\ TokenTypes /\ ProcTypes /\ DataTypes /\ CallTypes
  BY TypeParts
<1> DEFINE Goal == /\ FileTypes' /\ TokenTypes' /\ ProcTypes' /\ DataTypes' /\ CallTypes'
                   /\ AskInv' /\ (raced => raced')
<1> USE DEF fileVars, memoryVars, callVars, tokenVars
<1>1. ASSUME NEW p \in Processes, NEW ok \in BOOLEAN, Start(p, ok) PROVE Goal
  <2>1. FileTypes' /\ (raced => raced')
    BY <1>a, <1>1, LockSyncTypes, ReloadTypes DEF Start, FileTypes, CallTypes, NoCred, Cred
  <2>2. TokenTypes'
    BY <1>a, <1>1 DEF Start, TokenTypes, FileTypes, AskInv
  <2>3. ProcTypes' /\ DataTypes'
    BY <1>a, <1>1, ReloadTypes, NothingType DEF Start, ProcTypes, DataTypes, FileTypes, CallTypes, NoCred, Cred, TokenTypes
  <2>4. CallTypes'
    BY <1>a, <1>1 DEF Start, CallTypes, FileTypes, TokenTypes
  <2>5. AskInv'
    BY <1>a, <1>1 DEF Start, AskInv, TokenTypes, CallTypes
  <2> QED BY <2>1, <2>2, <2>3, <2>4, <2>5
<1>2. ASSUME NEW p \in Processes, NEW q \in Providers, NEW ok \in BOOLEAN, Login(p, q, ok) PROVE Goal
  <2>1. FileTypes' /\ (raced => raced')
    <3>1. issued + 1 \in Cred
      BY <1>a, <1>2 DEF Login, TokenTypes, Cred
    <3>2. auth' \in [Providers -> Cred] /\ file' = file /\ symlinked' = symlinked
      BY <1>a, <1>2, <3>1 DEF Login, SetCredential, Merged, FileTypes
    <3>3. (lock' = lock /\ raced' = raced) \/ LockSync(ok)
      BY <1>2 DEF Login, SetCredential
    <3> QED BY <1>a, <3>2, <3>3, LockSyncTypes DEF FileTypes
  <2>2. TokenTypes'
    BY <1>a, <1>2 DEF Login, SetCredential, Merged, TokenTypes, FileTypes, AskInv
  <2>3. ProcTypes' /\ DataTypes' /\ CallTypes'
    <3>2. PICK cred \in Cred : SetInMemory(p, q, cred)
      BY <1>a, <1>2 DEF Login, SetCredential, TokenTypes, Cred, NoCred
    <3>3. UNCHANGED <<proc, shared, loadError, pc, provider, token, fresh, compromised>>
      BY <1>2 DEF Login, SetCredential
    <3> QED BY <1>a, <3>2, <3>3, SetTypes DEF ProcTypes
  <2>5. AskInv'
    BY <1>a, <1>2 DEF Login, SetCredential, Merged, AskInv, TokenTypes, CallTypes
  <2> QED BY <2>1, <2>2, <2>3, <2>5
<1>3. ASSUME NEW p \in Processes, NEW q \in Providers, NEW ok \in BOOLEAN, Logout(p, q, ok) PROVE Goal
  <2>1. FileTypes' /\ (raced => raced')
    BY <1>a, <1>3, LockSyncTypes DEF Logout, SetCredential, Merged, FileTypes, CallTypes, NoCred, Cred
  <2>2. TokenTypes'
    BY <1>a, <1>3 DEF Logout, SetCredential, Merged, TokenTypes, FileTypes, AskInv
  <2>3. ProcTypes' /\ DataTypes' /\ CallTypes'
    <3>2. PICK cred \in Cred : SetInMemory(p, q, cred)
      BY <1>a, <1>3 DEF Logout, SetCredential, TokenTypes, Cred, NoCred
    <3>3. UNCHANGED <<proc, shared, loadError, pc, provider, token, fresh, compromised>>
      BY <1>3 DEF Logout, SetCredential
    <3> QED BY <1>a, <3>2, <3>3, SetTypes DEF ProcTypes
  <2>5. AskInv'
    BY <1>a, <1>3 DEF Logout, SetCredential, Merged, AskInv, TokenTypes, CallTypes
  <2> QED BY <2>1, <2>2, <2>3, <2>5
<1>4. ASSUME NEW p \in Processes, StartMissing(p) PROVE Goal
  <2>1. FileTypes' /\ (raced => raced')
    BY <1>a, <1>4 DEF StartMissing, FileTypes, CallTypes, NoCred, Cred
  <2>2. TokenTypes'
    BY <1>a, <1>4 DEF StartMissing, TokenTypes, FileTypes, AskInv
  <2>3. ProcTypes' /\ DataTypes'
    BY <1>a, <1>4, NothingType DEF StartMissing, ProcTypes, DataTypes, FileTypes, CallTypes, NoCred, Cred, TokenTypes
  <2>4. CallTypes'
    BY <1>a, <1>4 DEF StartMissing, CallTypes, FileTypes, TokenTypes
  <2>5. AskInv'
    BY <1>a, <1>4 DEF StartMissing, AskInv, TokenTypes, CallTypes
  <2> QED BY <2>1, <2>2, <2>3, <2>4, <2>5
<1>5. ASSUME NEW p \in Processes, CreateFile(p) PROVE Goal
  <2>1. FileTypes' /\ (raced => raced')
    BY <1>a, <1>5, NothingType DEF CreateFile, FileTypes
  <2>2. TokenTypes'
    BY <1>a, <1>5 DEF CreateFile, TokenTypes, FileTypes, AskInv
  <2>3. ProcTypes' /\ DataTypes'
    BY <1>a, <1>5, NothingType DEF CreateFile, ProcTypes, DataTypes, FileTypes, CallTypes, NoCred, Cred, TokenTypes
  <2>4. CallTypes'
    BY <1>a, <1>5 DEF CreateFile, CallTypes, FileTypes, TokenTypes
  <2>5. AskInv'
    BY <1>a, <1>5 DEF CreateFile, AskInv, TokenTypes, CallTypes
  <2> QED BY <2>1, <2>2, <2>3, <2>4, <2>5
<1>6. ASSUME NEW p \in Processes, Kill(p) PROVE Goal
  <2>1. FileTypes' /\ (raced => raced')
    <3>a. raced' = raced \/ Overlaps(Calls \ CallsOf(p))
      BY <1>6 DEF Kill
    <3>b. raced' \in BOOLEAN /\ (raced => raced')
      BY <1>a, <3>a DEF Overlaps, FileTypes
    <3>c. lock' \in {lock, Orphan} /\ symlinked' = symlinked
      BY <1>6 DEF Kill
    <3>1. lock' \in {lock, Orphan} /\ raced' \in BOOLEAN /\ (raced => raced') /\ symlinked' = symlinked
      BY <3>b, <3>c
    <3>2. file' \in {file, "json", "torn"} /\ auth' \in {auth, Nothing}
      BY <1>6 DEF Kill, WriteCut
    <3> QED BY <1>a, <3>1, <3>2, NothingType DEF FileTypes
  <2>2. TokenTypes'
    BY <1>a, <1>6 DEF Kill, CallsOf, TokenTypes, AskInv
  <2>3. ProcTypes' /\ DataTypes'
    BY <1>a, <1>6, NothingType DEF Kill, WriteCut, ProcTypes, DataTypes, FileTypes, CallTypes, NoCred, Cred, TokenTypes
  <2>4. CallTypes'
    BY <1>a, <1>6, EndedTypes DEF Kill, WriteCut, CallTypes, FileTypes, TokenTypes
  <2>5. AskInv'
    BY <1>a, <1>6 DEF Kill, WriteCut, AskInv, TokenTypes, CallTypes, Ended
  <2> QED BY <2>1, <2>2, <2>3, <2>4, <2>5
<1>7. ASSUME NEW t \in 1..issued, Expire(t) PROVE Goal
  <2>1. FileTypes' /\ (raced => raced')
    BY <1>a, <1>7 DEF Expire, FileTypes, CallTypes, NoCred, Cred
  <2>2. TokenTypes'
    BY <1>a, <1>7 DEF Expire, TokenTypes, FileTypes, AskInv
  <2>3. ProcTypes' /\ DataTypes'
    BY <1>a, <1>7, NothingType DEF Expire, ProcTypes, DataTypes, FileTypes, CallTypes, NoCred, Cred, TokenTypes
  <2>4. CallTypes'
    BY <1>a, <1>7 DEF Expire, CallTypes, FileTypes, TokenTypes
  <2>5. AskInv'
    BY <1>a, <1>7 DEF Expire, AskInv, TokenTypes, CallTypes
  <2> QED BY <2>1, <2>2, <2>3, <2>4, <2>5
<1>8. ASSUME NEW c \in Calls, NEW q \in Providers, GetApiKey(c, q) PROVE Goal
  <2>1. FileTypes' /\ (raced => raced')
    BY <1>a, <1>8 DEF GetApiKey, Goto, FileTypes, CallTypes, NoCred, Cred
  <2>2. TokenTypes'
    BY <1>a, <1>8 DEF GetApiKey, Goto, TokenTypes, FileTypes, AskInv
  <2>3. ProcTypes' /\ DataTypes'
    BY <1>a, <1>8, NothingType DEF GetApiKey, Goto, ProcTypes, DataTypes, FileTypes, CallTypes, NoCred, Cred, TokenTypes
  <2>4. CallTypes'
    BY <1>a, <1>8 DEF GetApiKey, Goto, CallTypes, FileTypes, TokenTypes
  <2>5. AskInv'
    BY <1>a, <1>8 DEF GetApiKey, Goto, AskInv, TokenTypes, CallTypes
  <2> QED BY <2>1, <2>2, <2>3, <2>4, <2>5
<1>9. ASSUME NEW c \in Calls, Locked(c) PROVE Goal
  <2>1. FileTypes' /\ (raced => raced')
    BY <1>a, <1>9 DEF Locked, Goto, Overlaps, Acquired, ReadUnderLock, FileTypes, CallTypes, NoCred, Cred
  <2>2. TokenTypes'
    BY <1>a, <1>9 DEF Locked, Goto, Overlaps, Acquired, ReadUnderLock, TokenTypes, FileTypes, AskInv
  <2>3. ProcTypes' /\ DataTypes'
    <3>1. proc' = proc /\ OwnerOf[c] \in Processes
      BY <1>9 DEF Locked
    <3>2. CASE file = "torn"
      BY <1>a, <1>9, <3>1, <3>2 DEF Locked, ProcTypes, DataTypes
    <3>3. CASE file # "torn"
      <4>1. /\ data' = [data EXCEPT ![OwnerOf[c]] = auth]
            /\ loadError' = [loadError EXCEPT ![OwnerOf[c]] = FALSE]
            /\ \E x \in {c, None} : shared' = [shared EXCEPT ![OwnerOf[c]] = x]
        BY <1>9, <3>3 DEF Locked, ReadUnderLock
      <4> QED BY <1>a, <3>1, <4>1 DEF ProcTypes, DataTypes, FileTypes
    <3> QED BY <3>2, <3>3
  <2>4. CallTypes'
    <3>1. UNCHANGED <<provider, fresh, compromised>> /\ changed' = [changed EXCEPT ![c] = {}]
      BY <1>9 DEF Locked
    <3>2. CASE file = "torn"
      BY <1>a, <1>9, <3>1, <3>2 DEF Locked, Goto, CallTypes
    <3>3. CASE file # "torn"
      <4>1. /\ current' = [current EXCEPT ![c] = auth]
            /\ token' = [token EXCEPT ![c] = auth[provider[c]]]
            /\ pc' = [pc EXCEPT ![c] = "refreshing"] \/ pc' = [pc EXCEPT ![c] = "releasing"]
        BY <1>9, <3>3 DEF Locked, Goto, ReadUnderLock
      <4>2. auth[provider[c]] \in Cred
        BY <1>a, <1>9 DEF Locked, AskInv, FileTypes
      <4> QED BY <1>a, <3>1, <4>1, <4>2 DEF CallTypes, FileTypes
    <3> QED BY <3>2, <3>3
  <2>5. AskInv'
    <3>1. CASE file = "torn"
      BY <1>a, <1>9, <3>1 DEF Locked, Goto, AskInv, CallTypes
    <3>2. CASE file # "torn"
      <4>1. /\ pc[c] = "locking" /\ provider' = provider /\ issued' = issued
            /\ token' = [token EXCEPT ![c] = auth[provider[c]]]
            /\ \/ pc' = [pc EXCEPT ![c] = "refreshing"] /\ auth[provider[c]] \in expired
               \/ pc' = [pc EXCEPT ![c] = "releasing"]
        BY <1>9, <3>2 DEF Locked, Goto, ReadUnderLock
      <4> QED BY <1>a, <4>1 DEF AskInv, CallTypes, TokenTypes
    <3> QED BY <3>1, <3>2
  <2> QED BY <2>1, <2>2, <2>3, <2>4, <2>5
<1>10. ASSUME NEW c \in Calls, NEW ok \in BOOLEAN, LockFails(c, ok) PROVE Goal
  <2>1. FileTypes' /\ (raced => raced')
    BY <1>a, <1>10, LockSyncTypes, ReloadTypes DEF LockFails, FileTypes, CallTypes, NoCred, Cred
  <2>2. TokenTypes'
    BY <1>a, <1>10 DEF LockFails, TokenTypes, FileTypes, AskInv
  <2>3. ProcTypes' /\ DataTypes'
    BY <1>a, <1>10, ReloadTypes, NothingType DEF LockFails, ProcTypes, DataTypes, FileTypes, CallTypes, NoCred, Cred, TokenTypes
  <2>4. CallTypes'
    BY <1>a, <1>10, EndedTypes DEF LockFails, CallTypes, FileTypes, TokenTypes
  <2>5. AskInv'
    BY <1>a, <1>10 DEF LockFails, AskInv, TokenTypes, CallTypes, Ended
  <2> QED BY <2>1, <2>2, <2>3, <2>4, <2>5
<1>11. ASSUME NEW c \in Calls, NEW ok \in BOOLEAN, ReloadAfterFailure(c, ok) PROVE Goal
  <2>1. FileTypes' /\ (raced => raced')
    BY <1>a, <1>11, LockSyncTypes, ReloadTypes DEF ReloadAfterFailure, FileTypes, CallTypes, NoCred, Cred
  <2>2. TokenTypes'
    BY <1>a, <1>11 DEF ReloadAfterFailure, TokenTypes, FileTypes, AskInv
  <2>3. ProcTypes' /\ DataTypes'
    BY <1>a, <1>11, ReloadTypes, NothingType DEF ReloadAfterFailure, ProcTypes, DataTypes, FileTypes, CallTypes, NoCred, Cred, TokenTypes
  <2>4. CallTypes'
    BY <1>a, <1>11, EndedTypes DEF ReloadAfterFailure, CallTypes, FileTypes, TokenTypes
  <2>5. AskInv'
    BY <1>a, <1>11 DEF ReloadAfterFailure, AskInv, TokenTypes, CallTypes, Ended
  <2> QED BY <2>1, <2>2, <2>3, <2>4, <2>5
<1>12. ASSUME NEW c \in Calls, ProviderRefreshes(c) PROVE Goal
  <2>1. FileTypes' /\ (raced => raced')
    BY <1>a, <1>12 DEF ProviderRefreshes, Goto, FileTypes, CallTypes, NoCred, Cred
  <2>2. TokenTypes'
    <3>1. issued' = issued + 1 /\ usable' = (usable \ {token[c]}) \cup {issued + 1}
      BY <1>12 DEF ProviderRefreshes
    <3>2. UNCHANGED <<expired, lost>> /\ issued < MaxTokens
      BY <1>12 DEF ProviderRefreshes
    <3>3. /\ issued \in 0..MaxTokens /\ issued + 1 \in 0..MaxTokens
          /\ \A S : S \subseteq 1..issued => S \subseteq 1..(issued + 1)
      BY <1>a, <3>2 DEF TokenTypes
    <3>4. issued + 1 \in 1..(issued + 1)
      BY <3>3
    <3> QED BY <1>a, <3>1, <3>2, <3>3, <3>4 DEF TokenTypes
  <2>3. ProcTypes' /\ DataTypes'
    BY <1>a, <1>12, NothingType DEF ProviderRefreshes, Goto, ProcTypes, DataTypes, FileTypes, CallTypes, NoCred, Cred, TokenTypes
  <2>4. CallTypes'
    BY <1>a, <1>12 DEF ProviderRefreshes, Goto, CallTypes, FileTypes, TokenTypes
  <2>5. AskInv'
    BY <1>a, <1>12 DEF ProviderRefreshes, Goto, AskInv, TokenTypes, CallTypes
  <2> QED BY <2>1, <2>2, <2>3, <2>4, <2>5
<1>13. ASSUME NEW c \in Calls, ProviderFails(c) PROVE Goal
  <2>1. FileTypes' /\ (raced => raced')
    BY <1>a, <1>13 DEF ProviderFails, Goto, FileTypes, CallTypes, NoCred, Cred
  <2>2. TokenTypes'
    BY <1>a, <1>13 DEF ProviderFails, Goto, TokenTypes, FileTypes, AskInv
  <2>3. ProcTypes' /\ DataTypes'
    <3>1. UNCHANGED <<proc, data, loadError>> /\ shared' = Unshared(c)
      BY <1>13 DEF ProviderFails
    <3> QED BY <1>a, <3>1 DEF Unshared, ProcTypes, DataTypes
  <2>4. CallTypes'
    BY <1>a, <1>13 DEF ProviderFails, Goto, CallTypes, FileTypes, TokenTypes
  <2>5. AskInv'
    BY <1>a, <1>13 DEF ProviderFails, Goto, AskInv, TokenTypes, CallTypes
  <2> QED BY <2>1, <2>2, <2>3, <2>4, <2>5
<1>14. ASSUME NEW c \in Calls, FinishRefresh(c) PROVE Goal
  <2>1. FileTypes' /\ (raced => raced')
    BY <1>a, <1>14 DEF FinishRefresh, NewData, Goto, Refreshed, FileTypes, CallTypes, NoCred, Cred
  <2>2. TokenTypes'
    <3>1. UNCHANGED <<issued, expired, usable>> /\ (lost' = lost \/ lost' = lost \cup {token[c]})
      BY <1>14 DEF FinishRefresh
    <3>2. token[c] \in 1..issued
      BY <1>a, <1>14 DEF FinishRefresh, AskInv
    <3> QED BY <1>a, <3>1, <3>2 DEF TokenTypes
  <2>3. ProcTypes' /\ DataTypes'
    BY <1>a, <1>14, NothingType DEF FinishRefresh, NewData, Goto, Refreshed, ProcTypes, DataTypes, FileTypes, CallTypes, NoCred, Cred, TokenTypes
  <2>4. CallTypes'
    BY <1>a, <1>14 DEF FinishRefresh, NewData, Goto, Refreshed, CallTypes, FileTypes, TokenTypes
  <2>5. AskInv'
    BY <1>a, <1>14 DEF FinishRefresh, NewData, Goto, Refreshed, AskInv, TokenTypes, CallTypes
  <2> QED BY <2>1, <2>2, <2>3, <2>4, <2>5
<1>15. ASSUME NEW c \in Calls, Release(c) PROVE Goal
  <2>1. FileTypes' /\ (raced => raced')
    BY <1>a, <1>15 DEF Release, AfterRelease, Goto, FileTypes, CallTypes, NoCred, Cred
  <2>2. TokenTypes'
    BY <1>a, <1>15 DEF Release, AfterRelease, Goto, TokenTypes, FileTypes, AskInv
  <2>3. ProcTypes' /\ DataTypes'
    BY <1>a, <1>15, NothingType DEF Release, AfterRelease, Goto, ProcTypes, DataTypes, FileTypes, CallTypes, NoCred, Cred, TokenTypes
  <2>4. CallTypes'
    BY <1>a, <1>15, EndedTypes DEF Release, AfterRelease, Goto, CallTypes, FileTypes, TokenTypes
  <2>5. AskInv'
    <3>1. CASE pc[c] = "failing"
      BY <1>a, <1>15, <3>1 DEF Release, Goto, AskInv, CallTypes
    <3>2. CASE pc[c] = "releasing"
      BY <1>a, <1>15, <3>2 DEF Release, Ended, AskInv
    <3> QED BY <1>15, <3>1, <3>2 DEF Release
  <2> QED BY <2>1, <2>2, <2>3, <2>4, <2>5
<1>16. ASSUME NEW c \in Calls, NoticeCompromised(c) PROVE Goal
  <2>1. FileTypes' /\ (raced => raced')
    BY <1>a, <1>16 DEF NoticeCompromised, FileTypes, CallTypes, NoCred, Cred
  <2>2. TokenTypes'
    BY <1>a, <1>16 DEF NoticeCompromised, TokenTypes, FileTypes, AskInv
  <2>3. ProcTypes' /\ DataTypes'
    BY <1>a, <1>16, NothingType DEF NoticeCompromised, ProcTypes, DataTypes, FileTypes, CallTypes, NoCred, Cred, TokenTypes
  <2>4. CallTypes'
    BY <1>a, <1>16 DEF NoticeCompromised, CallTypes, FileTypes, TokenTypes
  <2>5. AskInv'
    BY <1>a, <1>16 DEF NoticeCompromised, AskInv, TokenTypes, CallTypes
  <2> QED BY <2>1, <2>2, <2>3, <2>4, <2>5
<1>17. ASSUME UNCHANGED vars PROVE Goal
  <2>1. FileTypes' /\ (raced => raced')
    BY <1>a, <1>17 DEF vars, FileTypes, CallTypes, NoCred, Cred
  <2>2. TokenTypes'
    BY <1>a, <1>17 DEF vars, TokenTypes, FileTypes, AskInv
  <2>3. ProcTypes' /\ DataTypes'
    BY <1>a, <1>17, NothingType DEF vars, ProcTypes, DataTypes, FileTypes, CallTypes, NoCred, Cred, TokenTypes
  <2>4. CallTypes'
    BY <1>a, <1>17 DEF vars, CallTypes, FileTypes, TokenTypes
  <2>5. AskInv'
    BY <1>a, <1>17 DEF vars, AskInv, TokenTypes, CallTypes
  <2> QED BY <2>1, <2>2, <2>3, <2>4, <2>5
<1> QED BY <1>1, <1>2, <1>3, <1>4, <1>5, <1>6, <1>7, <1>8, <1>9, <1>10, <1>11, <1>12, <1>13, <1>14, <1>15, <1>16, <1>17 DEF Next, CallStep

(* Nothing that a refresh relies on changes in a step that is not a call's *)
(* and comes to the file only when no call holds the lock.                 *)
Idle == \A c \in Calls : ~Holding(c)

LEMMA OthersKeep ==
  ASSUME Guarded, TypeOK, AskInv,
         UNCHANGED <<pc, provider, token, fresh, compromised>>,
         Idle \/ UNCHANGED <<current, changed, auth, lock>>,
         file' = "missing" => auth' = Nothing,
         usable \subseteq usable' /\ lost \subseteq lost' /\ issued <= issued' /\ issued' \in Nat,
         \A q \in Providers : auth'[q] \in {auth[q], NoCred} \/ (auth'[q] \in usable' /\ auth'[q] > issued),
         \A q \in Providers : auth'[q] \in 0..issued',
         \A q, r \in Providers : auth'[q] = auth'[r] /\ auth'[q] # NoCred => q = r
  PROVE  Guarded'
<1>1. Idle => \A c \in Calls : ~Holding(c) /\ ~Holding(c)' /\ ~Refreshing(c)'
  BY DEF Idle, Holding, Refreshing
<1>2. LockInv'
  BY <1>1 DEF Guarded, LockInv, Holding
<1>3. ReadInv'
  <2>1. CASE Idle
    BY <1>1, <2>1 DEF ReadInv, Refreshing
  <2>2. CASE UNCHANGED <<current, changed, auth, lock>>
    <3>1. ASSUME NEW c \in Calls, Refreshing(c)' PROVE Carries(c)'
      BY <2>2, <3>1 DEF Guarded, ReadInv, Refreshing, Carries
    <3>2. ASSUME NEW c \in Calls, pc'[c] = "refreshed" PROVE IsNew(c)'
      BY <2>2, <3>2 DEF Guarded, ReadInv, IsNew
    <3> QED BY <3>1, <3>2 DEF ReadInv
  <2> QED BY <2>1, <2>2
<1>4. TokenInv'
  BY <1>1 DEF Guarded, TokenInv, Holding
<1> QED BY <1>2, <1>3, <1>4 DEF Guarded

(* A synchronous section comes to the file only when no call holds the     *)
(* lock, unless they overlap.                                              *)
LEMMA SectionIdle ==
  ASSUME LockInv, NEW ok \in BOOLEAN, LockSync(ok), ~raced'
  PROVE  Idle \/ (lock' = lock /\ ~ok)
  BY DEF LockInv, LockSync, Overlaps, Idle

(* What set or remove does to the credentials a refresh will write.        *)
LEMMA SetCarries ==
  ASSUME TypeOK, Guarded, NEW p \in Processes, NEW q \in Providers, NEW cred \in Cred,
         SetInMemory(p, q, cred),
         UNCHANGED <<pc, provider, token, fresh, compromised, auth, lock, file>>,
         cred = NoCred \/ (cred \in usable' /\ cred = issued + 1),
         usable \subseteq usable', lost' = lost, issued' \in {issued, issued + 1}
  PROVE  Guarded'
<1>1. /\ issued \in Nat /\ usable \subseteq 1..issued
      /\ auth \in [Providers -> Cred] /\ current \in [Calls -> [Providers -> Cred]]
      /\ changed \in [Calls -> SUBSET Providers] /\ shared[p] \in Calls \cup {None}
      /\ \A r \in Providers : auth[r] \in 0..issued
  BY DEF TypeOK, Guarded, TokenInv
<1>2. LockInv'
  BY DEF Guarded, LockInv, Holding
<1>3. TokenInv'
  BY <1>1 DEF Guarded, TokenInv
<1>4. ASSUME NEW c \in Calls, Refreshing(c) PROVE Carries(c)' /\ (pc[c] = "refreshed" => IsNew(c)')
  <2>1. /\ Carries(c) /\ (pc[c] = "refreshed" => IsNew(c))
    BY <1>4 DEF Guarded, ReadInv
  <2>2. CASE current'[c] = current[c] /\ changed'[c] = changed[c]
    BY <2>1, <2>2 DEF Carries, IsNew
  <2>3. CASE shared[p] = c
    <3>1. /\ current' = [current EXCEPT ![c] = [current[c] EXCEPT ![q] = cred]]
          /\ changed' = [changed EXCEPT ![c] = changed[c] \cup {q}]
      BY <2>3, CallAssumption DEF SetInMemory
    <3>2. /\ \A r \in Providers : current'[c][r] = IF r = q THEN cred ELSE current[c][r]
          /\ changed'[c] = changed[c] \cup {q}
      BY <1>1, <3>1
    <3>3. ASSUME NEW r \in Providers PROVE current[c][r] \in 0..issued
      <4>1. CASE r \in changed[c]
        <5>1. current[c][r] = NoCred \/ current[c][r] \in usable
          BY <2>1, <4>1 DEF Carries
        <5>2. NoCred \in 0..issued
          BY <1>1 DEF NoCred
        <5> QED BY <5>1, <5>2, TokenRange, TypeParts
      <4>2. CASE r \notin changed[c]
        BY <1>1, <2>1, <4>2 DEF Carries
      <4> QED BY <4>1, <4>2
    <3>4. /\ \A r \in Providers : cred = NoCred \/ (auth[r] # cred /\ current[c][r] # cred)
          /\ pc[c] = "refreshed" => cred # fresh[c]
      <4>1. CASE cred = NoCred
        BY <1>1, <2>1, <4>1 DEF IsNew, NoCred
      <4>2. CASE cred = issued + 1
        <5>1. cred \notin 0..issued
          BY <1>1, <4>2
        <5>2. pc[c] = "refreshed" => fresh[c] \in 0..issued
          <6>1. pc[c] = "refreshed" => fresh[c] \in usable
            BY <2>1 DEF IsNew
          <6> QED BY <6>1, TokenRange, TypeParts
        <5> QED BY <1>1, <3>3, <5>1, <5>2
      <4> QED BY <4>1, <4>2
    <3>5. \A r \in Providers \ changed'[c] : current'[c][r] = auth'[r]
      BY <2>1, <3>2 DEF Carries
    <3>6. \A r \in changed'[c] :
            \/ current'[c][r] = NoCred
            \/ current'[c][r] \in usable' /\ \A n \in Providers : auth'[n] # current'[c][r]
      <4>1. ASSUME NEW r \in changed'[c]
            PROVE  \/ current'[c][r] = NoCred
                   \/ current'[c][r] \in usable' /\ \A n \in Providers : auth'[n] # current'[c][r]
        <5>1. CASE r = q
          BY <3>2, <3>4, <5>1
        <5>2. CASE r # q
          <6>1. r \in changed[c] /\ r \in Providers /\ current'[c][r] = current[c][r]
            BY <1>1, <3>2, <4>1, <5>2
          <6> QED BY <2>1, <6>1 DEF Carries
        <5> QED BY <5>1, <5>2
      <4> QED BY <4>1
    <3>7. \A r, n \in Providers : current'[c][r] = current'[c][n] /\ current'[c][r] # NoCred => r = n
      BY <2>1, <3>2, <3>4 DEF Carries
    <3>8. Carries(c)'
      BY <2>1, <3>5, <3>6, <3>7 DEF Carries
    <3>9. pc[c] = "refreshed" => IsNew(c)'
      BY <2>1, <3>2, <3>4 DEF IsNew
    <3> QED BY <3>8, <3>9
  <2>4. shared[p] # c => current'[c] = current[c] /\ changed'[c] = changed[c]
    BY <1>1 DEF SetInMemory
  <2> QED BY <2>2, <2>3, <2>4
<1>5. ReadInv'
  BY <1>4 DEF Guarded, ReadInv, Refreshing
<1> QED BY <1>2, <1>3, <1>5 DEF Guarded

(* Unless a lock is lost to another, every step keeps what the calls that  *)
(* refresh rely on.                                                        *)
LEMMA GuardStep ==
  ASSUME TypeOK, AskInv, Guarded, [Next]_vars, ~raced'
  PROVE  Guarded'
<1>a. FileTypes /\ TokenTypes /\ ProcTypes /\ DataTypes /\ CallTypes
  BY TypeParts
<1>b. /\ \A q, r \in Providers : auth[q] = auth[r] /\ auth[q] # NoCred => q = r
      /\ \A q \in Providers : auth[q] \in 0..issued
      /\ file = "missing" => auth = Nothing
      /\ issued \in Nat
  BY DEF Guarded, TokenInv, ReadInv, TypeOK
<1> USE DEF fileVars, memoryVars, callVars, tokenVars
<1>1. ASSUME NEW p \in Processes, NEW ok \in BOOLEAN, Start(p, ok) PROVE Guarded'
  <2>1. Idle \/ lock' = lock
    BY <1>1, SectionIdle DEF Start, Reload, Guarded
  <2> QED BY <1>1, <1>b, <2>1, OthersKeep DEF Start
<1>2. ASSUME NEW p \in Processes, NEW q \in Providers, NEW cred \in Cred, NEW ok \in BOOLEAN,
             SetCredential(p, q, cred, ok),
             \/ cred = NoCred /\ UNCHANGED <<issued, usable, lost>>
             \/ /\ cred = issued' /\ issued' \in usable' /\ issued' = issued + 1
                /\ usable \subseteq usable' /\ lost' = lost
      PROVE  Guarded'
  <2>1. /\ UNCHANGED <<pc, provider, token, fresh, compromised, file>> /\ SetInMemory(p, q, cred)
        /\ Idle \/ UNCHANGED <<auth, lock>>
        /\ auth' = auth \/ (file = "json" /\ auth' = [auth EXCEPT ![q] = cred])
    <3>1. CASE loadError[p]
      BY <1>2, <3>1 DEF SetCredential
    <3>2. CASE ~loadError[p]
      <4>1. Idle \/ (lock' = lock /\ ~ok)
        BY <1>2, <3>2, SectionIdle DEF SetCredential, Guarded
      <4> QED BY <1>2, <3>2, <4>1 DEF SetCredential, Merged
    <3> QED BY <3>1, <3>2
  <2>2. CASE UNCHANGED <<auth, lock>>
    BY <1>2, <1>b, <2>1, <2>2, SetCarries
  <2>3. CASE Idle
    <3>1. auth \in [Providers -> Cred]
      BY <1>a DEF FileTypes
    <3>a. /\ \A r \in Providers : auth'[r] = auth[r] \/ (r = q /\ auth'[r] = cred)
          /\ issued' \in Nat /\ issued <= issued'
          /\ cred = NoCred \/ (cred \in usable' /\ cred > issued /\ cred = issued')
      <4>1. \A r \in Providers : auth'[r] = auth[r] \/ (r = q /\ auth'[r] = cred)
        BY <2>1, <3>1
      <4>2. issued' \in Nat /\ issued <= issued'
        BY <1>2, <1>b
      <4> QED BY <1>2, <1>b, <4>1, <4>2
    <3>2. \A r \in Providers : auth'[r] \in {auth[r], NoCred} \/ (auth'[r] \in usable' /\ auth'[r] > issued)
      BY <3>a
    <3>3. \A r \in Providers : auth'[r] \in 0..issued'
      BY <1>b, <3>a DEF NoCred
    <3>4. \A r, s \in Providers : auth'[r] = auth'[s] /\ auth'[r] # NoCred => r = s
      BY <1>b, <3>a
    <3>5. file' = "missing" => auth' = Nothing
      BY <1>b, <2>1
    <3>6. usable \subseteq usable' /\ lost \subseteq lost'
      BY <1>2
    <3> QED BY <2>1, <2>3, <3>a, <3>2, <3>3, <3>4, <3>5, <3>6, OthersKeep
  <2> QED BY <2>1, <2>2, <2>3
<1>3. ASSUME NEW p \in Processes, NEW q \in Providers, NEW ok \in BOOLEAN, Login(p, q, ok)
      PROVE  Guarded'
  <2>1. issued + 1 \in Cred
    BY <1>a, <1>3 DEF Login, TokenTypes, Cred
  <2> QED BY <1>2, <1>3, <2>1 DEF Login
<1>4. ASSUME NEW p \in Processes, NEW q \in Providers, NEW ok \in BOOLEAN, Logout(p, q, ok)
      PROVE  Guarded'
  BY <1>2, <1>4 DEF Logout, NoCred, Cred
<1>5. ASSUME NEW p \in Processes, StartMissing(p) PROVE Guarded'
  BY <1>5, <1>b, OthersKeep DEF StartMissing
<1>6. ASSUME NEW p \in Processes, CreateFile(p) PROVE Guarded'
  <2>1. file = "missing"
    BY <1>6 DEF CreateFile
  <2>2. /\ UNCHANGED <<pc, provider, current, token, changed, fresh, compromised, lock, usable, lost, issued>>
        /\ auth' = Nothing /\ file' = "json"
    BY <1>6 DEF CreateFile
  <2>3. auth' = auth
    BY <1>b, <2>1, <2>2
  <2> QED BY <1>b, <2>2, <2>3, OthersKeep
<1>7. ASSUME NEW t \in 1..issued, Expire(t) PROVE Guarded'
  BY <1>7, <1>b, OthersKeep DEF Expire
<1>8. CASE UNCHANGED vars
  BY <1>8, <1>b, OthersKeep DEF vars
<1>c. /\ \A c \in Calls : Holding(c) => lock = c
      /\ \A c \in Calls : ~compromised[c]
      /\ \A c \in Calls : Refreshing(c) => Carries(c) /\ provider[c] \in Providers
      /\ \A c \in Calls : pc[c] = "refreshed" => IsNew(c)
      /\ \A q \in Providers :
           \/ auth[q] \in usable \cup lost \cup {NoCred}
           \/ \E c \in Calls : pc[c] = "refreshed" /\ provider[c] = q
  BY DEF Guarded, LockInv, ReadInv, TokenInv, Refreshing, AskInv
<1> USE DEF Guarded, LockInv, ReadInv, TokenInv, Holding
(* A step of the call c at which the file, the tokens and the lock stay.   *)
<1>d. ASSUME NEW c \in Calls, \A d \in Calls \ {c} :
               /\ pc'[d] = pc[d] /\ provider'[d] = provider[d] /\ current'[d] = current[d]
               /\ token'[d] = token[d] /\ changed'[d] = changed[d] /\ fresh'[d] = fresh[d],
             pc[c] # "refreshed", ~Refreshing(c)', (Holding(c) => lock = c)', \A d \in Calls : ~compromised'[d],
             UNCHANGED <<file, auth, issued, usable, lost>>,
             lock' = lock \/ \A d \in Calls \ {c} : ~Holding(d)
      PROVE  Guarded'
  <2>1. LockInv'
    BY <1>c, <1>d
  <2>2. ASSUME NEW d \in Calls, Refreshing(d)' PROVE Carries(d)' /\ (pc'[d] = "refreshed" => IsNew(d)')
    <3>1. d # c /\ Refreshing(d) /\ pc'[d] = pc[d] /\ Carries(d) /\ (pc[d] = "refreshed" => IsNew(d))
      BY <1>c, <1>d, <2>2 DEF Refreshing
    <3>2. /\ provider'[d] = provider[d] /\ current'[d] = current[d]
          /\ token'[d] = token[d] /\ changed'[d] = changed[d] /\ fresh'[d] = fresh[d]
      BY <1>d, <3>1
    <3> QED BY <1>d, <3>1, <3>2 DEF Carries, IsNew
  <2>3. ReadInv'
    BY <1>b, <1>d, <2>2 DEF Refreshing
  <2>4. TokenInv'
    BY <1>b, <1>c, <1>d
  <2> QED BY <2>1, <2>3, <2>4
<1>9. ASSUME NEW c \in Calls, NEW q \in Providers, GetApiKey(c, q) PROVE Guarded'
  <2>1. /\ pc[c] = "idle" /\ pc' = [pc EXCEPT ![c] = "locking"] /\ provider' = [provider EXCEPT ![c] = q]
        /\ UNCHANGED <<file, auth, lock, current, token, changed, fresh, compromised, issued, usable, lost>>
    BY <1>9 DEF GetApiKey, Goto
  <2> QED BY <1>a, <1>c, <1>d, <2>1 DEF CallTypes, Refreshing
<1>10. ASSUME NEW c \in Calls, Locked(c) PROVE Guarded'
  <2>1. /\ pc[c] = "locking" /\ Idle /\ lock' = c
        /\ UNCHANGED <<provider, fresh, compromised, auth, file, usable, lost, issued>>
    BY <1>c, <1>10 DEF Locked, Overlaps, Acquired, Idle
  <2>2. /\ pc'[c] \in {"failing", "refreshing", "releasing"}
        /\ \A d \in Calls \ {c} : pc'[d] = pc[d]
    BY <1>a, <1>10 DEF Locked, Goto, CallTypes
  <2>3. pc'[c] = "refreshing" => current'[c] = auth /\ token'[c] = auth[provider[c]]
    BY <1>a, <1>10 DEF Locked, Goto, CallTypes, ReadUnderLock
  <2>4. \A d \in Calls : ~Holding(d) /\ ~Refreshing(d) /\ pc[d] # "refreshed"
    BY <2>1 DEF Idle, Refreshing
  <2>5. LockInv'
    BY <1>c, <2>1, <2>2, <2>4
  <2>6. changed'[c] = {}
    BY <1>a, <1>10 DEF Locked, CallTypes
  <2>7. pc'[c] = "refreshing" => Carries(c)'
    BY <1>b, <2>1, <2>3, <2>6 DEF Carries
  <2>8. ReadInv'
    BY <1>b, <2>1, <2>2, <2>4, <2>7 DEF Refreshing
  <2>9. TokenInv'
    BY <1>b, <1>c, <2>1, <2>4
  <2> QED BY <2>5, <2>8, <2>9
<1>11. ASSUME NEW c \in Calls, NEW ok \in BOOLEAN, pc[c] \in {"locking", "reloading"}, Ended({c}),
              Reload(OwnerOf[c], ok), UNCHANGED <<fileVars, proc, tokenVars>>
       PROVE  Guarded'
  <2>1. lock' = lock \/ Idle
    BY <1>11, SectionIdle DEF Reload
  <2>2. /\ pc'[c] = "idle" /\ \A d \in Calls : ~compromised'[d]
        /\ \A d \in Calls \ {c} :
             /\ pc'[d] = pc[d] /\ provider'[d] = provider[d] /\ current'[d] = current[d]
             /\ token'[d] = token[d] /\ changed'[d] = changed[d] /\ fresh'[d] = fresh[d]
    BY <1>c, <1>11 DEF Ended
  <2> QED BY <1>11, <1>d, <2>1, <2>2 DEF Idle, Refreshing
<1>12. ASSUME NEW c \in Calls, NEW ok \in BOOLEAN, LockFails(c, ok) PROVE Guarded'
  BY <1>11, <1>12 DEF LockFails
<1>13. ASSUME NEW c \in Calls, NEW ok \in BOOLEAN, ReloadAfterFailure(c, ok) PROVE Guarded'
  BY <1>11, <1>13 DEF ReloadAfterFailure
<1>14. ASSUME NEW c \in Calls, ProviderRefreshes(c) PROVE Guarded'
  <2>1. /\ pc[c] = "refreshing" /\ pc' = [pc EXCEPT ![c] = "refreshed"] /\ fresh' = [fresh EXCEPT ![c] = issued + 1]
        /\ issued' = issued + 1 /\ usable' = (usable \ {token[c]}) \cup {issued + 1} /\ lost' = lost
        /\ UNCHANGED <<file, auth, lock, provider, current, token, changed, compromised>>
    BY <1>14 DEF ProviderRefreshes, Goto
  <2>2. /\ Carries(c) /\ provider[c] \in Providers /\ lock = c
        /\ \A d \in Calls \ {c} : ~Holding(d) /\ ~Refreshing(d)
    BY <1>c, <2>1 DEF Refreshing
  <2>3. /\ \A d \in Calls : pc'[d] = IF d = c THEN "refreshed" ELSE pc[d]
        /\ fresh'[c] = issued + 1
    BY <1>a, <2>1 DEF CallTypes
  <2>4. LockInv'
    BY <1>c, <2>1, <2>2, <2>3
  <2>a. /\ issued \in Nat /\ usable \subseteq 1..issued /\ issued + 1 \notin 0..issued
        /\ \A q \in Providers : auth[q] \in 0..issued
    BY <1>a, <1>b DEF TokenTypes
  <2>b. \A q \in Providers :
          current[c][q] = auth[q] \/ current[c][q] = NoCred \/ current[c][q] \in usable
    BY <2>2 DEF Carries
  <2>5. /\ \A q \in Providers : auth[q] \in 0..issued /\ current[c][q] \in 0..issued
        /\ issued + 1 \notin 0..issued
    <3>1. NoCred \in 0..issued
      BY <2>a DEF NoCred
    <3> QED BY <1>a, <2>a, <2>b, <3>1, TokenRange
  <2>6. Carries(c)'
    <3>1. ASSUME NEW q \in changed[c]
          PROVE  \/ current[c][q] = NoCred
                 \/ current[c][q] \in usable' /\ \A r \in Providers : auth[r] # current[c][q]
      BY <2>1, <2>2 DEF Carries
    <3> QED BY <2>1, <2>2, <3>1 DEF Carries
  <2>7. IsNew(c)'
    BY <2>1, <2>3, <2>5 DEF IsNew
  <2>8. ReadInv'
    BY <1>b, <2>1, <2>2, <2>3, <2>6, <2>7 DEF Refreshing
  <2>9. TokenInv'
    <3>1. ASSUME NEW q \in Providers
          PROVE  \/ auth[q] \in usable' \cup lost' \cup {NoCred}
                 \/ \E d \in Calls : pc'[d] = "refreshed" /\ provider'[d] = q
      <4>1. CASE auth[q] = token[c] /\ auth[q] # NoCred
        BY <1>b, <2>1, <2>2, <2>3, <4>1 DEF Carries
      <4>2. CASE auth[q] # token[c] \/ auth[q] = NoCred
        BY <1>c, <2>1, <2>2, <4>2 DEF Refreshing
      <4> QED BY <4>1, <4>2
    <3>2. \A q \in Providers : auth'[q] \in 0..issued'
      BY <1>b, <2>1
    <3> QED BY <1>b, <2>1, <3>1, <3>2
  <2> QED BY <2>4, <2>8, <2>9
<1>15. ASSUME NEW c \in Calls, ProviderFails(c) PROVE Guarded'
  <2>1. /\ pc[c] = "refreshing" /\ pc' = [pc EXCEPT ![c] = "failing"]
        /\ UNCHANGED <<file, auth, lock, provider, current, token, changed, fresh, compromised, issued>>
        /\ \/ UNCHANGED <<usable, lost>>
           \/ usable' = usable \ {token[c]} /\ lost' = lost \cup {token[c]}
    BY <1>15 DEF ProviderFails, Goto
  <2>2. lock = c /\ \A d \in Calls \ {c} : ~Holding(d) /\ ~Refreshing(d)
    BY <1>c, <2>1 DEF Refreshing
  <2>3. \A d \in Calls : pc'[d] = IF d = c THEN "failing" ELSE pc[d]
    BY <1>a, <2>1 DEF CallTypes
  <2>4. LockInv'
    BY <1>c, <2>1, <2>2, <2>3
  <2>5. ReadInv'
    BY <1>b, <2>1, <2>2, <2>3 DEF Refreshing
  <2>6. TokenInv'
    BY <1>b, <1>c, <2>1, <2>2, <2>3 DEF Refreshing
  <2> QED BY <2>4, <2>5, <2>6
<1>16. ASSUME NEW c \in Calls, FinishRefresh(c) PROVE Guarded'
  <2>1. /\ pc[c] = "refreshed" /\ lock = c /\ Carries(c) /\ IsNew(c) /\ ~compromised[c]
        /\ provider[c] \in Providers
        /\ \A d \in Calls \ {c} : ~Holding(d)
    BY <1>c, <1>16 DEF FinishRefresh, Refreshing
  <2>2. /\ auth' = [current[c] EXCEPT ![provider[c]] = fresh[c]] /\ file' = "json"
        /\ pc' = [pc EXCEPT ![c] = "releasing"]
        /\ UNCHANGED <<lock, provider, current, token, changed, fresh, compromised, issued, usable, lost>>
    BY <1>16, <2>1 DEF FinishRefresh, Refreshed, Goto
  <2>3. /\ \A d \in Calls : pc'[d] = IF d = c THEN "releasing" ELSE pc[d]
        /\ \A q \in Providers : auth'[q] = IF q = provider[c] THEN fresh[c] ELSE current[c][q]
    BY <1>a, <2>1, <2>2 DEF CallTypes
  <2>4. LockInv'
    BY <1>c, <2>1, <2>2, <2>3
  <2>5. ReadInv'
    BY <2>1, <2>2, <2>3 DEF Refreshing
  <2>6. /\ fresh[c] \in usable /\ usable \subseteq 1..issued
        /\ \A q \in Providers : current[c][q] # fresh[c]
    BY <1>a, <2>1 DEF TokenTypes, IsNew
  <2>7. TokenInv'
    <3>1. ASSUME NEW q \in Providers, q # provider[c]
          PROVE  current[c][q] \in 0..issued /\ current[c][q] \in usable \cup lost \cup {NoCred}
      <4>1. CASE q \in changed[c]
        <5>1. current[c][q] = NoCred \/ current[c][q] \in usable
          BY <2>1, <4>1 DEF Carries
        <5>2. current[c][q] \in 0..issued
          BY <1>a, <1>b, <5>1, TokenRange DEF NoCred
        <5> QED BY <5>1, <5>2
      <4>2. CASE q \notin changed[c]
        <5>1. current[c][q] = auth[q]
          BY <2>1, <4>2 DEF Carries
        <5>2. auth[q] \in usable \cup lost \cup {NoCred}
          BY <1>c, <2>1, <3>1
        <5> QED BY <1>b, <5>1, <5>2
      <4> QED BY <4>1, <4>2
    <3>2. fresh[c] \in 0..issued
      BY <1>a, <2>6, TokenRange
    <3>3. \A q \in Providers : auth'[q] \in 0..issued' /\ auth'[q] \in usable' \cup lost' \cup {NoCred}
      BY <2>2, <2>3, <2>6, <3>1, <3>2
    <3>4. \A q, r \in Providers : auth'[q] = auth'[r] /\ auth'[q] # NoCred => q = r
      BY <2>1, <2>3, <2>6 DEF Carries
    <3> QED BY <3>3, <3>4
  <2> QED BY <2>4, <2>5, <2>7
<1>17. ASSUME NEW c \in Calls, Release(c) PROVE Guarded'
  <2>1. /\ pc[c] \in {"releasing", "failing"} /\ lock = c
        /\ \A d \in Calls \ {c} : ~Holding(d)
    BY <1>c, <1>17 DEF Release
  <2>2. UNCHANGED <<file, auth, issued, usable, lost>>
    BY <1>17 DEF Release
  <2>3. CASE pc[c] = "failing"
    <3>1. pc' = [pc EXCEPT ![c] = "reloading"] /\ UNCHANGED <<provider, current, token, changed, fresh, compromised>>
      BY <1>17, <2>3 DEF Release, Goto
    <3> QED BY <1>a, <1>c, <1>d, <2>1, <2>2, <3>1 DEF CallTypes, Refreshing
  <2>4. CASE pc[c] = "releasing"
    <3>1. Ended({c})
      BY <1>17, <2>4 DEF Release
    <3>2. /\ pc'[c] = "idle" /\ \A d \in Calls : ~compromised'[d]
          /\ \A d \in Calls \ {c} :
               /\ pc'[d] = pc[d] /\ provider'[d] = provider[d] /\ current'[d] = current[d]
               /\ token'[d] = token[d] /\ changed'[d] = changed[d] /\ fresh'[d] = fresh[d]
      BY <1>c, <3>1 DEF Ended
    <3> QED BY <1>d, <2>1, <2>2, <2>4, <3>2 DEF Refreshing
  <2> QED BY <2>1, <2>3, <2>4
<1>18. ASSUME NEW c \in Calls, NoticeCompromised(c) PROVE Guarded'
  BY <1>c, <1>18 DEF NoticeCompromised
<1>19. ASSUME NEW p \in Processes, Kill(p) PROVE Guarded'
  <2>1. \A d \in Calls :
          /\ d \in CallsOf(p) => pc'[d] = "idle" /\ ~compromised'[d]
          /\ d \notin CallsOf(p) => /\ pc'[d] = pc[d] /\ provider'[d] = provider[d]
                                    /\ current'[d] = current[d] /\ fresh'[d] = fresh[d]
                                    /\ token'[d] = token[d] /\ changed'[d] = changed[d]
                                    /\ ~compromised'[d]
    BY <1>c, <1>19 DEF Kill, Ended
  <2>2. /\ issued' = issued /\ usable' = usable
        /\ lost' = lost \cup {token[c] : c \in {d \in CallsOf(p) : pc[d] = "refreshed"}}
    BY <1>19 DEF Kill
  <2>3. /\ \/ auth' = auth /\ file' \in {file, "torn"}
           \/ auth' = Nothing /\ file' = "json"
        /\ \/ lock' = IF lock \in CallsOf(p) THEN Orphan ELSE lock
           \/ \A d \in Calls \ CallsOf(p) : ~Holding(d)
        /\ auth' # auth => \A d \in Calls \ CallsOf(p) : ~Holding(d)
    <3>1. CASE UNCHANGED <<file, auth>> /\ lock' = IF lock \in CallsOf(p) THEN Orphan ELSE lock
      BY <3>1
    <3>2. CASE WriteCut /\ Overlaps(Calls \ CallsOf(p))
      BY <1>c, <3>2 DEF WriteCut, Overlaps
    <3>3. CASE WriteCut /\ \E c \in CallsOf(p) : lock = c
      BY <1>c, <3>3 DEF WriteCut, CallsOf
    <3> QED BY <1>19, <3>1, <3>2, <3>3 DEF Kill
  <2>4. LockInv'
    BY <1>c, <2>1, <2>3
  <2>5. ReadInv'
    <3>1. ASSUME NEW d \in Calls, Refreshing(d)' PROVE Carries(d)' /\ (pc'[d] = "refreshed" => IsNew(d)')
      <4>1. d \notin CallsOf(p) /\ Refreshing(d) /\ Holding(d) /\ auth' = auth
        BY <2>1, <2>3, <3>1 DEF Refreshing
      <4> QED BY <1>c, <2>1, <2>2, <4>1 DEF Carries, IsNew
    <3>2. file' = "missing" => auth' = Nothing
      BY <1>b, <2>3
    <3> QED BY <3>1, <3>2 DEF Refreshing
  <2>6. TokenInv'
    <3>1. CASE auth' = Nothing
      BY <1>b, <2>2, <3>1 DEF Nothing, NoCred
    <3>2. CASE auth' = auth
      <4>1. ASSUME NEW q \in Providers, auth[q] \notin usable \cup lost \cup {NoCred}
            PROVE  \/ auth[q] \in lost'
                   \/ \E c \in Calls : pc'[c] = "refreshed" /\ provider'[c] = q
        <5>1. PICK c \in Calls : pc[c] = "refreshed" /\ provider[c] = q
          BY <1>c, <4>1
        <5>2. CASE c \in CallsOf(p)
          <6>1. token[c] = auth[q]
            BY <1>c, <5>1 DEF Refreshing, Carries
          <6> QED BY <2>2, <5>1, <5>2, <6>1
        <5>3. CASE c \notin CallsOf(p)
          BY <2>1, <5>1, <5>3
        <5> QED BY <5>2, <5>3
      <4> QED BY <1>b, <2>2, <3>2, <4>1
    <3> QED BY <2>3, <3>1, <3>2
  <2> QED BY <2>4, <2>5, <2>6
<1> QED BY <1>1, <1>3, <1>4, <1>5, <1>6, <1>7, <1>8, <1>9, <1>10, <1>12, <1>13, <1>14, <1>15, <1>16, <1>17,
           <1>18, <1>19 DEF Next, CallStep
-----------------------------------------------------------------------------
(* The types and what calls ask for hold always, what guards the file as   *)
(* long as no live process lost its lock.                                  *)
THEOREM Invariance == Spec => []IInv
<1>1. IInv /\ [Next]_vars => IInv'
  <2> SUFFICES ASSUME IInv, [Next]_vars PROVE IInv'
    OBVIOUS
  <2>1. (TypeOK /\ AskInv)' /\ (raced => raced')
    BY TypeStep DEF IInv
  <2>2. CASE raced'
    BY <2>1, <2>2 DEF IInv
  <2>3. CASE ~raced'
    BY <2>1, <2>3, GuardStep DEF IInv
  <2> QED BY <2>2, <2>3
<1> QED BY InitIInv, <1>1, PTL DEF Spec

(* Calls of getApiKey in several processes find one token expired: only    *)
(* one of them sends its refresh token, unless the answer is lost or a     *)
(* lock is taken from the living (refreshOAuthTokenWithLock).              *)
THEOREM TokensUsedOnce == Spec => []RefreshTokenUsedOnce
<1>1. IInv => RefreshTokenUsedOnce
  <2> SUFFICES ASSUME IInv, NEW c \in Calls, pc[c] = "refreshing", ~raced
               PROVE  token[c] \in usable \cup lost
    BY DEF IInv, RefreshTokenUsedOnce
  <2>1. provider[c] \in Providers /\ token[c] \in 1..issued /\ token[c] = auth[provider[c]]
    BY DEF IInv, AskInv, Guarded, ReadInv, Refreshing, Carries
  <2>2. ~ \E d \in Calls : pc[d] = "refreshed" /\ provider[d] = provider[c]
    BY DEF IInv, Guarded, LockInv, Holding
  <2>3. auth[provider[c]] \in usable \cup lost \cup {NoCred}
    BY <2>1, <2>2 DEF IInv, Guarded, TokenInv
  <2>4. token[c] # NoCred
    BY <2>1 DEF NoCred, IInv, TypeOK
  <2> QED BY <2>1, <2>3, <2>4
<1> QED BY Invariance, <1>1, PTL

(* How a step changes the credentials in the file unless two are at it: not*)
(* at all, to none at all with the state of a process, in one provider by  *)
(* login or logout, or at the end of a refresh, in its provider, which had *)
(* a token, and in those its process has set or removed meanwhile.         *)
AuthStep ==
  \/ auth' = auth
  \/ auth' = Nothing /\ proc' # proc
  \/ pc' = pc /\ \E q \in Providers, cred \in Cred : auth' = [auth EXCEPT ![q] = cred]
  \/ \E c \in Calls :
       /\ Writes(c) /\ auth[provider[c]] # NoCred
       /\ OnlyChanges(changed[c] \cup {provider[c]})

LEMMA AuthSteps == ASSUME IInv, [Next]_vars, ~raced PROVE AuthStep
<1>a. FileTypes /\ TokenTypes /\ ProcTypes /\ DataTypes /\ CallTypes /\ AskInv /\ Guarded
  BY TypeParts DEF IInv
<1> USE DEF fileVars, memoryVars, callVars, tokenVars
<1>1. ASSUME NEW p \in Processes, NEW q \in Providers, NEW cred \in Cred, NEW ok \in BOOLEAN,
             SetCredential(p, q, cred, ok)
      PROVE  AuthStep
  BY <1>1 DEF SetCredential, Merged, AuthStep
<1>2. ASSUME NEW p \in Processes, NEW q \in Providers, NEW ok \in BOOLEAN,
             Login(p, q, ok) \/ Logout(p, q, ok)
      PROVE  AuthStep
  <2>1. NoCred \in Cred /\ (Login(p, q, ok) => issued + 1 \in Cred)
    BY <1>a DEF TokenTypes, Cred, NoCred, Login
  <2> QED BY <1>1, <1>2, <2>1 DEF Login, Logout
<1>3. ASSUME NEW p \in Processes, CreateFile(p) PROVE AuthStep
  <2>1. proc'[p] = "up" /\ proc[p] = "creating" /\ auth' = Nothing
    BY <1>a, <1>3 DEF CreateFile, ProcTypes
  <2> QED BY <2>1 DEF AuthStep
<1>4. ASSUME NEW p \in Processes, Kill(p) PROVE AuthStep
  <2>1. proc'[p] = "down" /\ proc[p] # "down" /\ auth' \in {auth, Nothing}
    BY <1>a, <1>4 DEF Kill, WriteCut, ProcTypes
  <2> QED BY <2>1 DEF AuthStep
<1>5. ASSUME NEW c \in Calls, FinishRefresh(c) PROVE AuthStep
  <2>1. /\ pc[c] = "refreshed" /\ provider[c] \in Providers /\ token[c] \in 1..issued
        /\ Carries(c) /\ ~compromised[c]
    BY <1>a, <1>5 DEF FinishRefresh, AskInv, Guarded, ReadInv, LockInv, Refreshing
  <2>2. auth[provider[c]] # NoCred
    BY <1>a, <2>1 DEF Carries, TokenTypes, NoCred
  <2>3. pc'[c] = "releasing" /\ auth' = [current[c] EXCEPT ![provider[c]] = fresh[c]]
    BY <1>a, <1>5, <2>1 DEF FinishRefresh, Refreshed, Goto, CallTypes
  <2>4. \A r \in Providers \ (changed[c] \cup {provider[c]}) : auth'[r] = auth[r]
    BY <1>a, <2>1, <2>3 DEF Carries, CallTypes
  <2> QED BY <2>1, <2>2, <2>3, <2>4 DEF AuthStep, Writes, OnlyChanges
<1>6. ASSUME NEW p \in Processes, NEW ok \in BOOLEAN, Start(p, ok) \/ StartMissing(p) PROVE AuthStep
  BY <1>6 DEF Start, StartMissing, AuthStep
<1>7. ASSUME NEW c \in Calls, NEW ok \in BOOLEAN, LockFails(c, ok) \/ ReloadAfterFailure(c, ok)
      PROVE  AuthStep
  BY <1>7 DEF LockFails, ReloadAfterFailure, AuthStep
<1>8. ASSUME NEW c \in Calls,
             \/ Locked(c) \/ ProviderRefreshes(c) \/ ProviderFails(c) \/ Release(c)
             \/ NoticeCompromised(c) \/ \E q \in Providers : GetApiKey(c, q)
      PROVE  AuthStep
  BY <1>8 DEF Locked, ProviderRefreshes, ProviderFails, Release, NoticeCompromised, GetApiKey, AuthStep
<1>9. CASE UNCHANGED vars \/ \E t \in 1..issued : Expire(t)
  BY <1>9 DEF vars, Expire, AuthStep
<1> QED BY <1>2, <1>3, <1>4, <1>5, <1>6, <1>7, <1>8, <1>9 DEF Next, CallStep

(* What a logout took out of the file comes back by a login, or in a       *)
(* refresh that carries the login of its own process, never by the end of a*)
(* refresh that had read it (refreshOAuthTokenWithLock).                   *)
THEOREM LogoutsStay == Spec => LogoutStays
<1>1. IInv /\ [Next]_vars =>
        \A q \in Providers : (auth[q] = NoCred /\ auth'[q] # NoCred /\ ~raced) =>
          pc' = pc \/ \E c \in Calls : Writes(c) /\ q \in changed[c]
  <2> SUFFICES ASSUME IInv, [Next]_vars, NEW q \in Providers, auth[q] = NoCred, auth'[q] # NoCred,
                      ~raced, pc' # pc
               PROVE  \E c \in Calls : Writes(c) /\ q \in changed[c]
    OBVIOUS
  <2>1. auth' # auth /\ auth' # Nothing
    BY DEF Nothing
  <2>2. PICK c \in Calls :
          /\ Writes(c) /\ auth[provider[c]] # NoCred
          /\ OnlyChanges(changed[c] \cup {provider[c]})
    BY <2>1, AuthSteps DEF AuthStep
  <2> QED BY <2>2 DEF OnlyChanges
<1> QED BY Invariance, <1>1, PTL DEF LogoutStays, Spec

(* A change leaves the credentials its process did not change, whatever it *)
(* has in memory.                                                          *)
THEOREM OthersStay == Spec => OthersUntouched
<1>1. IInv /\ [Next]_vars => (auth' # auth /\ ~raced /\ proc' = proc => OwnChange)
  <2> SUFFICES ASSUME IInv, [Next]_vars, auth' # auth, ~raced, proc' = proc PROVE OwnChange
    OBVIOUS
  <2>1. AuthStep
    BY AuthSteps
  <2>2. ASSUME NEW q \in Providers, NEW cred \in Cred, auth' = [auth EXCEPT ![q] = cred]
        PROVE  OnlyChanges({q})
    BY <2>2 DEF IInv, TypeOK, OnlyChanges
  <2> QED BY <2>1, <2>2 DEF AuthStep, OwnChange
<1> QED BY Invariance, <1>1, PTL DEF OthersUntouched, Spec
=============================================================================
