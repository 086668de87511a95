------------------------- MODULE WebSessionsProofs -------------------------
(***************************************************************************)
(* Proofs about WebSessions for every number of requests, every set of ids *)
(* and every size of the store.                                            *)
(*                                                                         *)
(* What the store holds follows from what finalization saves, so the       *)
(* invariant says of every request what its session may hold before it is  *)
(* finalized: the committed payload, and the live one while the session is *)
(* active, were written under the session's id (Clean); and an id is the   *)
(* one the request came with unless newly_created is set (Announced).      *)
(* Two theorems at the end need more: who changes the store, and that a    *)
(* generated id has one user until it is announced.                        *)
(***************************************************************************)
EXTENDS WebSessions, RecencyLists

\* The payloads a session may activate with or save belong to its id.
Clean(s) ==
  /\ s.committed \in {Empty, s.id}
  /\ s.active => s.id # NoId /\ s.data \in {Empty, s.id}

\* An id the request did not come with is announced when it is saved.
Announced(r) == sess[r].id \in {NoId, incoming[r]} \/ sess[r].newly

\* Cookies are read when a request starts and sent when it is done.
CookieTimes ==
  \A r \in Requests : /\ phase[r] = "new" => incoming[r] = NoId
                      /\ phase[r] \in {"new", "php", "failed"} => cookie[r] = NoId

SessionInv ==
  /\ TypeOK
  /\ \A r \in Requests : /\ Clean(sess[r])
                         /\ Announced(r)
                         /\ sess[r].destroyed => sess[r].destroyedId # NoId
  /\ CookieTimes
  /\ StoreIsBounded
  /\ SessionsDoNotMix
  /\ StoredIsReachable

\* The names that stand for no id and no payload differ from all ids.
LEMMA Names ==
  /\ NoId \notin Ids /\ Empty \notin Ids /\ Stray \notin Ids /\ Absent \notin Ids
  /\ Empty # NoId /\ Stray # NoId /\ Absent # NoId
  /\ Absent # Empty /\ Absent # Stray /\ Empty # Stray
BY SessionConstants DEF Ids, NoId, Empty, Stray, Absent

\* Initially nothing is stored and no request has begun.
LEMMA SessionInit == Init => SessionInv
<1> SUFFICES ASSUME Init PROVE SessionInv
  OBVIOUS
<1>1. Seeded(NoId) \in SessionState
  BY DEF Seeded, SessionState, Payloads
<1>2. TypeOK
  BY <1>1, EmptySeq DEF Init, TypeOK, Phases
<1>3. ASSUME NEW r \in Requests
      PROVE  Clean(sess[r]) /\ Announced(r) /\ (sess[r].destroyed => sess[r].destroyedId # NoId)
  BY DEF Init, Clean, Announced, Seeded
<1>4. CookieTimes /\ SessionsDoNotMix /\ StoredIsReachable
  BY DEF Init, CookieTimes, SessionsDoNotMix, StoredIsReachable
<1>5. StoreIsBounded
  BY SessionConstants DEF Init, StoreIsBounded, ToSet
<1> QED
  BY <1>2, <1>3, <1>4, <1>5 DEF SessionInv

\* A load keeps the order.
LEMMA TouchOrder ==
  ASSUME TypeOK, StoreIsBounded, NEW id \in Ids, Touch(id), UNCHANGED store
  PROVE  order' \in Seq(Ids) /\ StoreIsBounded'
<1>1. CASE store[id] = Absent
  BY <1>1 DEF Touch, TypeOK, StoreIsBounded
<1>2. CASE store[id] # Absent
  <2>1. Distinct(order) /\ id \in ToSet(order) /\ order \in Seq(Ids)
    BY <1>2 DEF StoreIsBounded, Distinct, TypeOK
  <2>2. /\ order' \in Seq(Ids) /\ Len(order') = Len(order)
        /\ Distinct(order') /\ ToSet(order') = ToSet(order)
    BY <1>2, <2>1, TouchListed DEF Touch
  <2> QED
    BY <2>2 DEF StoreIsBounded, Distinct
<1> QED
  BY <1>1, <1>2

\* A deletion takes the entry out of the order.
LEMMA DeleteOrder ==
  ASSUME TypeOK, StoreIsBounded, NEW id \in Ids, Delete(id)
  PROVE  order' \in Seq(Ids) /\ StoreIsBounded'
<1>0. order \in Seq(Ids) /\ Distinct(order) /\ Len(order) \in Nat /\ MaxEntries \in Nat
      /\ Len(order) <= MaxEntries
  BY SessionConstants, LenProperties DEF StoreIsBounded, Distinct, TypeOK
<1>1. {i \in Ids : store'[i] # Absent} = {i \in Ids : store[i] # Absent} \ {id}
  BY DEF Delete, TypeOK
<1>2. CASE store[id] = Absent
  <2>1. id \notin ToSet(order)
    BY <1>2 DEF StoreIsBounded
  <2>2. order' = order
    BY <1>0, <2>1, DropUnlisted DEF Delete
  <2> QED
    BY <1>0, <1>1, <1>2, <2>2 DEF StoreIsBounded
<1>3. CASE store[id] # Absent
  <2>1. id \in ToSet(order)
    BY <1>3 DEF StoreIsBounded
  <2>2. /\ order' \in Seq(Ids) /\ Len(order') = Len(order) - 1
        /\ Distinct(order') /\ ToSet(order') = ToSet(order) \ {id}
    BY <1>0, <2>1, DropListed DEF Delete
  <2>3. Len(order') <= MaxEntries
    BY <1>0, <2>2
  <2> QED
    BY <1>1, <2>2, <2>3 DEF StoreIsBounded, Distinct
<1> QED
  BY <1>2, <1>3

\* A save moves the entry to the back; a new one at the limit evicts the
\* front first.
LEMMA SaveOrder ==
  ASSUME TypeOK, StoreIsBounded, NEW id \in Ids, NEW p \in Payloads, Save(id, p)
  PROVE  order' \in Seq(Ids) /\ StoreIsBounded'
<1>0. order \in Seq(Ids) /\ Distinct(order) /\ Len(order) \in Nat /\ MaxEntries \in Nat \ {0}
      /\ Len(order) <= MaxEntries
  BY SessionConstants, LenProperties DEF StoreIsBounded, Distinct, TypeOK
<1>1. p # Absent
  BY Names DEF Payloads
<1>2. CASE store[id] = Absent /\ Len(order) >= MaxEntries
  <2> DEFINE t == Tail(order)
  <2>1. order # <<>> /\ id \notin ToSet(order)
    BY <1>0, <1>2, EmptySeq DEF StoreIsBounded
  <2>2. /\ t \in Seq(Ids) /\ Len(t) = Len(order) - 1 /\ Distinct(t)
        /\ Head(order) \in ToSet(order) /\ ToSet(t) = ToSet(order) \ {Head(order)}
    BY <1>0, <2>1, EvictFront
  <2> HIDE DEF t
  <2>3. /\ order' \in Seq(Ids) /\ Len(order') = Len(t) + 1 /\ Distinct(order')
        /\ ToSet(order') = ToSet(t) \cup {id}
    <3>1. order' = Append(t, id) /\ id \notin ToSet(t)
      BY <1>2, <2>1, <2>2 DEF Save, t
    <3> QED
      BY <2>2, <3>1, AppendUnlisted
  <2>4. Head(order) \in Ids /\ store[Head(order)] # Absent
    BY <2>2 DEF StoreIsBounded
  <2>5. store' = [store EXCEPT ![Head(order)] = Absent, ![id] = p]
    BY <1>2 DEF Save
  <2>6. {i \in Ids : store'[i] # Absent} =
          ({i \in Ids : store[i] # Absent} \ {Head(order)}) \cup {id}
    BY <1>1, <1>2, <2>4, <2>5 DEF TypeOK
  <2>7. Len(order') <= MaxEntries
    BY <1>0, <2>2, <2>3
  <2> QED
    BY <2>2, <2>3, <2>6, <2>7 DEF StoreIsBounded, Distinct
<1>3. CASE ~(store[id] = Absent /\ Len(order) >= MaxEntries)
  <2>1. /\ store' = [store EXCEPT ![id] = p]
        /\ order' = Append(RemoveFirst(order, id), id)
    BY <1>3 DEF Save
  <2>2. {i \in Ids : store'[i] # Absent} = {i \in Ids : store[i] # Absent} \cup {id}
    BY <1>1, <2>1 DEF TypeOK
  <2>3. CASE store[id] = Absent
    <3>1. id \notin ToSet(order) /\ Len(order) + 1 <= MaxEntries
      BY <1>0, <1>3, <2>3 DEF StoreIsBounded
    <3>2. /\ order' \in Seq(Ids) /\ Len(order') = Len(order) + 1 /\ Distinct(order')
          /\ ToSet(order') = ToSet(order) \cup {id}
      BY <1>0, <2>1, <3>1, TouchUnlisted
    <3> QED
      BY <2>2, <3>1, <3>2 DEF StoreIsBounded, Distinct
  <2>4. CASE store[id] # Absent
    <3>1. id \in ToSet(order)
      BY <2>4 DEF StoreIsBounded
    <3>2. /\ order' \in Seq(Ids) /\ Len(order') = Len(order) /\ Distinct(order')
          /\ ToSet(order') = ToSet(order)
      BY <1>0, <2>1, <3>1, TouchListed
    <3> QED
      BY <1>0, <2>2, <2>4, <3>2 DEF StoreIsBounded, Distinct
  <2> QED
    BY <2>3, <2>4
<1> QED
  BY <1>2, <1>3

\* A step of the script replaces the session of one request by a session of
\* the same kind and leaves the store's payloads alone; it may end the script.
LEMMA ScriptKeeps ==
  ASSUME SessionInv, NEW r \in Requests, NEW s \in SessionState,
         sess' = [sess EXCEPT ![r] = s], Clean(s),
         s.id \in {NoId, incoming[r]} \/ s.newly,
         s.destroyed => s.destroyedId # NoId,
         order' \in Seq(Ids), StoreIsBounded', issued' \subseteq FreshIds,
         phase' = phase \/ (phase[r] = "php" /\ phase' = [phase EXCEPT ![r] = "failed"]),
         UNCHANGED <<store, incoming, cookie>>
  PROVE  SessionInv'
<1>0. /\ phase' \in [Requests -> Phases]
      /\ \A q \in Requests : phase'[q] = phase[q] \/ (phase[q] = "php" /\ phase'[q] = "failed")
  <2>1. phase \in [Requests -> Phases] /\ "failed" \in Phases
    BY DEF SessionInv, TypeOK, Phases
  <2>2. CASE phase' = phase
    BY <2>1, <2>2
  <2>3. CASE phase[r] = "php" /\ phase' = [phase EXCEPT ![r] = "failed"]
    BY <2>1, <2>3
  <2> QED
    BY <2>2, <2>3
<1>1. TypeOK'
  <2>1. sess' \in [Requests -> SessionState]
    BY DEF SessionInv, TypeOK
  <2>2. /\ store' \in [Ids -> Payloads \cup {Absent}]
        /\ incoming' \in [Requests -> Ids \cup {NoId}]
        /\ cookie' \in [Requests -> Ids \cup {NoId}]
    BY DEF SessionInv, TypeOK
  <2> QED
    BY <1>0, <2>1, <2>2, Zenon DEF TypeOK
<1>2. ASSUME NEW q \in Requests
      PROVE  Clean(sess'[q]) /\ Announced(q)' /\ (sess'[q].destroyed => sess'[q].destroyedId # NoId)
  <2>1. CASE q = r
    <3>1. sess'[q] = s
      BY <2>1 DEF SessionInv, TypeOK
    <3> QED
      BY <2>1, <3>1 DEF Announced
  <2>2. CASE q # r
    <3>1. sess'[q] = sess[q]
      BY <2>2 DEF SessionInv, TypeOK
    <3> QED
      BY <3>1 DEF SessionInv, Announced
  <2> QED
    BY <2>1, <2>2
<1>3. CookieTimes' /\ SessionsDoNotMix' /\ StoredIsReachable'
  BY <1>0 DEF SessionInv, CookieTimes, SessionsDoNotMix, StoredIsReachable
<1> QED
  BY <1>1, <1>2, <1>3 DEF SessionInv, Clean

\* A step that only moves a script to another phase keeps the invariant.
LEMMA PhaseKeeps ==
  ASSUME SessionInv, NEW r \in Requests, NEW p \in {"failed", "done", "lost"},
         phase[r] \in {"php", "failed"},
         phase' = [phase EXCEPT ![r] = p],
         UNCHANGED <<sess, store, order, issued, incoming, cookie>>
  PROVE  SessionInv'
<1>1. TypeOK'
  BY DEF SessionInv, TypeOK, Phases
<1>2. CookieTimes'
  BY DEF SessionInv, CookieTimes, TypeOK
<1>3. StoreIsBounded' /\ SessionsDoNotMix' /\ StoredIsReachable'
  BY DEF SessionInv, StoreIsBounded, SessionsDoNotMix, StoredIsReachable
<1>4. \A q \in Requests : Clean(sess'[q]) /\ Announced(q)'
                          /\ (sess'[q].destroyed => sess'[q].destroyedId # NoId)
  BY DEF SessionInv, Announced
<1> QED
  BY <1>1, <1>2, <1>3, <1>4 DEF SessionInv, Clean

\* seed_session_state: the request's session holds nothing yet.
LEMMA SeedStep ==
  ASSUME SessionInv, NEW r \in Requests, NEW id \in Ids \cup {NoId}, Seed(r, id)
  PROVE  SessionInv'
<1>1. Seeded(id) \in SessionState
  BY DEF Seeded, SessionState, Payloads
<1>2. TypeOK'
  BY <1>1 DEF SessionInv, TypeOK, Seed, Phases
<1>3. ASSUME NEW q \in Requests
      PROVE  Clean(sess'[q]) /\ Announced(q)' /\ (sess'[q].destroyed => sess'[q].destroyedId # NoId)
  <2>1. CASE q = r
    <3>1. sess'[q] = Seeded(id) /\ incoming'[q] = id
      BY <2>1 DEF SessionInv, TypeOK, Seed
    <3> QED
      BY <3>1 DEF Seeded, Clean, Announced
  <2>2. CASE q # r
    <3>1. sess'[q] = sess[q] /\ incoming'[q] = incoming[q]
      BY <2>2 DEF SessionInv, TypeOK, Seed
    <3> QED
      BY <3>1 DEF SessionInv, Announced
  <2> QED
    BY <2>1, <2>2
<1>4. CookieTimes'
  BY DEF SessionInv, TypeOK, Seed, CookieTimes
<1>5. StoreIsBounded' /\ SessionsDoNotMix'
  BY DEF SessionInv, Seed, StoreIsBounded, SessionsDoNotMix
<1>6. StoredIsReachable'
  <2> SUFFICES ASSUME NEW i \in Ids, store[i] # Absent
               PROVE  \E q \in Requests : i \in {incoming'[q], cookie'[q]}
    BY DEF StoredIsReachable, Seed
  <2>1. PICK q \in Requests : i \in {incoming[q], cookie[q]}
    BY DEF SessionInv, StoredIsReachable
  <2>2. q # r
    BY <2>1, Names DEF SessionInv, CookieTimes, Seed
  <2> QED
    BY <2>1, <2>2 DEF Seed, SessionInv, TypeOK
<1> QED
  BY <1>2, <1>3, <1>4, <1>5, <1>6 DEF SessionInv, Clean

\* session_start: the session activates with the committed payload of its id
\* or with nothing.
LEMMA StartStep ==
  ASSUME SessionInv, NEW r \in Requests, NEW new \in FreshIds \cup {NoId}, SessionStart(r, new)
  PROVE  SessionInv'
<1> DEFINE old == sess[r]
           s == Activate(old, new)
           p == StartPayload(old, new)
           nid == IF new # NoId THEN new ELSE old.id
<1>1. old \in SessionState /\ Clean(old) /\ Announced(r)
  BY DEF SessionInv, TypeOK
<1>2. nid \in Ids /\ nid # NoId
  BY <1>1, Names DEF SessionStart, SessionState, Ids
<1>3. p \in {Empty, nid}
  <2>1. CASE new # NoId
    BY <2>1 DEF StartPayload
  <2>2. CASE new = NoId /\ NeedsLazyLoad(old)
    <3>1. AfterLoad(old).committed = Stored(old.id)
      BY <1>1, <2>2 DEF AfterLoad, SessionState
    <3>2. Stored(old.id) \in {Empty, old.id}
      BY <1>2, <2>2 DEF SessionInv, SessionsDoNotMix, Stored
    <3> QED
      BY <2>2, <3>1, <3>2 DEF StartPayload
  <2>3. CASE new = NoId /\ ~NeedsLazyLoad(old)
    BY <1>1, <2>3 DEF StartPayload, AfterLoad, Clean
  <2> QED
    BY <2>1, <2>2, <2>3
<1>4. /\ s \in SessionState /\ s.id = nid /\ s.data = p /\ s.committed = p /\ ~s.destroyed
      /\ s.newly = (old.newly \/ new # NoId)
  <2>1. p \in Payloads /\ NewlyCreated(old, new) \in BOOLEAN
    BY <1>1, <1>2, <1>3 DEF Payloads, NewlyCreated, SessionState
  <2>2. s = [old EXCEPT !.data = p, !.committed = p, !.id = nid,
                        !.newly = NewlyCreated(old, new), !.loaded = TRUE,
                        !.active = TRUE, !.started = TRUE, !.destroyed = FALSE,
                        !.destroyedId = NoId, !.closed = FALSE]
    BY DEF Activate
  <2> HIDE DEF s, p, nid, old
  <2> QED
    BY <1>1, <1>2, <2>1, <2>2, Zenon DEF SessionState, NewlyCreated
<1>5. Clean(s) /\ (s.id \in {NoId, incoming[r]} \/ s.newly)
  <2> HIDE DEF s, p
  <2> QED
    BY <1>1, <1>2, <1>3, <1>4, Zenon DEF Clean, Announced
<1>6. order' \in Seq(Ids) /\ StoreIsBounded'
  <2>1. CASE NeedsLazyLoad(old)
    <3>1. old.id \in Ids
      BY <1>1, <2>1 DEF NeedsLazyLoad, SessionState
    <3> QED
      BY <2>1, <3>1, TouchOrder DEF SessionStart, SessionInv
  <2>2. CASE ~NeedsLazyLoad(old)
    BY <2>2 DEF SessionStart, SessionInv, TypeOK, StoreIsBounded
  <2> QED
    BY <2>1, <2>2
<1>7. issued' \subseteq FreshIds
  BY DEF SessionStart, SessionInv, TypeOK
<1>8. sess' = [sess EXCEPT ![r] = s] /\ UNCHANGED <<phase, store, incoming, cookie>>
  BY DEF SessionStart
<1> HIDE DEF s
<1> QED
  BY <1>4, <1>5, <1>6, <1>7, <1>8, ScriptKeeps, Zenon

\* A lazy load changes the payload of a session and nothing else.
LEMMA LoadKeeps ==
  ASSUME NEW s \in SessionState, NEW t \in {s, AfterLoad(s)}
  PROVE  /\ t.id = s.id /\ t.newly = s.newly /\ t.active = s.active /\ t.started = s.started
         /\ t.destroyed = s.destroyed /\ t.destroyedId = s.destroyedId
<1>1. CASE t = s
  BY <1>1
<1>2. CASE t # s
  <2>1. t = [s EXCEPT !.data = Stored(s.id), !.committed = Stored(s.id), !.loaded = TRUE]
    BY <1>2 DEF AfterLoad
  <2> QED
    BY <2>1, Zenon DEF SessionState
<1> QED
  BY <1>1, <1>2

\* A session_start() that fails keeps the session or leaves it loaded.
LEMMA StartFailsStep ==
  ASSUME SessionInv, NEW r \in Requests, StartFails(r)
  PROVE  SessionInv'
<1> DEFINE old == sess[r]
<1>1. /\ old \in SessionState /\ Clean(old) /\ Announced(r) /\ ~old.active
      /\ old.destroyed => old.destroyedId # NoId
  BY DEF SessionInv, TypeOK, StartFails
<1>2. /\ UNCHANGED <<store, incoming, cookie>> /\ issued' \subseteq FreshIds
      /\ phase[r] = "php" /\ phase' = [phase EXCEPT ![r] = "failed"]
  BY DEF StartFails, Running, SessionInv, TypeOK
<1>3. order' \in Seq(Ids) /\ StoreIsBounded'
  <2>1. CASE NeedsLazyLoad(old)
    <3>1. old.id \in Ids
      BY <1>1, <2>1 DEF NeedsLazyLoad, SessionState
    <3> QED
      BY <2>1, <3>1, TouchOrder DEF StartFails, SessionInv
  <2>2. CASE ~NeedsLazyLoad(old)
    BY <2>2 DEF StartFails, SessionInv, TypeOK, StoreIsBounded
  <2> QED
    BY <2>1, <2>2
<1>4. PICK s \in {old, AfterLoad(old)} : sess' = [sess EXCEPT ![r] = s]
  BY DEF StartFails, SessionInv, TypeOK
<1>5. /\ s \in SessionState /\ Clean(s) /\ s.id = old.id /\ s.newly = old.newly
      /\ s.destroyed => s.destroyedId # NoId
  <2>1. CASE s = old
    BY <1>1, <2>1
  <2>2. CASE s # old
    <3>1. NeedsLazyLoad(old) /\ s = [old EXCEPT !.data = Stored(old.id),
                                                !.committed = Stored(old.id), !.loaded = TRUE]
      BY <1>4, <2>2 DEF AfterLoad
    <3>2. Stored(old.id) \in {Empty, old.id} /\ old.id \in Ids
      BY <1>1, <3>1 DEF NeedsLazyLoad, SessionState, SessionInv, SessionsDoNotMix, Stored
    <3>3. Stored(old.id) \in Payloads
      BY <3>2 DEF Payloads
    <3>4. s \in SessionState /\ s.committed = Stored(old.id)
      <4> HIDE DEF old
      <4> QED
        BY <1>1, <3>1, <3>3, Zenon DEF SessionState
    <3>5. s.id = old.id /\ s.newly = old.newly /\ s.active = old.active
          /\ s.destroyed = old.destroyed /\ s.destroyedId = old.destroyedId
      BY <1>1, <1>4, LoadKeeps, Zenon
    <3> HIDE DEF old
    <3> QED
      BY <1>1, <3>2, <3>4, <3>5, Zenon DEF Clean
  <2> QED
    BY <2>1, <2>2
<1> QED
  BY <1>1, <1>2, <1>3, <1>4, <1>5, ScriptKeeps, Zenon DEF Announced

\* The other calls of a running script replace its session, and only that.
LEMMA ScriptStep ==
  ASSUME SessionInv, NEW r \in Requests,
         \/ WriteData(r) \/ SessionDestroy(r) \/ WriteClose(r)
         \/ SessionAbort(r) \/ SessionReset(r) \/ SessionUnset(r)
  PROVE  SessionInv'
<1> DEFINE old == sess[r]
<1>1. /\ old \in SessionState /\ Clean(old) /\ Announced(r)
      /\ old.destroyed => old.destroyedId # NoId
  BY DEF SessionInv, TypeOK
<1>2. UNCHANGED <<store, order, issued>> =>
        order' \in Seq(Ids) /\ StoreIsBounded' /\ issued' \subseteq FreshIds
  BY DEF SessionInv, TypeOK, StoreIsBounded
<1>3. CASE WriteData(r)
  <2> DEFINE s == [old EXCEPT !.data = IF old.active THEN old.id ELSE Stray]
  <2>1. s \in SessionState /\ Clean(s) /\ s.newly = old.newly /\ s.id \in {NoId, old.id}
        /\ (s.destroyed => s.destroyedId # NoId)
    BY <1>1, <1>3, Names DEF WriteData, SessionState, Payloads, Clean
  <2>2. sess' = [sess EXCEPT ![r] = s] /\ UNCHANGED <<phase, store, order, issued, incoming, cookie>>
    BY <1>1, <1>3 DEF WriteData, SessionInv, TypeOK, SessionState
  <2> HIDE DEF s
  <2> QED
    BY <1>1, <1>2, <2>1, <2>2, ScriptKeeps, Zenon DEF Announced
<1>4. CASE SessionDestroy(r)
  <2> DEFINE s == [old EXCEPT !.destroyedId = old.id, !.active = FALSE,
                         !.id = NoId, !.data = Empty, !.committed = Empty, !.loaded = TRUE,
                         !.destroyed = TRUE]
  <2>1. s \in SessionState /\ Clean(s) /\ s.newly = old.newly /\ s.id \in {NoId, old.id}
        /\ (s.destroyed => s.destroyedId # NoId)
    BY <1>1, <1>4, Names, Zenon DEF SessionDestroy, SessionState, Payloads, Clean
  <2>2. sess' = [sess EXCEPT ![r] = s] /\ UNCHANGED <<phase, store, order, issued, incoming, cookie>>
    BY <1>1, <1>4 DEF SessionDestroy, SessionInv, TypeOK, SessionState
  <2> HIDE DEF s
  <2> QED
    BY <1>1, <1>2, <2>1, <2>2, ScriptKeeps, Zenon DEF Announced
<1>5. CASE WriteClose(r)
  <2> DEFINE s == [old EXCEPT !.committed = old.data, !.active = FALSE, !.closed = TRUE]
  <2>1. s \in SessionState /\ Clean(s) /\ s.newly = old.newly /\ s.id \in {NoId, old.id}
        /\ (s.destroyed => s.destroyedId # NoId)
    BY <1>1, <1>5, Names, Zenon DEF WriteClose, SessionState, Payloads, Clean
  <2>2. sess' = [sess EXCEPT ![r] = s] /\ UNCHANGED <<phase, store, order, issued, incoming, cookie>>
    BY <1>1, <1>5 DEF WriteClose, SessionInv, TypeOK, SessionState
  <2> HIDE DEF s
  <2> QED
    BY <1>1, <1>2, <2>1, <2>2, ScriptKeeps, Zenon DEF Announced
<1>6. CASE SessionAbort(r)
  <2> DEFINE s == [old EXCEPT !.data = old.committed, !.active = FALSE]
  <2>1. s \in SessionState /\ Clean(s) /\ s.newly = old.newly /\ s.id \in {NoId, old.id}
        /\ (s.destroyed => s.destroyedId # NoId)
    BY <1>1, <1>6, Names, Zenon DEF SessionAbort, SessionState, Payloads, Clean
  <2>2. sess' = [sess EXCEPT ![r] = s] /\ UNCHANGED <<phase, store, order, issued, incoming, cookie>>
    BY <1>1, <1>6 DEF SessionAbort, SessionInv, TypeOK, SessionState
  <2> HIDE DEF s
  <2> QED
    BY <1>1, <1>2, <2>1, <2>2, ScriptKeeps, Zenon DEF Announced
<1>7. CASE SessionReset(r)
  <2> DEFINE s == [old EXCEPT !.data = old.committed]
  <2>1. s \in SessionState /\ Clean(s) /\ s.newly = old.newly /\ s.id \in {NoId, old.id}
        /\ (s.destroyed => s.destroyedId # NoId)
    BY <1>1, <1>7, Names DEF SessionReset, SessionState, Payloads, Clean
  <2>2. sess' = [sess EXCEPT ![r] = s] /\ UNCHANGED <<phase, store, order, issued, incoming, cookie>>
    BY <1>1, <1>7 DEF SessionReset, SessionInv, TypeOK, SessionState
  <2> HIDE DEF s
  <2> QED
    BY <1>1, <1>2, <2>1, <2>2, ScriptKeeps, Zenon DEF Announced
<1>8. CASE SessionUnset(r)
  <2> DEFINE s == [old EXCEPT !.data = Empty]
  <2>1. s \in SessionState /\ Clean(s) /\ s.newly = old.newly /\ s.id \in {NoId, old.id}
        /\ (s.destroyed => s.destroyedId # NoId)
    BY <1>1, <1>8, Names DEF SessionUnset, SessionState, Payloads, Clean
  <2>2. sess' = [sess EXCEPT ![r] = s] /\ UNCHANGED <<phase, store, order, issued, incoming, cookie>>
    BY <1>1, <1>8 DEF SessionUnset, SessionInv, TypeOK, SessionState
  <2> HIDE DEF s
  <2> QED
    BY <1>1, <1>2, <2>1, <2>2, ScriptKeeps, Zenon DEF Announced
<1> QED
  BY <1>3, <1>4, <1>5, <1>6, <1>7, <1>8

\* finalize_session_state: what is saved belongs to the id it is saved under,
\* and the id is known to the client or sent with the answer.
LEMMA FinalizeStep ==
  ASSUME SessionInv, NEW r \in Requests, Finalize(r)
  PROVE  SessionInv'
<1>0. /\ sess[r] \in SessionState /\ Clean(sess[r]) /\ Announced(r)
      /\ sess[r].destroyed => sess[r].destroyedId # NoId
      /\ sess' = sess /\ phase[r] \in {"php", "failed"} /\ cookie[r] = NoId
      /\ phase' = [phase EXCEPT ![r] = "done"] /\ UNCHANGED <<issued, incoming>>
  BY DEF SessionInv, TypeOK, CookieTimes, ScriptOver, Finalize,
         FinalizeDestroyed, FinalizeActive, FinalizeFails, FinalizeInactive
<1>1. CASE FinalizeFails(r) \/ FinalizeInactive(r)
  BY <1>0, <1>1, PhaseKeeps, Zenon DEF FinalizeFails, FinalizeInactive
<1>2. ASSUME NEW id \in Ids, Delete(id), cookie' = cookie
      PROVE  SessionInv'
  <2>1. order' \in Seq(Ids) /\ StoreIsBounded'
    BY <1>2, DeleteOrder DEF SessionInv
  <2>2. \A i \in Ids : store'[i] \in {Absent, store[i]}
    BY <1>2 DEF Delete, SessionInv, TypeOK
  <2>3. TypeOK'
    BY <1>0, <1>2, <2>1 DEF SessionInv, TypeOK, Phases, Delete
  <2>4. CookieTimes'
    BY <1>0, <1>2 DEF SessionInv, TypeOK, CookieTimes
  <2>5. SessionsDoNotMix' /\ StoredIsReachable'
    BY <1>0, <1>2, <2>2 DEF SessionInv, SessionsDoNotMix, StoredIsReachable
  <2>6. \A q \in Requests : Clean(sess'[q]) /\ Announced(q)'
                            /\ (sess'[q].destroyed => sess'[q].destroyedId # NoId)
    BY <1>0 DEF SessionInv, Announced
  <2> QED
    BY <2>1, <2>3, <2>4, <2>5, <2>6 DEF SessionInv, Clean
<1>3. CASE FinalizeDestroyed(r)
  <2>1. sess[r].destroyedId \in Ids
    BY <1>0, <1>3 DEF FinalizeDestroyed, SessionState
  <2> QED
    BY <1>2, <1>3, <2>1 DEF FinalizeDestroyed
<1>4. CASE FinalizeActive(r)
  <2> DEFINE id == sess[r].id
             p == sess[r].data
  <2>1. id \in Ids /\ p \in Payloads /\ p \in {Empty, id} /\ Save(id, p)
    BY <1>0, <1>4 DEF FinalizeActive, MustSave, Clean, SessionState
  <2>2. cookie' = [cookie EXCEPT ![r] = IF sess[r].newly THEN id ELSE NoId]
    BY <1>4 DEF FinalizeActive
  <2>3. id \in {incoming'[r], cookie'[r]}
    BY <1>0, <2>1, <2>2, Names DEF Announced, SessionInv, TypeOK
  <2> HIDE DEF id, p
  <2>4. order' \in Seq(Ids) /\ StoreIsBounded'
    BY <2>1, SaveOrder DEF SessionInv
  <2>5. /\ store'[id] = p
        /\ \A i \in Ids \ {id} : store'[i] \in {Absent, store[i]}
        /\ store' \in [Ids -> Payloads \cup {Absent}]
    BY <2>1 DEF Save, SessionInv, TypeOK
  <2>6. cookie' \in [Requests -> Ids \cup {NoId}] /\ \A q \in Requests \ {r} : cookie'[q] = cookie[q]
    BY <2>1, <2>2 DEF SessionInv, TypeOK
  <2>7. TypeOK'
    BY <1>0, <2>4, <2>5, <2>6, Zenon DEF SessionInv, TypeOK, Phases
  <2>8. CookieTimes'
    BY <1>0, <2>6 DEF SessionInv, TypeOK, CookieTimes
  <2>9. SessionsDoNotMix'
    BY <2>1, <2>5 DEF SessionInv, SessionsDoNotMix
  <2>10. StoredIsReachable'
    <3> SUFFICES ASSUME NEW i \in Ids, store'[i] # Absent
                 PROVE  \E q \in Requests : i \in {incoming'[q], cookie'[q]}
      BY DEF StoredIsReachable
    <3>1. CASE i = id
      BY <2>3, <3>1
    <3>2. CASE i # id
      <4>1. PICK q \in Requests : i \in {incoming[q], cookie[q]}
        BY <2>5, <3>2 DEF SessionInv, StoredIsReachable
      <4>2. i \in {incoming'[q], cookie'[q]}
        BY <1>0, <2>6, <4>1, Names
      <4> QED
        BY <4>2
    <3> QED
      BY <3>1, <3>2
  <2>11. \A q \in Requests : Clean(sess'[q]) /\ Announced(q)'
                             /\ (sess'[q].destroyed => sess'[q].destroyedId # NoId)
    BY <1>0 DEF SessionInv, Announced
  <2> QED
    BY <2>4, <2>7, <2>8, <2>9, <2>10, <2>11 DEF SessionInv, Clean
<1> QED
  BY <1>1, <1>3, <1>4 DEF Finalize

\* Every step keeps the invariant.
LEMMA SessionStep == SessionInv /\ [Next]_vars => SessionInv'
<1> SUFFICES ASSUME SessionInv, [Next]_vars PROVE SessionInv'
  OBVIOUS
<1>1. CASE UNCHANGED vars
  BY <1>1 DEF vars, SessionInv, TypeOK, Clean, Announced, CookieTimes, StoreIsBounded,
              SessionsDoNotMix, StoredIsReachable
<1>2. ASSUME NEW r \in Requests, RefusedCall(r) \/ Lose(r)
      PROVE  SessionInv'
  BY <1>2, PhaseKeeps DEF RefusedCall, StartActive, DestroyInactive, ReplaceId, RegenerateId,
                          EndScript, Lose, Running
<1>3. CASE Next
  BY <1>2, <1>3, SeedStep, StartStep, StartFailsStep, ScriptStep, FinalizeStep DEF Next, SessionCall
<1> QED
  BY <1>1, <1>3

\* The inductive invariant.
THEOREM SessionInvariant == Spec => []SessionInv
BY SessionInit, SessionStep, PTL DEF Spec

\* Sessions, ids and payloads keep their types, for any requests and ids.
THEOREM SessionsTypeCorrect == Spec => []TypeOK
<1>1. SessionInv => TypeOK
  BY DEF SessionInv
<1> QED
  BY <1>1, SessionInvariant, PTL

\* RuntimeSessionStore never holds more than max_entries sessions, and
\* last_access orders exactly those it holds.
THEOREM SessionStoreIsBounded == Spec => []StoreIsBounded
<1>1. SessionInv => StoreIsBounded
  BY DEF SessionInv
<1> QED
  BY <1>1, SessionInvariant, PTL

\* What is stored under an id was written while that id was active, for any
\* number of concurrent requests.
THEOREM SessionsNeverMix == Spec => []SessionsDoNotMix
<1>1. SessionInv => SessionsDoNotMix
  BY DEF SessionInv
<1> QED
  BY <1>1, SessionInvariant, PTL

\* Every stored session came in a request's cookie or was announced in an
\* answer's Set-Cookie.
THEOREM StoredSessionsAreReachable == Spec => []StoredIsReachable
<1>1. SessionInv => StoredIsReachable
  BY DEF SessionInv
<1> QED
  BY <1>1, SessionInvariant, PTL
-----------------------------------------------------------------------------
(***************************************************************************)
(* Who changes the store.  Finalization asks whether the session is active *)
(* or destroyed, not whether it was started: that each implies it has to   *)
(* be carried along, and that a session keeps the id of its cookie until   *)
(* it is started.                                                          *)
(***************************************************************************)
StartedFirst ==
  \A r \in Requests : \/ sess[r].started
                      \/ ~sess[r].active /\ ~sess[r].destroyed /\ sess[r].id = incoming[r]

\* A step that changes one session at most, and neither activates, destroys nor
\* renames one that was not started.
LEMMA StartedKept ==
  ASSUME TypeOK, StartedFirst, NEW r \in Requests, NEW s,
         sess' = [sess EXCEPT ![r] = s],
         \A q \in Requests \ {r} : incoming'[q] = incoming[q],
         s.started \/ (~s.active /\ ~s.destroyed /\ s.id = incoming'[r])
  PROVE  StartedFirst'
BY DEF TypeOK, StartedFirst

\* Only session_start() activates, and session_destroy() wants an active session.
LEMMA StartedStep ==
  ASSUME TypeOK, StartedFirst, [Next]_vars
  PROVE  StartedFirst'
<1>0. sess \in [Requests -> SessionState] /\ incoming \in [Requests -> Ids \cup {NoId}]
  BY DEF TypeOK
<1>1. ASSUME NEW r \in Requests, NEW id, Seed(r, id)
      PROVE  StartedFirst'
  <2>1. /\ sess' = [sess EXCEPT ![r] = Seeded(id)]
        /\ incoming'[r] = id /\ \A q \in Requests \ {r} : incoming'[q] = incoming[q]
    BY <1>0, <1>1 DEF Seed
  <2>2. ~Seeded(id).active /\ ~Seeded(id).destroyed /\ Seeded(id).id = id
    BY DEF Seeded
  <2> QED
    BY <2>1, <2>2, StartedKept, Zenon
<1>2. ASSUME NEW r \in Requests, NEW new, SessionStart(r, new)
      PROVE  StartedFirst'
  <2>1. sess' = [sess EXCEPT ![r] = Activate(sess[r], new)] /\ incoming' = incoming
    BY <1>2 DEF SessionStart
  <2>2. Activate(sess[r], new).started
    BY <1>0 DEF Activate, SessionState
  <2> QED
    BY <2>1, <2>2, StartedKept, Zenon
<1>3. ASSUME NEW r \in Requests,
             \/ WriteData(r) \/ SessionDestroy(r) \/ WriteClose(r)
             \/ SessionAbort(r) \/ SessionReset(r) \/ SessionUnset(r)
      PROVE  StartedFirst'
  <2>1. sess[r] \in SessionState
    BY <1>0
  <2>2. /\ \A q \in Requests \ {r} : sess'[q] = sess[q]
        /\ sess'[r].started = sess[r].started
        /\ sess'[r].active => sess[r].active
        /\ sess'[r].destroyed => sess[r].destroyed \/ sess[r].active
        /\ sess'[r].id = sess[r].id \/ sess[r].active
    BY <1>0, <1>3, <2>1 DEF WriteData, SessionDestroy, WriteClose, SessionAbort, SessionReset,
                            SessionUnset, SessionState
  <2>3. incoming' = incoming
    BY <1>3, Zenon DEF WriteData, SessionDestroy, WriteClose, SessionAbort, SessionReset,
                       SessionUnset
  <2> QED
    BY <2>2, <2>3 DEF StartedFirst
<1>4. ASSUME NEW r \in Requests, StartFails(r)
      PROVE  StartedFirst'
  <2>1. incoming' = incoming /\ ~sess[r].active
    BY <1>4 DEF StartFails
  <2>2. PICK s \in {sess[r], AfterLoad(sess[r])} : sess' = [sess EXCEPT ![r] = s]
    BY <1>0, <1>4 DEF StartFails
  <2>3. s.started = sess[r].started /\ s.active = sess[r].active
        /\ s.destroyed = sess[r].destroyed /\ s.id = sess[r].id
    <3>1. sess[r] \in SessionState
      BY <1>0
    <3> QED
      BY <2>2, <3>1, LoadKeeps, Zenon
  <2>4. s.started \/ (~s.active /\ ~s.destroyed /\ s.id = incoming'[r])
    BY <2>1, <2>3 DEF StartedFirst
  <2>5. \A q \in Requests \ {r} : incoming'[q] = incoming[q]
    BY <2>1
  <2> QED
    BY <2>2, <2>4, <2>5, StartedKept, Zenon
<1>5. ASSUME sess' = sess, incoming' = incoming
      PROVE  StartedFirst'
  BY <1>5 DEF StartedFirst
<1>6. ASSUME NEW r \in Requests, RefusedCall(r) \/ Finalize(r) \/ Lose(r)
      PROVE  sess' = sess /\ incoming' = incoming
  BY <1>6 DEF RefusedCall, StartActive, DestroyInactive, ReplaceId, RegenerateId, EndScript,
              Finalize, FinalizeDestroyed, FinalizeActive, FinalizeFails, FinalizeInactive, Lose
<1>7. CASE Next
  BY <1>1, <1>2, <1>3, <1>4, <1>5, <1>6, <1>7 DEF Next, SessionCall
<1>8. CASE UNCHANGED vars
  BY <1>5, <1>8 DEF vars
<1> QED
  BY <1>7, <1>8

\* What a step of a request does to the store if its session is not started.
OwnEntryAtMost(r) ==
  UNCHANGED store /\ (order' = order \/ (incoming[r] # NoId /\ Touch(incoming[r])))

\* A step of one request leaves the others' sessions and phases alone, and
\* changes the store only if that request's session has been started.
LEMMA StoreNeedsStart ==
  ASSUME TypeOK, StartedFirst, Next, NEW r \in Requests,
         sess'[r] # sess[r] \/ phase'[r] # phase[r]
  PROVE  sess'[r].started \/ OwnEntryAtMost(r)
<1>0. sess \in [Requests -> SessionState] /\ phase \in [Requests -> Phases]
  BY DEF TypeOK
<1>1. PICK q \in Requests :
        \/ \E id \in Ids \cup {NoId} : Seed(q, id)
        \/ WriteData(q) \/ SessionCall(q) \/ RefusedCall(q)
        \/ Finalize(q) \/ Lose(q)
  BY DEF Next
<1>2. ASSUME \/ \E id \in Ids \cup {NoId} : Seed(q, id)
             \/ WriteData(q) \/ RefusedCall(q) \/ Lose(q)
             \/ FinalizeFails(q) \/ FinalizeInactive(q)
             \/ SessionDestroy(q) \/ WriteClose(q) \/ SessionAbort(q)
             \/ SessionReset(q) \/ SessionUnset(q)
      PROVE  OwnEntryAtMost(r)
  <2>1. UNCHANGED <<store, order>>
    BY <1>2 DEF Seed, WriteData, RefusedCall, StartActive, DestroyInactive, ReplaceId,
                RegenerateId, EndScript, FinalizeFails, FinalizeInactive, Lose, SessionDestroy,
                WriteClose, SessionAbort, SessionReset, SessionUnset
  <2> QED
    BY <2>1 DEF OwnEntryAtMost
<1>3. ASSUME NEW new, SessionStart(q, new)
      PROVE  sess'[r].started
  <2>1. /\ sess' = [sess EXCEPT ![q] = Activate(sess[q], new)]
        /\ phase' = phase
    BY <1>3 DEF SessionStart
  <2>2. r = q
    BY <1>0, <2>1
  <2>3. Activate(sess[q], new).started
    BY <1>0 DEF Activate, SessionState
  <2> QED
    BY <1>0, <2>1, <2>2, <2>3
<1>4. ASSUME FinalizeDestroyed(q) \/ FinalizeActive(q)
      PROVE  sess'[r].started
  <2>1. sess' = sess /\ phase' = [phase EXCEPT ![q] = "done"]
    BY <1>4 DEF FinalizeDestroyed, FinalizeActive
  <2>2. r = q
    BY <1>0, <2>1
  <2>3. sess[q].destroyed \/ sess[q].active
    BY <1>4 DEF FinalizeDestroyed, FinalizeActive, MustSave
  <2> QED
    BY <2>1, <2>2, <2>3 DEF StartedFirst
<1>5. ASSUME StartFails(q)
      PROVE  sess'[r].started \/ OwnEntryAtMost(r)
  <2>1. PICK s \in {sess[q], AfterLoad(sess[q])} : sess' = [sess EXCEPT ![q] = s]
    BY <1>0, <1>5 DEF StartFails
  <2>2. r = q
    BY <1>0, <1>5, <2>1 DEF StartFails
  <2>3. sess'[q].started = sess[q].started
    <3>1. sess[q] \in SessionState /\ sess'[q] = s
      BY <1>0, <2>1
    <3> QED
      BY <3>1, LoadKeeps, Zenon
  <2>4. CASE sess[q].id # incoming[q]
    BY <2>2, <2>3, <2>4 DEF StartedFirst
  <2>5. CASE sess[q].id = incoming[q]
    BY <1>5, <2>2, <2>5 DEF StartFails, NeedsLazyLoad, OwnEntryAtMost
  <2> QED
    BY <2>4, <2>5
<1> QED
  BY <1>1, <1>2, <1>3, <1>4, <1>5 DEF SessionCall, Finalize

\* A request that never starts its session stores and deletes nothing, whatever
\* its cookie says and whatever others do: at most a session_start() that fails
\* refreshes the entry its cookie names.
THEOREM UnstartedSessionsStayAway == Spec => OnlyStartedSessionsTouchStore
<1>1. Init => StartedFirst
  BY DEF Init, StartedFirst, Seeded
<1>2. SessionInv /\ StartedFirst /\ [Next]_vars => StartedFirst'
  BY StartedStep DEF SessionInv
<1>3. ASSUME SessionInv, StartedFirst, [Next]_vars
      PROVE  [\A r \in Requests :
                sess'[r] # sess[r] \/ phase'[r] # phase[r] =>
                  \/ sess'[r].started
                  \/ UNCHANGED store
                       /\ (order' = order \/ (incoming[r] # NoId /\ Touch(incoming[r])))]_vars
  BY <1>3, StoreNeedsStart DEF SessionInv, OwnEntryAtMost
<1> QED
  BY <1>1, <1>2, <1>3, SessionInvariant, PTL DEF Spec, OnlyStartedSessionsTouchStore
-----------------------------------------------------------------------------
(***************************************************************************)
(* Whose id it is.  A request gets an id from its cookie, which a response *)
(* has announced or a client has made up, or from the generator, which     *)
(* returns no id twice.  So the invariant adds that an id that is in use   *)
(* or announced is one a client can make up or one that was generated.     *)
(***************************************************************************)
Known(i) == i \in issued \cup ClientIds \cup {NoId}

IdInv ==
  /\ SessionInv
  /\ \A r \in Requests : Known(sess[r].id) /\ Known(cookie[r])
  /\ GeneratedIdsArePrivate

\* A step that gives no request another id and takes back no cookie.
LEMMA IdsKept ==
  ASSUME IdInv,
         \A q \in Requests : sess'[q].id \in {sess[q].id, NoId},
         \A q \in Requests : cookie'[q] = cookie[q] \/ (cookie[q] = NoId /\ Known(cookie'[q])),
         UNCHANGED issued
  PROVE  /\ \A q \in Requests : Known(sess[q].id)' /\ Known(cookie[q])'
         /\ GeneratedIdsArePrivate'
<1>1. \A i \in FreshIds \ ClientIds : i # NoId
  BY Names, Zenon DEF Ids
<1>2. \A q \in Requests : Known(sess[q].id)' /\ Known(cookie[q])'
  BY Zenon DEF IdInv, Known
<1>3. ASSUME NEW i \in FreshIds \ ClientIds, \A p \in Requests : cookie'[p] # i,
             NEW r \in Requests, NEW q \in Requests, sess'[r].id = i, sess'[q].id = i
      PROVE  r = q
  <2>1. \A p \in Requests : cookie[p] # i
    BY <1>1, <1>3, Zenon
  <2>2. sess[r].id = i /\ sess[q].id = i
    BY <1>1, <1>3, Zenon
  <2> QED
    BY <2>1, <2>2, Zenon DEF IdInv, GeneratedIdsArePrivate
<1> QED
  BY <1>2, <1>3, Zenon DEF GeneratedIdsArePrivate

\* One request gets an id that is new or that need not be private.
LEMMA IdGiven ==
  ASSUME IdInv, NEW r \in Requests, NEW new,
         \A q \in Requests \ {r} : sess'[q] = sess[q],
         sess'[r].id = new,
         UNCHANGED cookie,
         issued \subseteq issued', Known(new)',
         \/ new \in ClientIds \cup {NoId}
         \/ \E p \in Requests : cookie[p] = new
         \/ new \notin issued
  PROVE  /\ \A q \in Requests : Known(sess[q].id)' /\ Known(cookie[q])'
         /\ GeneratedIdsArePrivate'
<1>1. \A i \in FreshIds \ ClientIds : i # NoId
  BY Names, Zenon DEF Ids
<1>2. \A i : Known(i) => Known(i)'
  BY Zenon DEF Known
<1>3. \A q \in Requests : Known(sess[q].id)' /\ Known(cookie[q])'
  <2> SUFFICES ASSUME NEW q \in Requests
               PROVE  Known(sess[q].id)' /\ Known(cookie[q])'
    OBVIOUS
  <2>1. Known(sess[q].id) /\ Known(cookie[q])
    BY Zenon DEF IdInv
  <2>2. q # r => sess'[q] = sess[q]
    BY Zenon
  <2> QED
    BY <2>1, <2>2 DEF Known
<1>4. ASSUME NEW i \in FreshIds \ ClientIds, \A p \in Requests : cookie'[p] # i,
             NEW p \in Requests, NEW q \in Requests, sess'[p].id = i, sess'[q].id = i
      PROVE  p = q
  <2>1. \A o \in Requests : cookie[o] # i
    BY <1>4, Zenon
  <2>2. CASE new = i
    <3>1. i \notin issued
      BY <1>1, <2>1, <2>2, Zenon
    <3>2. \A o \in Requests : sess[o].id # i
      BY <1>1, <3>1, Zenon DEF IdInv, Known
    <3>3. \A o \in Requests : o # r => sess'[o].id # i
      BY <3>2
    <3> QED
      BY <1>4, <3>3, Zenon
  <2>3. CASE new # i
    <3>1. p # r /\ q # r
      BY <1>4, <2>3, Zenon
    <3>2. sess[p].id = i /\ sess[q].id = i
      BY <1>4, <3>1
    <3> QED
      BY <2>1, <3>2, Zenon DEF IdInv, GeneratedIdsArePrivate
  <2> QED
    BY <2>2, <2>3, Zenon
<1> QED
  BY <1>3, <1>4, Zenon DEF GeneratedIdsArePrivate

\* Every step keeps the ids apart.
LEMMA IdStep ==
  ASSUME IdInv, [Next]_vars
  PROVE  /\ \A q \in Requests : Known(sess[q].id)' /\ Known(cookie[q])'
         /\ GeneratedIdsArePrivate'
<1> DEFINE Goal == /\ \A q \in Requests : Known(sess[q].id)' /\ Known(cookie[q])'
                   /\ GeneratedIdsArePrivate'
<1>0. /\ sess \in [Requests -> SessionState]
      /\ cookie \in [Requests -> Ids \cup {NoId}]
      /\ CookieTimes
  BY DEF IdInv, SessionInv, TypeOK
<1>1. ASSUME NEW r \in Requests, NEW id, Seed(r, id)
      PROVE  Goal
  <2>1. /\ id \in ClientIds \cup {cookie[q] : q \in Requests} \cup {NoId}
        /\ sess' = [sess EXCEPT ![r] = Seeded(id)]
        /\ UNCHANGED <<issued, cookie>>
    BY <1>1 DEF Seed
  <2>2. /\ \A q \in Requests \ {r} : sess'[q] = sess[q]
        /\ sess'[r].id = id
    BY <1>0, <2>1 DEF Seeded
  <2>3. id \in ClientIds \cup {NoId} \/ \E p \in Requests : cookie[p] = id
    BY <2>1, Zenon
  <2>4. Known(id)'
    BY <2>1, <2>3 DEF IdInv, Known
  <2>5. cookie' = cookie /\ issued \subseteq issued'
    BY <2>1
  <2> QED
    BY <2>2, <2>3, <2>4, <2>5, IdGiven, Zenon
<1>2. ASSUME NEW r \in Requests, NEW new, SessionStart(r, new)
      PROVE  Goal
  <2>1. /\ new \in (FreshIds \ issued) \cup {NoId}
        /\ sess' = [sess EXCEPT ![r] = Activate(sess[r], new)]
        /\ issued' = issued \cup ({new} \ {NoId})
        /\ cookie' = cookie
    BY <1>2 DEF SessionStart
  <2>2. \A q \in Requests \ {r} : sess'[q] = sess[q]
    BY <1>0, <2>1
  <2>3. sess'[r].id = IF new # NoId THEN new ELSE sess[r].id
    <3>1. Activate(sess[r], new).id = IF new # NoId THEN new ELSE sess[r].id
      BY <1>0 DEF Activate, SessionState
    <3>2. sess'[r] = Activate(sess[r], new)
      BY <1>0, <2>1
    <3> QED
      BY <3>1, <3>2
  <2>4. CASE new # NoId
    <3>1. Known(new)' /\ issued \subseteq issued' /\ new \notin issued
      BY <2>1, <2>4 DEF Known
    <3>2. sess'[r].id = new
      BY <2>3, <2>4
    <3> QED
      BY <2>1, <2>2, <3>1, <3>2, IdGiven, Zenon
  <2>5. CASE new = NoId
    <3>1. issued' = issued
      BY <2>1, <2>5
    <3>2. \A q \in Requests : sess'[q].id \in {sess[q].id, NoId}
      BY <2>2, <2>3, <2>5
    <3> QED
      BY <2>1, <3>1, <3>2, IdsKept, Zenon
  <2> QED
    BY <2>4, <2>5, Zenon
<1>3. ASSUME NEW r \in Requests,
             \/ WriteData(r) \/ SessionDestroy(r) \/ WriteClose(r)
             \/ SessionAbort(r) \/ SessionReset(r) \/ SessionUnset(r)
      PROVE  Goal
  <2>1. sess[r] \in SessionState
    BY <1>0
  <2>2. \A q \in Requests : sess'[q].id \in {sess[q].id, NoId}
    BY <1>0, <1>3, <2>1 DEF WriteData, SessionDestroy, WriteClose, SessionAbort, SessionReset,
                            SessionUnset, SessionState
  <2>3. issued' = issued /\ cookie' = cookie
    BY <1>3, Zenon DEF WriteData, SessionDestroy, WriteClose, SessionAbort, SessionReset,
                       SessionUnset
  <2> QED
    BY <2>2, <2>3, IdsKept, Zenon
<1>4. ASSUME UNCHANGED <<sess, issued, cookie>>
      PROVE  Goal
  BY <1>4, IdsKept
<1>5. ASSUME NEW r \in Requests, StartFails(r)
      PROVE  Goal
  <2>1. PICK s \in {sess[r], AfterLoad(sess[r])} : sess' = [sess EXCEPT ![r] = s]
    BY <1>0, <1>5 DEF StartFails
  <2>2. s.id = sess[r].id
    <3>1. sess[r] \in SessionState
      BY <1>0
    <3> QED
      BY <2>1, <3>1, LoadKeeps, Zenon
  <2>3. \A q \in Requests : sess'[q].id \in {sess[q].id, NoId}
    BY <1>0, <2>1, <2>2
  <2>4. issued' = issued /\ cookie' = cookie
    BY <1>5 DEF StartFails
  <2> QED
    BY <2>3, <2>4, IdsKept, Zenon
<1>6. ASSUME NEW r \in Requests, FinalizeActive(r)
      PROVE  Goal
  <2>1. /\ sess' = sess /\ issued' = issued
        /\ cookie' = [cookie EXCEPT ![r] = IF sess[r].newly THEN sess[r].id ELSE NoId]
        /\ phase[r] \in {"php", "failed"}
    BY <1>6 DEF FinalizeActive, ScriptOver
  <2>2. cookie[r] = NoId
    BY <1>0, <2>1 DEF CookieTimes
  <2>3. cookie'[r] \in {sess[r].id, NoId} /\ \A q \in Requests \ {r} : cookie'[q] = cookie[q]
    BY <1>0, <2>1
  <2>4. Known(cookie'[r])
    BY <2>3 DEF IdInv, Known
  <2> QED
    BY <2>1, <2>2, <2>3, <2>4, IdsKept
<1>7. ASSUME NEW r \in Requests,
             \/ RefusedCall(r) \/ Lose(r)
             \/ FinalizeDestroyed(r) \/ FinalizeFails(r) \/ FinalizeInactive(r)
      PROVE  UNCHANGED <<sess, issued, cookie>>
  BY <1>7 DEF RefusedCall, StartActive, DestroyInactive, ReplaceId, RegenerateId, EndScript,
              FinalizeDestroyed, FinalizeFails, FinalizeInactive, Lose
<1> HIDE DEF Goal
<1>8. ASSUME Next
      PROVE  Goal
  BY <1>1, <1>2, <1>3, <1>4, <1>5, <1>6, <1>7, <1>8, Zenon DEF Next, SessionCall, Finalize
<1>9. ASSUME UNCHANGED vars
      PROVE  Goal
  BY <1>4, <1>9 DEF vars
<1>10. Goal
  BY <1>8, <1>9, Zenon
<1> QED
  BY <1>10 DEF Goal

\* An id generate_session_id returned is used by the request that asked for it
\* and by no other until that request's Set-Cookie names it.
THEOREM GeneratedIdsStayPrivate == Spec => []GeneratedIdsArePrivate
<1>1. Init /\ SessionInv => IdInv
  BY Names DEF Init, IdInv, Known, GeneratedIdsArePrivate, Seeded, Ids
<1>2. IdInv /\ SessionInv' /\ [Next]_vars => IdInv'
  BY IdStep DEF IdInv
<1>3. IdInv => GeneratedIdsArePrivate
  BY DEF IdInv
<1> QED
  BY <1>1, <1>2, <1>3, SessionInvariant, PTL DEF Spec
=============================================================================
