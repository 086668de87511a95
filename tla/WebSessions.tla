---------------------------- MODULE WebSessions ----------------------------
(***************************************************************************)
(* Web sessions: the session of a request, seeded from its cookie, driven  *)
(* by the script through the fixed native session handlers                 *)
(* (jit_native_session_*_abi in                                            *)
(* crates/php_vm/src/vm/jit_abi/native/exact_call_dispatch.rs on           *)
(* NativeSessionControlState of crates/php_runtime/src/session.rs), and    *)
(* finalized into the server's bounded in-memory store after the script    *)
(* (crates/php_server/src/sessions.rs, session_store.rs).                  *)
(*                                                                         *)
(* Requests run concurrently; the store is the only state they share, and  *)
(* each of its operations holds its mutex.  A payload is abstracted to the *)
(* session id that was active when the script last wrote $_SESSION, so     *)
(* that a payload that ends up in another session can be seen.             *)
(***************************************************************************)
EXTENDS Integers, Sequences, FiniteSets, SequencesExt

CONSTANTS Requests,    \* the requests that run PHP
          ClientIds,   \* valid session ids a client may make up
          FreshIds,    \* ids generate_session_id may return, each once
          MaxEntries   \* RuntimeSessionStore.max_entries

\* with_limits() uses max_entries.max(1); the names below are no ids.
ASSUME SessionConstants ==
  /\ MaxEntries \in Nat \ {0}
  /\ {"noid", "empty", "stray", "absent"} \cap (ClientIds \cup FreshIds) = {}

Ids == ClientIds \cup FreshIds

NoId   == "noid"     \* an empty session id
Empty  == "empty"    \* an empty $_SESSION array
Stray  == "stray"    \* what the script wrote to $_SESSION with no session active
Absent == "absent"   \* no entry in the store

Payloads == Ids \cup {Empty, Stray}

VARIABLES
  phase,     \* how far the request is: see Phases
  sess,      \* the request's session
  store,     \* RuntimeSessionStore.entries: the payload of each id
  order,     \* the ids with an entry, by last_access, oldest first
  issued,    \* the ids generated so far
  incoming,  \* the id in the request's session cookie
  cookie     \* the id in the response's Set-Cookie header

vars == <<phase, sess, store, order, issued, incoming, cookie>>

\* "failed": a session handler ended the script with ABI_MISMATCH or
\* RUNTIME_ERROR; "lost": the request ended without finalization.
Phases == {"new", "php", "failed", "done", "lost"}

\* closed is history: closed by session_write_close() and not started since.
SessionState ==
  [active : BOOLEAN, id : Ids \cup {NoId}, loaded : BOOLEAN, started : BOOLEAN,
   newly : BOOLEAN, destroyed : BOOLEAN, destroyedId : Ids \cup {NoId},
   data : Payloads, committed : Payloads, closed : BOOLEAN]

\* SessionState::seeded_lazy.
Seeded(id) ==
  [active |-> FALSE, id |-> id, loaded |-> id = NoId, started |-> FALSE,
   newly |-> FALSE, destroyed |-> FALSE, destroyedId |-> NoId,
   data |-> Empty, committed |-> Empty, closed |-> FALSE]

Init ==
  /\ phase = [r \in Requests |-> "new"]
  /\ sess = [r \in Requests |-> Seeded(NoId)]
  /\ store = [i \in Ids |-> Absent]
  /\ order = <<>>
  /\ issued = {}
  /\ incoming = [r \in Requests |-> NoId]
  /\ cookie = [r \in Requests |-> NoId]

NeedsLazyLoad(s) == ~s.loaded /\ s.id # NoId

\* What RuntimeSessionStore::load returns: an empty array for an unknown id.
Stored(id) == IF store[id] = Absent THEN Empty ELSE store[id]

\* The session after the lazy load of its payload, if it needs one
\* (prepare_native_session_start_transport).
AfterLoad(s) ==
  IF NeedsLazyLoad(s)
    THEN [s EXCEPT !.data = Stored(s.id), !.committed = Stored(s.id), !.loaded = TRUE]
    ELSE s

Running(r) == phase[r] = "php"
ScriptOver(r) == phase[r] \in {"php", "failed"}
-----------------------------------------------------------------------------
(***************************************************************************)
(* Faulty variants of the steps below, against which the properties are    *)
(* tried.                                                                  *)
(***************************************************************************)
\* session_start() keeps the live $_SESSION instead of the committed one.
StartPayloadLive(s, new) == IF new # NoId THEN Empty ELSE AfterLoad(s).data

\* newly_created is set only for the first session of the request.
NewlyFirstOnly(s, new) == s.newly \/ (new # NoId /\ ~s.started)

\* save() evicts nothing.
SaveUnbounded(id, p) ==
  /\ store' = [store EXCEPT ![id] = p]
  /\ order' = Append(RemoveFirst(order, id), id)

\* finalize_session_state does not ask whether the session is active.
MustSaveAny(s) == ~s.destroyed /\ s.id # NoId
-----------------------------------------------------------------------------
(***************************************************************************)
(* The store.                                                              *)
(***************************************************************************)
\* RuntimeSessionStore::save: a new id evicts the least recently used entry
\* when the store is full.
Save(id, p) ==
  IF store[id] = Absent /\ Len(order) >= MaxEntries
    THEN /\ store' = [store EXCEPT ![Head(order)] = Absent, ![id] = p]
         /\ order' = Append(Tail(order), id)
    ELSE /\ store' = [store EXCEPT ![id] = p]
         /\ order' = Append(RemoveFirst(order, id), id)

\* RuntimeSessionStore::delete.
Delete(id) ==
  /\ store' = [store EXCEPT ![id] = Absent]
  /\ order' = RemoveFirst(order, id)

\* RuntimeSessionStore::load refreshes last_access, before it decodes the
\* payload.
Touch(id) ==
  order' = IF store[id] = Absent THEN order ELSE Append(RemoveFirst(order, id), id)
-----------------------------------------------------------------------------
(***************************************************************************)
(* The script.                                                             *)
(***************************************************************************)
\* seed_session_state: the id of the session cookie, or none.  The store is
\* not read.
Seed(r, id) ==
  /\ phase[r] = "new"
  /\ id \in ClientIds \cup {cookie[q] : q \in Requests} \cup {NoId}
  /\ phase' = [phase EXCEPT ![r] = "php"]
  /\ sess' = [sess EXCEPT ![r] = Seeded(id)]
  /\ incoming' = [incoming EXCEPT ![r] = id]
  /\ UNCHANGED <<store, order, issued, cookie>>

\* The script assigns to $_SESSION, an ordinary global, active or not, or
\* session_decode() does.
WriteData(r) ==
  /\ Running(r)
  /\ sess' = [sess EXCEPT ![r].data = IF sess[r].active THEN sess[r].id ELSE Stray]
  /\ UNCHANGED <<phase, store, order, issued, incoming, cookie>>

\* What session_start() activates with: nothing under a generated id
\* (clear_native_session_payload_and_commit), otherwise the committed payload
\* (restore_native_session_payload).
StartPayload(s, new) == IF new # NoId THEN Empty ELSE AfterLoad(s).committed

\* newly_created, once set, stays set for the rest of the request.
NewlyCreated(s, new) == s.newly \/ new # NoId

\* start_value_free, under the id it generates or, for NoId, its own.
Activate(s, new) ==
  [s EXCEPT !.data = StartPayload(s, new), !.committed = StartPayload(s, new),
            !.id = IF new # NoId THEN new ELSE @, !.newly = NewlyCreated(s, new),
            !.loaded = TRUE, !.active = TRUE, !.started = TRUE,
            !.destroyed = FALSE, !.destroyedId = NoId, !.closed = FALSE]

\* session_start() of an inactive session, under a generated id if it has
\* none or if the script has set session.use_strict_mode.
SessionStart(r, new) ==
  /\ Running(r) /\ ~sess[r].active
  /\ new \in (FreshIds \ issued) \cup {NoId}
  /\ sess[r].id = NoId => new # NoId
  /\ sess' = [sess EXCEPT ![r] = Activate(@, new)]
  /\ IF NeedsLazyLoad(sess[r]) THEN Touch(sess[r].id) ELSE UNCHANGED order
  /\ issued' = issued \cup ({new} \ {NoId})
  /\ UNCHANGED <<phase, store, incoming, cookie>>

\* session_destroy().
SessionDestroy(r) ==
  /\ Running(r) /\ sess[r].active
  /\ sess' = [sess EXCEPT ![r].destroyedId = sess[r].id,
                          ![r].active = FALSE, ![r].id = NoId, ![r].data = Empty,
                          ![r].committed = Empty, ![r].loaded = TRUE, ![r].destroyed = TRUE]
  /\ UNCHANGED <<phase, store, order, issued, incoming, cookie>>

\* session_write_close() and session_commit().
WriteClose(r) ==
  /\ Running(r) /\ sess[r].active
  /\ sess' = [sess EXCEPT ![r].committed = sess[r].data, ![r].active = FALSE, ![r].closed = TRUE]
  /\ UNCHANGED <<phase, store, order, issued, incoming, cookie>>

\* session_abort().
SessionAbort(r) ==
  /\ Running(r) /\ sess[r].active
  /\ sess' = [sess EXCEPT ![r].data = sess[r].committed, ![r].active = FALSE]
  /\ UNCHANGED <<phase, store, order, issued, incoming, cookie>>

\* session_reset().
SessionReset(r) ==
  /\ Running(r) /\ sess[r].active
  /\ sess' = [sess EXCEPT ![r].data = sess[r].committed]
  /\ UNCHANGED <<phase, store, order, issued, incoming, cookie>>

\* session_unset().
SessionUnset(r) ==
  /\ Running(r) /\ sess[r].active
  /\ sess' = [sess EXCEPT ![r].data = Empty]
  /\ UNCHANGED <<phase, store, order, issued, incoming, cookie>>

(***************************************************************************)
(* Calls that fail, or that a native handler does not cover: it answers    *)
(* RUNTIME_ERROR or ABI_MISMATCH, which leaves the compiled code and ends  *)
(* the script; the session is finalized as it stands.                      *)
(***************************************************************************)
\* session_start() of an inactive session whose transport fails: the payload
\* does not decode (one over a mebibyte is saved and cannot be read back), or
\* it is loaded and then no id can be generated.  The answer is RUNTIME_ERROR.
StartFails(r) ==
  /\ Running(r) /\ ~sess[r].active
  /\ \/ NeedsLazyLoad(sess[r]) /\ UNCHANGED sess
     \/ sess' = [sess EXCEPT ![r] = AfterLoad(@)]
  /\ IF NeedsLazyLoad(sess[r]) THEN Touch(sess[r].id) ELSE UNCHANGED order
  /\ phase' = [phase EXCEPT ![r] = "failed"]
  /\ UNCHANGED <<store, issued, incoming, cookie>>

EndScript(r) ==
  /\ Running(r)
  /\ phase' = [phase EXCEPT ![r] = "failed"]
  /\ UNCHANGED <<sess, store, order, issued, incoming, cookie>>

\* session_start() of an active session.
StartActive(r) == sess[r].active /\ EndScript(r)

\* session_destroy() with no active session.
DestroyInactive(r) == ~sess[r].active /\ EndScript(r)

\* session_id($id): a lazily loaded session cannot change its id natively.
ReplaceId(r) == EndScript(r)

\* session_regenerate_id(): the server's id generator is a cold capability.
RegenerateId(r) == EndScript(r)
-----------------------------------------------------------------------------
(***************************************************************************)
(* finalize_session_state, after the script.                               *)
(***************************************************************************)
\* Whether the payload is saved.
MustSave(s) == ~s.destroyed /\ s.active /\ s.id # NoId

\* The session was destroyed: its entry is deleted.
FinalizeDestroyed(r) ==
  /\ ScriptOver(r) /\ sess[r].destroyed
  /\ Delete(sess[r].destroyedId)
  /\ phase' = [phase EXCEPT ![r] = "done"]
  /\ UNCHANGED <<sess, issued, incoming, cookie>>

\* The session is active: its payload is saved, and a newly created session
\* is announced with Set-Cookie.
FinalizeActive(r) ==
  /\ ScriptOver(r) /\ MustSave(sess[r])
  /\ Save(sess[r].id, sess[r].data)
  /\ cookie' = [cookie EXCEPT ![r] = IF sess[r].newly THEN sess[r].id ELSE NoId]
  /\ phase' = [phase EXCEPT ![r] = "done"]
  /\ UNCHANGED <<sess, issued, incoming>>

\* The payload cannot be serialized: the answer is an error, without a cookie.
FinalizeFails(r) ==
  /\ ScriptOver(r) /\ MustSave(sess[r])
  /\ phase' = [phase EXCEPT ![r] = "done"]
  /\ UNCHANGED <<sess, store, order, issued, incoming, cookie>>

\* The session is not active: nothing is stored.
FinalizeInactive(r) ==
  /\ ScriptOver(r) /\ ~sess[r].destroyed /\ ~MustSave(sess[r])
  /\ phase' = [phase EXCEPT ![r] = "done"]
  /\ UNCHANGED <<sess, store, order, issued, incoming, cookie>>

\* The request ends without finalization: a panic in the script.
Lose(r) ==
  /\ Running(r)
  /\ phase' = [phase EXCEPT ![r] = "lost"]
  /\ UNCHANGED <<sess, store, order, issued, incoming, cookie>>
-----------------------------------------------------------------------------
SessionCall(r) ==
  \/ \E new \in FreshIds \cup {NoId} : SessionStart(r, new)
  \/ StartFails(r)
  \/ SessionDestroy(r) \/ WriteClose(r) \/ SessionAbort(r)
  \/ SessionReset(r) \/ SessionUnset(r)

RefusedCall(r) == StartActive(r) \/ DestroyInactive(r) \/ ReplaceId(r) \/ RegenerateId(r)

Finalize(r) ==
  FinalizeDestroyed(r) \/ FinalizeActive(r) \/ FinalizeFails(r) \/ FinalizeInactive(r)

Next ==
  \E r \in Requests :
    \/ \E id \in Ids \cup {NoId} : Seed(r, id)
    \/ WriteData(r) \/ SessionCall(r) \/ RefusedCall(r)
    \/ Finalize(r) \/ Lose(r)

Spec == Init /\ [][Next]_vars
-----------------------------------------------------------------------------
\* Sessions, store and cookies have the types of the Rust fields.
TypeOK ==
  /\ phase \in [Requests -> Phases]
  /\ sess \in [Requests -> SessionState]
  /\ store \in [Ids -> Payloads \cup {Absent}]
  /\ order \in Seq(Ids)
  /\ issued \subseteq FreshIds
  /\ incoming \in [Requests -> Ids \cup {NoId}]
  /\ cookie \in [Requests -> Ids \cup {NoId}]

\* The store holds at most max_entries sessions, and last_access orders
\* exactly the sessions it holds: eviction at the limit, refreshes by loads
\* and deletions by other requests keep the two in step.
StoreIsBounded ==
  /\ Len(order) <= MaxEntries
  /\ ToSet(order) = {i \in Ids : store[i] # Absent}
  /\ \A i, j \in 1..Len(order) : i # j => order[i] # order[j]

\* Sessions do not mix: what is stored under an id was written while that id
\* was active, however a script writes, closes, aborts, destroys and restarts
\* sessions, and never what it wrote with no session active.
SessionsDoNotMix == \A i \in Ids : store[i] \in {i, Empty, Absent}

\* Every stored session is one a client can name: the request that stored it
\* came with its id, or answered with it in Set-Cookie.
StoredIsReachable ==
  \A i \in Ids : store[i] # Absent => \E r \in Requests : i \in {incoming[r], cookie[r]}

\* A request that never starts its session stores and deletes nothing:
\* finalization of a session that was not loaded, or only half started, does
\* not overwrite it.  All such a request may do is refresh the entry its own
\* cookie names, by a session_start() that fails after last_access is set.
OnlyStartedSessionsTouchStore ==
  [][ \A r \in Requests :
        sess'[r] # sess[r] \/ phase'[r] # phase[r] =>
          \/ sess'[r].started
          \/ UNCHANGED store /\ (order' = order \/ (incoming[r] # NoId /\ Touch(incoming[r]))) ]_vars

\* A generated id is one request's own until a response announces it: no other
\* request works under it, so nobody else reads or overwrites its payload.
\* (Ids a client could have made up are excepted.)
GeneratedIdsArePrivate ==
  \A i \in FreshIds \ ClientIds :
    (\A p \in Requests : cookie[p] # i) =>
      \A r, q \in Requests : sess[r].id = i /\ sess[q].id = i => r = q

(***************************************************************************)
(* What the documentation and the comments say.                            *)
(***************************************************************************)
\* The server "persists $_SESSION across consecutive requests": a session
\* the script wrote and closed is in the store once the request is done.
ClosedSessionsAreSaved ==
  [][ \A r \in Requests :
        phase[r] # "done" /\ phase'[r] = "done" /\ sess[r].closed
          /\ sess[r].committed # Empty =>
          store'[sess[r].id] = sess[r].committed ]_vars
=============================================================================
