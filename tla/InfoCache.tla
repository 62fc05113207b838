----------------------------- MODULE InfoCache -----------------------------
(***************************************************************************)
(* The per-user info cache of `Connect` (ipc_conn/connect.rs).             *)
(*                                                                         *)
(* `Connect.infos` maps a user id to an `Infos` entry holding three        *)
(* RwLock-protected slots: app_infos, service_info and app_schema.  Each   *)
(* of get_app_brief_info, get_service_info and get_app_schema takes        *)
(* `&mut self`, creates the entry on first use, takes the slot's write     *)
(* lock, sends one request, decodes the reply INTO the locked slot, drops  *)
(* the write lock, and returns a read guard.  The read guard borrows the   *)
(* `Connect` mutably, so a caller holds the borrow until it drops the      *)
(* guard; callers on several threads share one `Connect` through that      *)
(* exclusive borrow (`borrower`).                                          *)
(*                                                                         *)
(* A slot's contents are abstracted to the response each field was last   *)
(* decoded from: a field holds a member of Resp, or Default when it still  *)
(* holds the `Default` value of the entry.  A decode error after k fields  *)
(* leaves the first k fields written (ServiceInfo::read, Schema::read      *)
(* assign field by field, each `?` returning early).                       *)
(***************************************************************************)
EXTENDS Naturals, Sequences, InfoSlots

CONSTANTS
    Users,      \* user ids passed to the getters
    Threads,    \* caller threads sharing one Connect
    Resp,       \* distinct replies the remote service can send
    NoThread,   \* model value: no thread holds the lock / the borrow
    Default     \* model value: a field still holding its Default value

ASSUME Default \notin Resp /\ NoThread \notin Threads

VARIABLES
    infos,      \* infos[u][s][i]: the reply field i of slot s was decoded from
    known,      \* users that have an entry in Connect.infos
    writer,     \* writer[u][s]: thread holding the slot's write lock
    readers,    \* readers[u][s]: threads holding a read guard on the slot
    borrower,   \* thread holding the `&mut Connect` borrow
    pc,         \* pc[t]: where thread t is in its getter
    call        \* call[t]: user, slot and reply of thread t's current call

vars == <<infos, known, writer, readers, borrower, pc, call>>

DefaultInfos == [s \in Slots |-> [i \in 1 .. NFields(s) |-> Default]]

NoCall == [user |-> CHOOSE u \in Users : TRUE, slot |-> "app_infos",
           resp |-> Default]

\* Connect::new succeeded: the remote object is set and `infos` is empty.
Init ==
    /\ infos = [u \in Users |-> DefaultInfos]
    /\ known = {}
    /\ writer = [u \in Users |-> [s \in Slots |-> NoThread]]
    /\ readers = [u \in Users |-> [s \in Slots |-> {}]]
    /\ borrower = NoThread
    /\ pc = [t \in Threads |-> "idle"]
    /\ call = [t \in Threads |-> NoCall]

\* Releases everything a getter holds when it returns an error: the write
\* guard is dropped by `?` and the `&mut self` borrow ends.
ReturnErr(t) ==
    /\ writer' = [writer EXCEPT ![call[t].user][call[t].slot] = NoThread]
    /\ borrower' = NoThread
    /\ pc' = [pc EXCEPT ![t] = "idle"]

\* The reply's first k fields decoded into slot s of user u.
Written(u, s, k, r) ==
    [infos EXCEPT ![u][s] = [i \in 1 .. NFields(s) |->
                               IF i <= k THEN r ELSE infos[u][s][i]]]

(***************************************************************************)
(* Actions                                                                 *)
(***************************************************************************)

\* A getter starts: it takes the `&mut Connect` borrow, creates the user's
\* entry with `entry(user_id).or_default()`, and blocks in `write()` until
\* the slot has neither a writer nor readers.
Begin(t, u, s) ==
    /\ pc[t] = "idle"
    /\ borrower = NoThread
    /\ writer[u][s] = NoThread
    /\ readers[u][s] = {}
    /\ borrower' = t
    /\ known' = known \cup {u}
    /\ writer' = [writer EXCEPT ![u][s] = t]
    /\ pc' = [pc EXCEPT ![t] = "locked"]
    /\ call' = [call EXCEPT ![t] = [user |-> u, slot |-> s, resp |-> Default]]
    /\ UNCHANGED <<infos, readers>>

\* MsgParcel::new fails, writing the bundle name fails (get_app_schema), or
\* send_request fails: the getter returns an error with the slot untouched.
RequestFailed(t) ==
    /\ pc[t] = "locked"
    /\ ReturnErr(t)
    /\ UNCHANGED <<infos, known, readers, call>>

\* send_request returns the reply r.
Send(t, r) ==
    /\ pc[t] = "locked"
    /\ pc' = [pc EXCEPT ![t] = "received"]
    /\ call' = [call EXCEPT ![t].resp = r]
    /\ UNCHANGED <<infos, known, writer, readers, borrower>>

\* Mutant: the decode error is swallowed (`let _ = lock.read(..)`) and the
\* getter goes on to return a read guard.
DecodeFailIgnored(t, k) ==
    LET u == call[t].user
        s == call[t].slot
    IN /\ pc[t] = "received"
       /\ k \in PartialWrites[s]
       /\ infos' = Written(u, s, k, call[t].resp)
       /\ writer' = [writer EXCEPT ![u][s] = NoThread]
       /\ pc' = [pc EXCEPT ![t] = "committed"]
       /\ UNCHANGED <<known, readers, borrower, call>>

\* Decoding the reply fails after its first k fields were assigned to the
\* locked slot; the getter returns ReadMsgParcelFailed.
DecodeFail(t, k) ==
    LET u == call[t].user
        s == call[t].slot
    IN /\ pc[t] = "received"
       /\ k \in PartialWrites[s]
       /\ infos' = Written(u, s, k, call[t].resp)
       /\ ReturnErr(t)
       /\ UNCHANGED <<known, readers, call>>

\* The whole reply decoded into the slot; `drop(lock)` releases the write
\* lock.
Commit(t) ==
    LET u == call[t].user
        s == call[t].slot
    IN /\ pc[t] = "received"
       /\ infos' = Written(u, s, NFields(s), call[t].resp)
       /\ writer' = [writer EXCEPT ![u][s] = NoThread]
       /\ pc' = [pc EXCEPT ![t] = "committed"]
       /\ UNCHANGED <<known, readers, borrower, call>>

\* `read().unwrap()` blocks until the slot has no writer and returns the
\* read guard to the caller.
AcquireRead(t) ==
    LET u == call[t].user
        s == call[t].slot
    IN /\ pc[t] = "committed"
       /\ writer[u][s] = NoThread
       /\ readers' = [readers EXCEPT ![u][s] = @ \cup {t}]
       /\ pc' = [pc EXCEPT ![t] = "guard"]
       /\ UNCHANGED <<infos, known, writer, borrower, call>>

\* The caller drops the read guard, which ends the borrow of `Connect`.
Release(t) ==
    LET u == call[t].user
        s == call[t].slot
    IN /\ pc[t] = "guard"
       /\ readers' = [readers EXCEPT ![u][s] = @ \ {t}]
       /\ borrower' = NoThread
       /\ pc' = [pc EXCEPT ![t] = "idle"]
       /\ UNCHANGED <<infos, known, writer, call>>

\* Every step of a getter after it has started.
Step(t) ==
    \/ RequestFailed(t)
    \/ \E r \in Resp : Send(t, r)
    \/ \E k \in 0 .. NFields(call[t].slot) : DecodeFail(t, k)
    \/ Commit(t)
    \/ AcquireRead(t)
    \/ Release(t)

Next ==
    \/ \E t \in Threads, u \in Users, s \in Slots : Begin(t, u, s)
    \/ \E t \in Threads : Step(t)

Spec == Init /\ [][Next]_vars

(***************************************************************************)
(* Properties                                                              *)
(***************************************************************************)

\* A caller holding the read guard returned by a getter sees a slot whose
\* every field was decoded from the reply of its own request: never a mix
\* of an earlier reply's fields with this one's (partial decode of a
\* previous failed call), and never another caller's reply.
ViewConsistent ==
    \A t \in Threads :
        pc[t] = "guard" =>
            \A i \in 1 .. NFields(call[t].slot) :
                infos[call[t].user][call[t].slot][i] = call[t].resp

\* Spec 4.4, 7 and 8: a refresh that fails leaves the slot's previous
\* contents untouched ("the write section is never partially applied").
RefreshFailurePreservesPrior ==
    [][\A t \in Threads :
         (pc[t] = "received" /\ pc'[t] = "idle")
            => infos'[call[t].user][call[t].slot]
                 = infos[call[t].user][call[t].slot]]_vars

=============================================================================
