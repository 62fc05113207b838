------------------------ MODULE SubscriptionClient ------------------------
(***************************************************************************)
(* Subscription::subscribe and Subscription::unsubscribe (connect.rs),     *)
(* reached through Connect::subscribe / Connect::unsubscribe.  Each call   *)
(* builds a request parcel, sends it, and decodes the reply parcel with    *)
(* the TypedValue decoders.  A reply is any parcel the service may send:   *)
(* the MC module lists well-formed, truncated and error replies.           *)
(*                                                                         *)
(* Both take `&self`, so threads sharing a Connect may call them at once;  *)
(* the calls share no state, and only a decoder panic, which ends the      *)
(* process, reaches the other threads.                                     *)
(*                                                                         *)
(* Connect::new always stores Some(remote_obj), so the `remote` None       *)
(* branch of both calls is unreachable through Connect and left out.       *)
(***************************************************************************)
EXTENDS TypedValue

CONSTANTS
    Threads,        \* threads calling through one shared Connect
    SubReplies,     \* reply parcels to a Subscribe request
    UnsubReplies    \* reply parcels to an Unsubscribe request

VARIABLES
    pc,         \* pc[t]: "idle"; "sent" while t's call waits for its reply;
                \* "crashed" once a decoder panicked (the whole process)
    op,         \* op[t]: "subscribe" or "unsubscribe"
    reply,      \* reply[t]: the reply parcel of t's current call
    outcome     \* outcome[t]: [kind, val], what t's last call returned

vars == <<pc, op, reply, outcome>>

\* Errors: a Vec<Error>.  Its Deserialize is outside ipc_conn; it is taken
\* to be the vec layout of every other Vec here: a count, then one i32
\* code per error.
DecErrors(p, i) == DecVec(p, i, ReadW32)

Outcomes == {"none", "ok", "err_request", "err", "panic"}

NoOutcome == [kind |-> "none", val |-> <<>>]

Init ==
    /\ pc = [t \in Threads |-> "idle"]
    /\ op = [t \in Threads |-> "subscribe"]
    /\ reply = [t \in Threads |-> <<>>]
    /\ outcome = [t \in Threads |-> NoOutcome]

\* No thread runs once the process has panicked.
Alive == \A t \in Threads : pc[t] # "crashed"

\* t's call returns (kind, v); a panic ends the process instead.
Return(t, kind, v) ==
    /\ pc' = IF kind = "panic" THEN [x \in Threads |-> "crashed"]
                                ELSE [pc EXCEPT ![t] = "idle"]
    /\ outcome' = [outcome EXCEPT ![t] = [kind |-> kind, val |-> v]]
    /\ UNCHANGED op

(***************************************************************************)
(* Actions                                                                 *)
(***************************************************************************)

\* MsgParcel::new, the parcel writes and send_request succeed: subscribe
\* writes expiration, bundle name and databases, unsubscribe the
\* UnsubscriptionInfo map.
Send(t, o) ==
    /\ Alive /\ pc[t] = "idle"
    /\ pc' = [pc EXCEPT ![t] = "sent"]
    /\ op' = [op EXCEPT ![t] = o]
    /\ reply' = [reply EXCEPT ![t] = <<>>]
    /\ outcome' = [outcome EXCEPT ![t] = NoOutcome]

\* MsgParcel::new fails (CreateMsgParcelFailed), a write fails
\* (WriteMsgParcelFailed) or send_request fails (SendRequestFailed).
RequestFailed(t, o) ==
    /\ Alive /\ pc[t] = "idle"
    /\ op' = [op EXCEPT ![t] = o]
    /\ reply' = [reply EXCEPT ![t] = <<>>]
    /\ outcome' = [outcome EXCEPT ![t] = [kind |-> "err_request", val |-> <<>>]]
    /\ UNCHANGED pc

\* The subscribe reply p: an i32 status (unreadable: ReadMsgParcelFailed);
\* status 0 followed by a SubscriptionResult that decodes is Ok; anything
\* else is Err([ReadMsgParcelFailed]).  A panic in the decoder unwinds out
\* of the call.
SubscribeReply(t, p) ==
    LET st == ReadW32(p, 1)
        res == DecSubscriptionResult(p, st.next)
    IN /\ Alive /\ pc[t] = "sent" /\ op[t] = "subscribe"
       /\ reply' = [reply EXCEPT ![t] = p]
       /\ CASE ~st.ok -> Return(t, "err", <<>>)
            [] st.val # 0 -> Return(t, "err", <<>>)
            [] IsPanic(res) -> Return(t, "panic", <<>>)
            [] res.ok -> Return(t, "ok", res.val)
            [] OTHER -> Return(t, "err", <<>>)

\* The unsubscribe reply p: `if let Ok(errs) = receive.read::<Errors>()`
\* returns Err(errs); a reply from which no Errors can be read is Ok(()).
UnsubscribeReply(t, p) ==
    LET errs == DecErrors(p, 1)
    IN /\ Alive /\ pc[t] = "sent" /\ op[t] = "unsubscribe"
       /\ reply' = [reply EXCEPT ![t] = p]
       /\ IF errs.ok THEN Return(t, "err", errs.val) ELSE Return(t, "ok", <<>>)

Next ==
    \E t \in Threads :
        \/ \E o \in {"subscribe", "unsubscribe"} : Send(t, o) \/ RequestFailed(t, o)
        \/ \E p \in SubReplies : SubscribeReply(t, p)
        \/ \E p \in UnsubReplies : UnsubscribeReply(t, p)

Spec == Init /\ [][Next]_vars

(***************************************************************************)
(* Properties                                                              *)
(***************************************************************************)

\* Spec section 5: unsubscribe fails exactly when the reply carries a
\* non-empty error list, and succeeds otherwise.
UnsubscribeErrIffErrors ==
    \A t \in Threads :
        LET errs == DecErrors(reply[t], 1)
        IN (op[t] = "unsubscribe" /\ outcome[t].kind \in {"ok", "err"}) =>
              (outcome[t].kind = "err" <=> errs.ok /\ errs.val # <<>>)

=============================================================================
