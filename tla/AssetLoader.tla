---------------------------- MODULE AssetLoader ----------------------------
(***************************************************************************)
(* The batched asset transfer client `AssetLoader` (ipc_conn/asset.rs).    *)
(*                                                                         *)
(* AssetLoader::new connects to the service and asks it for the asset      *)
(* loader's remote object.  download and upload (identical apart from the  *)
(* function number) write table, gid, prefix and the assets, send one      *)
(* request, and decode the reply: an i32 count, then for each of `count`   *)
(* items an Error code, followed by a CloudAsset when the code is Success. *)
(* A failed read anywhere fails the whole call; an item whose code is not  *)
(* Success only becomes that item's Err.                                   *)
(*                                                                         *)
(* A reply is abstracted to what the decoder reads from it: `len` is the   *)
(* count (NoLen when the parcel ends before it), `items` the items present *)
(* in the parcel, each a code and the asset after it (NoAsset when the     *)
(* parcel ends right after a Success code).  Items past the end of `items` *)
(* are missing from the parcel.                                            *)
(***************************************************************************)
EXTENDS Integers, Sequences

CONSTANTS
    Assets,     \* CloudAsset values a reply can carry
    Errs,       \* Error codes other than Success
    Success,    \* model value: Error::Success
    NoLen,      \* model value: the reply ends before its count
    NoAsset,    \* model value: the reply ends after a Success code
    MaxItems    \* bound on the count and on the items in a reply

ASSUME Success \notin Errs /\ MaxItems \in Nat

VARIABLES
    loader,     \* "none" before AssetLoader::new succeeded, then "ready"
    pc,         \* where the current download / upload is
    func,       \* function number of the current call: Download or Upload
    reply,      \* the reply parcel of the current call
    idx,        \* items decoded so far (the `for _ in 0..length` counter)
    results,    \* the `results` vector being built
    outcome,    \* what the last call returned to its caller
    returned    \* the Vec returned by the last Ok call

vars == <<loader, pc, func, reply, idx, results, outcome, returned>>

Item == [code : {Success}, asset : Assets \cup {NoAsset}]
        \cup [code : Errs, asset : {NoAsset}]

Replies == [len : {NoLen} \cup -1 .. MaxItems,
            items : UNION {[1 .. n -> Item] : n \in 0 .. MaxItems}]

\* The number of iterations of `for _ in 0..length` for an i32 length.
Count(n) == IF n < 0 THEN 0 ELSE n

EmptyReply == [len |-> 0, items |-> <<>>]

Init ==
    /\ loader = "none"
    /\ pc = "idle"
    /\ func = "Download"
    /\ reply = EmptyReply
    /\ idx = 0
    /\ results = <<>>
    /\ outcome = "none"
    /\ returned = <<>>

\* Returns an error from download / upload; `results` is dropped.
Fail(kind) ==
    /\ pc' = "idle"
    /\ outcome' = kind
    /\ results' = <<>>
    /\ UNCHANGED <<loader, func, reply, idx, returned>>

(***************************************************************************)
(* Actions                                                                 *)
(***************************************************************************)

\* AssetLoader::new: ConnectService, send ConnectAssetLoader, read the
\* loader's RemoteObj.  Success stores it in `remote_obj`.
New ==
    /\ loader = "none"
    /\ loader' = "ready"
    /\ outcome' = "none"
    /\ UNCHANGED <<pc, func, reply, idx, results, returned>>

\* AssetLoader::new fails: no proxy object, send_request fails, or the
\* reply holds no RemoteObj.
NewFailed ==
    /\ loader = "none"
    /\ outcome' = "err_new"
    /\ UNCHANGED <<loader, pc, func, reply, idx, results, returned>>

\* download / upload writes table, gid, prefix and the assets into a new
\* MsgParcel.
BuildRequest(f) ==
    /\ loader = "ready"
    /\ pc = "idle"
    /\ pc' = "built"
    /\ func' = f
    /\ outcome' = "none"
    /\ UNCHANGED <<loader, reply, idx, results, returned>>

\* MsgParcel::new or one of the four writes fails (CreateMsgParcelFailed,
\* WriteMsgParcelFailed).
BuildFailed ==
    /\ loader = "ready"
    /\ pc = "idle"
    /\ Fail("err_request")

\* send_request with function number Download / Upload returns reply r.
Send(r) ==
    /\ pc = "built"
    /\ pc' = "sent"
    /\ reply' = r
    /\ UNCHANGED <<loader, func, idx, results, outcome, returned>>

\* send_request fails (SendRequestFailed).
SendFailed ==
    /\ pc = "built"
    /\ Fail("err_request")

\* `receive.read::<i32>()` reads the count; `results` starts empty.
ReadLength ==
    /\ pc = "sent"
    /\ reply.len # NoLen
    /\ pc' = "loop"
    /\ idx' = 0
    /\ results' = <<>>
    /\ UNCHANGED <<loader, func, reply, outcome, returned>>

\* Mutant: an item's error code aborts the whole call, as a `?` on the
\* item's Error would.
ReadItemAbortOnError ==
    LET it == reply.items[idx + 1]
    IN /\ pc = "loop"
       /\ idx < Count(reply.len)
       /\ idx + 1 <= Len(reply.items)
       /\ it.code = Success => it.asset # NoAsset
       /\ IF it.code = Success
             THEN /\ results' = Append(results, [ok |-> TRUE, val |-> it.asset])
                  /\ idx' = idx + 1
                  /\ UNCHANGED <<loader, pc, func, reply, outcome, returned>>
             ELSE Fail("err_decode")

\* One loop iteration whose reads succeed: an error code is pushed as
\* Err(code); Success is followed by a CloudAsset pushed as Ok(asset).
ReadItem ==
    LET it == reply.items[idx + 1]
    IN /\ pc = "loop"
       /\ idx < Count(reply.len)
       /\ idx + 1 <= Len(reply.items)
       /\ it.code = Success => it.asset # NoAsset
       /\ results' = Append(results,
                       IF it.code = Success THEN [ok |-> TRUE, val |-> it.asset]
                                            ELSE [ok |-> FALSE, val |-> it.code])
       /\ idx' = idx + 1
       /\ UNCHANGED <<loader, pc, func, reply, outcome, returned>>

\* A read of the reply fails: the count, an item's code, or the CloudAsset
\* after a Success code is missing (ReadMsgParcelFailed).
ReadFailed ==
    /\ \/ pc = "sent" /\ reply.len = NoLen
       \/ /\ pc = "loop"
          /\ idx < Count(reply.len)
          /\ \/ idx + 1 \notin DOMAIN reply.items
             \/ /\ idx + 1 \in DOMAIN reply.items
                /\ reply.items[idx + 1] = [code |-> Success, asset |-> NoAsset]
    /\ Fail("err_decode")

\* Mutant: the loop stops one item short (`0..length - 1`).
FinishEarly ==
    /\ pc = "loop"
    /\ idx + 1 >= Count(reply.len)
    /\ pc' = "idle"
    /\ outcome' = "ok"
    /\ returned' = results
    /\ UNCHANGED <<loader, func, reply, idx, results>>

\* The loop has run `length` times: Ok(results).
Finish ==
    /\ pc = "loop"
    /\ idx >= Count(reply.len)
    /\ pc' = "idle"
    /\ outcome' = "ok"
    /\ returned' = results
    /\ UNCHANGED <<loader, func, reply, idx, results>>

Next ==
    \/ New
    \/ NewFailed
    \/ \E f \in {"Download", "Upload"} : BuildRequest(f)
    \/ BuildFailed
    \/ \E r \in Replies : Send(r)
    \/ SendFailed
    \/ ReadLength
    \/ ReadItem
    \/ ReadFailed
    \/ Finish

Spec == Init /\ [][Next]_vars

(***************************************************************************)
(* Reference: what a reply means                                           *)
(***************************************************************************)

\* The reply holds its count and, for each of the first `count` items, the
\* code and (after Success) the asset.
WellFormed(r) ==
    /\ r.len # NoLen
    /\ Count(r.len) <= Len(r.items)
    /\ \A i \in 1 .. Count(r.len) :
          r.items[i].code = Success => r.items[i].asset # NoAsset

\* The per-item outcomes a well-formed reply stands for, in reply order.
Expected(r) ==
    [i \in 1 .. Count(r.len) |->
        IF r.items[i].code = Success THEN [ok |-> TRUE, val |-> r.items[i].asset]
                                     ELSE [ok |-> FALSE, val |-> r.items[i].code]]

(***************************************************************************)
(* Properties                                                              *)
(***************************************************************************)

\* An Ok download / upload returns exactly one result per item the reply's
\* count announces (none for a negative count), each the item's own
\* outcome, in reply order: the caller correlates results by position.
\* (An Ok for a reply short of its announced items fails this too.)
ResultsFollowReply ==
    outcome = "ok" => WellFormed(reply) /\ returned = Expected(reply)

\* A per-item error code never fails the batch: once a reply arrived, the
\* call fails exactly when a read of the reply fails, and succeeds whenever
\* the reply is well-formed, whatever codes its items carry.
ItemErrorNotFatal ==
    /\ outcome = "err_decode" => ~WellFormed(reply)
    /\ outcome = "ok" => WellFormed(reply)

=============================================================================
