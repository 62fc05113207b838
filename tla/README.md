# TLA+ models of `ylong_cloud_extension::ipc_conn`

These modules model the IPC client in
`src/services/distributeddataservice/rust/ylong_cloud_extension/src/ipc_conn/`
(`connect.rs`, `asset.rs`). That client talks to the cloud service process over
`ipc_rust` MsgParcels. TLC checks the models.

## The system

The client has these parts (spec.md §1–§5):

| Part | Code | What it does |
|---|---|---|
| Wire primitives | `ipc_rust` MsgParcel, `vec_raw_*`, `string_hash_map_raw_*` (not in the sources) | i32/u32/bool as 4-byte words, i64/u64/f64, String16 (UTF-16), `Vec<u8>`, count-prefixed vecs and string-keyed maps |
| Payload codecs | `Serialize`/`Deserialize` impls in `connect.rs`, `asset.rs` | tag-coded enums (AssetStatus, SwitchStatus, FieldType, FieldRaw), structs in fixed field order (CloudAsset, Response, Field, OrderTable, Database), collections (CloudAssets, ValueBucket, SubscriptionResult) |
| AssetTransferClient | `AssetLoader::new/download/upload` (`asset.rs` 195–322) | one batched request; the reply is a count, then for each item an Error code and, after Success, a CloudAsset |
| InfoCache | `Connect::new`, `get_app_brief_info`, `get_service_info`, `get_app_schema` (`connect.rs` 759–870) | per-user `Infos` with three `RwLock` slots; each getter takes the slot's write lock, decodes the reply into the slot, drops the lock and returns a read guard |
| SubscriptionClient | `Subscription::subscribe/unsubscribe` via `Connect` (`connect.rs` 689–753, 872–889) | status-prefixed subscribe reply; unsubscribe reads an optional error list |
| CloudAsset accessors | `CloudAsset::id` … `set_hash` (`asset.rs` 41–121) | getters and setters named for the caller's meaning (`local_path`) bound to struct fields (`sub_path`) |
| Transport | `ConnectService`, `RemoteObj::send_request` (FFI) | an external collaborator: sends a request and returns a reply or an error |

How the parts interact:
- Every client encodes its request and decodes its reply with the payload codecs.
- The codecs are built on the wire primitives.
- The getters share the InfoCache through `&mut Connect`. The returned `RwLockReadGuard` borrows `Connect`, so a caller keeps exclusive use of `Connect` until it drops the guard.
- `subscribe`/`unsubscribe` and `download`/`upload` take `&self`, so they can run concurrently.

## Modules

- **WireCodec.tla** models the parcel primitives.
  - A parcel is a sequence of tokens `<<kind, value>>`.
  - A read at position `i` returns `[ok, val, next]`.
  - Strings are code-point sequences, and `Utf16`/`FromUtf16` perform the real surrogate-pair conversion.
  - Vecs and maps are count-prefixed. `EncMaps` gives one encoding per key order, because HashMap iteration order is unspecified.
  - Map decoding rejects a duplicate key (spec §2).
  - `Panicked` is the result of a decoder that panics.
  - The primitives themselves are outside the sources, so they are modelled from the spec (`spec_modelled` in PROJECT.json).
- **TypedValue.tla** holds one operator per `serialize`/`deserialize` in the sources, translated line by line in their read and write order, with every `?` failure. This includes the decode-only `AppInfo`, `AppInfos`, `ValueBuckets`, `CloudData`, `Schema` and the request-only `UnsubscriptionInfo`. The other side of these (the service's writer or reader) is written from the layout the code expects and marked `spec_modelled`.
- **ParcelExchange.tla** is a state machine.
  - `Write(k, v, p)`: a writer serializes a value of kind `k` into parcel `p`.
  - `Corrupt(i, w)`: a word of the parcel may be overwritten.
  - `Read`: the reader deserializes the parcel.
  - MC_ParcelExchange.tla supplies the values. They follow the unit tests (default CloudAsset, `{"key1": Null, "key2": Number(1)}`), plus values whose adjacent fields all differ, strings with a surrogate pair, i64 at the i32 limit and every enum variant.
- **AssetLoader.tla** models `AssetLoader`.
  - Actions: `New`/`NewFailed`, then per call `BuildRequest`/`BuildFailed`, `Send`/`SendFailed`, `ReadLength`, `ReadItem` (one loop iteration), `ReadFailed` (any `?` on the reply) and `Finish`.
  - A reply is abstracted to its count (possibly negative, possibly missing) and the items actually present. Each item is a code, plus an asset that may be missing after Success.
  - `WellFormed(r)` and `Expected(r)` are the reference: what a reply means, item by item, taken in one step.
- **InfoCache.tla** models the getters with several threads sharing one `Connect`. Each getter takes `&mut self`, and the returned guard keeps that borrow, so getter calls never overlap: the threads only take turns.
  - `Begin` covers `entry().or_default()`, the exclusive borrow and `write()`.
  - The remaining actions are `RequestFailed`, `Send`, `DecodeFail(k)`, `Commit`, `AcquireRead` and `Release`.
  - `DecodeFail(k)` fails after `k` fields were assigned. `k` ranges over the partial writes each decoder can leave: none for AppInfos, 0–4 for ServiceInfo, 0–2 for Schema.
  - A slot's fields are abstracted to the reply each field was last decoded from.
- **InfoSlots.tla** holds the slots, their fields in decoding order, and the partial writes a failed read can leave. InfoCache and SlotRead both extend it.
- **SlotRead.tla** composes the slots with the TypedValue decoders. `Refresh(s, v, p)` runs the real reader of slot `s` (`ServiceInfo::read`, `Schema::read` with its status word, or the `AppInfos` assignment) on a reply `p` encoding `v`, whole or cut at any token, into the slot's current contents.
- **SubscriptionClient.tla** models `subscribe`/`unsubscribe`.
  - Actions: `Send`, `RequestFailed`, `SubscribeReply(p)` and `UnsubscribeReply(p)`.
  - The reply `p` comes from a set of parcels, well-formed and malformed, built with the TypedValue encoders.
  - A decoder panic crashes the whole process (`pc = "crashed"` for every thread).
- Each `MC_*.tla` module gives the constants for TLC.


## Runs

| Run | Expect | What it shows |
|---|---|---|
| InfoCache_safety | pass | `ViewConsistent`: two threads, three slots, two replies. A caller holding a guard sees only its own reply in every field, even after earlier failed refreshes left the slot partly written. Also no deadlock. |
| InfoCache_partial | violation | `RefreshFailurePreservesPrior`: a failed `get_service_info`/`get_app_schema` overwrites a prefix of the slot. |
| AssetLoader | pass | `ResultsFollowReply`: an Ok call returns exactly one result per announced item, in reply order, and none for a negative count. `ItemErrorNotFatal`: an item error code never fails the batch; a call fails exactly when the reply is malformed. |
| ParcelExchange | pass | `TypeOK`: the wire carries well-formed tokens, strings as UTF-16 units. `RoundTrip`: 18 payload types come back equal and the whole parcel is consumed, for every HashMap order. `MalformedRejected`: a tag or count damaged to -1 or 8 is an error. |
| ParcelExchange_field | violation | `RoundTrip` for `Field`: col_name and alias come back swapped. |
| ParcelExchange_panic | violation | `NoPanic`: a SubscriptionResult whose pair count is damaged to -1 panics in `Vec::with_capacity`. |
| ParcelExchange_capacity | violation | `NoPanic`: a SubscriptionResult whose pair count is damaged to i32::MAX, with no pairs behind it, panics in `Vec::with_capacity` on a 32-bit target (`MaxCapacity = 89478485`). |
| SlotRead | pass | `PartialWriteIsPrefix`: after any sequence of refreshes from whole and truncated replies, a refresh leaves the first `k` fields from the reply and the rest unchanged, with `k` all fields on Ok and a member of `PartialWrites` on an error. So InfoCache's `DecodeFail(t, k)` abstraction matches the readers. |
| SubscriptionClient_unsub | violation | `UnsubscribeErrIffErrors`: a reply holding an empty error list is reported as failure. |

Every property of a passing run has a mutant in PROJECT.json: a plausible bug in the mapped code under which TLC finds the property violated. The mutants are:
- a decode error swallowed, so the getter returns a guard over a partly written slot (`ViewConsistent`);
- the loop one item short (`ResultsFollowReply`);
- a `?` on an item's error code, aborting the batch (`ItemErrorNotFatal`);
- Text written without `String16::new` (`TypeOK`);
- uri and sub_path written in swapped order (`RoundTrip`);
- an unknown FieldRaw tag read as Null (`MalformedRejected`);
- an off-by-one in the service-info partial writes (`PartialWriteIsPrefix`).

## Findings

1. **Partial cache refresh** (`connect.rs:633`, `:550`). `ServiceInfo::read` and `Schema::read` assign into the locked slot field by field. A read error leaves the earlier fields replaced. Spec §4.4/§7/§8 say a failed refresh leaves the slot untouched. `ViewConsistent` still holds, because the failing caller gets no guard and the next successful call overwrites every field, so no caller can observe the mix.
2. **Field wire order** (`connect.rs:428` vs `:439`). Serialize writes alias then col_name, and Deserialize reads col_name then alias. The repository's Field test uses a field whose alias equals its col_name, so it cannot see the swap.
3. **Panic on a negative count** (`connect.rs:658`). `length as usize` of a negative i32 makes `Vec::with_capacity` panic on every target. A malformed subscribe reply therefore crashes the process instead of returning an error (spec §7).
4. **Crash on a huge positive count** (`connect.rs:659`). The count is reserved before any pair is read, so a short reply announcing i32::MAX pairs never reaches the read error. On a 32-bit target 2^31-1 × 24 bytes overflows `isize::MAX` and `with_capacity` panics. On 64-bit about 100 GB is requested and the allocation failure aborts. Bounding the capacity by what the parcel can hold, or growing the Vec as pairs are read, would avoid it.
5. **Unsubscribe with an empty error list** (`connect.rs:749`). Any readable `Errors` becomes `Err`, including an empty list. Spec §5 says only a non-empty list is a failure. This assumes `Errors` decodes as a count-prefixed vec; its Deserialize is not in the sources.

## Bounds

- **InfoCache:** one user, two threads and two replies, with symmetry on threads and replies (InfoCache_safety, 199,837 states).
  - The `&mut` borrow, held from `Begin` until the guard is dropped, admits one getter at a time, so more threads add no new orders.
  - Two distinct replies are enough to tell a mixed slot from a consistent one.
  - One user is enough because users share nothing.
- **AssetLoader:** up to 2 items and counts from -1 to 2, with a missing count and a missing asset. This covers negative, zero, short, exact and surplus counts, and error and success items.
- **ParcelExchange:** the values listed above.
  - Nested collections go two deep: Database → OrderTable → Field, and FieldRaw::Assets → CloudAsset.
  - Maps have two keys, so both orders occur.
  - Damaged words are -1 and 8: one is negative and below every range, the other lies past every enum's last code and exceeds every count present.
  - ParcelExchange_panic damages the SubscriptionResultValue pair count to -1, ParcelExchange_capacity to i32::MAX, the largest count the wire allows.
- **SlotRead:** one value per slot whose every field differs from the default, every truncation of its reply, and a Schema reply with status 1. Refreshes repeat, so a slot also starts from contents left by earlier failed reads.
- **SubscriptionClient_unsub:** one thread; the unsubscribe calls of several threads share no state. The replies are an empty parcel, an empty error list and a one-error list.

## Fairness and liveness

No run assumes fairness or checks liveness.
- Every getter, subscribe, unsubscribe, download and upload waits in `send_request`, which is synchronous and has no timeout. The code gives no guarantee that a call returns, so a liveness property would rest on an assumption about the transport and not on this code.
- Once a reply is in, the decoding loops are bounded and local. A "the call eventually returns" property would hold by the shape of the model.
- The getters are serialised by the `&mut self` borrow, so no caller can be starved by another.
- Every passing run checks deadlock. SubscriptionClient_unsub sets `CHECK_DEADLOCK FALSE`, because a decoder panic really ends the process.

## Not modelled

- The FFI and transport (`ConnectService`, `RemoteObj`, `send_request`): they are represented only by their outcomes.
- The CloudAsset accessors (`asset.rs` 41–121): sixteen one-line getters and setters, each reading or assigning one field. There is nothing to interleave. The wire order they feed is checked by `RoundTrip` for CloudAsset.
- The allocator itself. `TypedValue` abstracts it to the build constant `MaxCapacity`: the largest count `Vec::with_capacity::<(String, String)>` survives. Every cfg sets it to 89478485, the 32-bit limit. The 64-bit limit depends on available memory, and TLC cannot compute byte sizes near 2^64.
- The unit tests (`connect.rs` 905–2264, `asset.rs` 323–455). They are more than half of the two files. Each one writes a fixed value and reads it back, which `ParcelExchange` checks for every value, kind and HashMap order. The `test_server_ready` tests need a running service.
- Imports, struct declarations and `#[derive]` lines. Each struct's fields appear as the record fields of its codec.
- The `remote_obj` None branches: `Connect::new` always sets `Some`.
- The vec and map readers (`vec_raw_read`, `string_hash_map_raw_read`) are outside the sources. `DecVec` and `DecMap` follow the spec: they reject a negative count and a duplicate key. This is unverified; the one count reader that is in the sources (`connect.rs:658`) panics on a negative count instead. Spec §9 notes that the code's map likely keeps the last of duplicate keys; no property depends on that choice.
