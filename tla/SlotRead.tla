------------------------------ MODULE SlotRead ------------------------------
(***************************************************************************)
(* The reply readers that refresh the InfoCache slots in place            *)
(* (connect.rs): ServiceInfo::read and Schema::read assign the locked      *)
(* slot's fields one by one, each `?` returning early; get_app_brief_info  *)
(* decodes a whole AppInfos before assigning `lock.0`.  Each slot is       *)
(* refreshed again and again from replies the service may send, truncated  *)
(* at any token, so a slot can hold what earlier failed reads left.        *)
(*                                                                         *)
(* This composes the slots of InfoCache with the TypedValue decoders: it   *)
(* checks that the partial writes InfoCache assumes (InfoSlots) are the    *)
(* ones the readers really leave.                                          *)
(***************************************************************************)
EXTENDS TypedValue, InfoSlots

CONSTANTS
    Values      \* Values[s]: the contents the service may send for slot s

VARIABLES
    slots,      \* slots[s]: the slot's fields, a record keyed by FieldsOf[s]
    last,       \* the slot refreshed last
    before,     \* its contents before that refresh
    sent,       \* the value the service encoded in the reply
    ok          \* whether the reader returned Ok

vars == <<slots, last, before, sent, ok>>

\* The reads of ServiceInfo::read, in order, each from where the previous
\* one ended.  A read after a failed one starts at position 0 and fails
\* too; the code never performs it, and only the ok prefix is assigned.
ServiceInfoReads(p, i) ==
    LET r1 == ReadBool(p, i)
        r2 == ReadStr(p, r1.next)
        r3 == ReadW64(p, r2.next)
        r4 == ReadW64(p, r3.next)
        r5 == ReadW32(p, r4.next)
    IN <<r1, r2, r3, r4, r5>>

\* The reads of Schema::read after its status word.
SchemaReads(p, i) ==
    LET r1 == ReadW32(p, i)
        r2 == ReadStr(p, r1.next)
        r3 == DecDatabases(p, r2.next)
    IN <<r1, r2, r3>>

\* The number of reads that succeeded before the first failing one.
OkPrefix(rs) ==
    CHOOSE k \in 0 .. Len(rs) :
        /\ \A j \in 1 .. k : rs[j].ok
        /\ k < Len(rs) => ~rs[k + 1].ok

\* `self.<field> = read()?` for each field of slot s in turn: the fields
\* before the first failed read are assigned, the `?` returns there.
AssignReads(s, slot, rs) ==
    LET k == OkPrefix(rs)
        F == FieldsOf[s]
    IN [slot |-> [x \in DOMAIN slot |->
                    IF \E j \in 1 .. k : F[j] = x
                       THEN rs[CHOOSE j \in 1 .. k : F[j] = x].val
                       ELSE slot[x]],
        ok |-> k = Len(rs)]

\* ServiceInfo::read.
ServiceInfoRead(slot, p) == AssignReads("service_info", slot, ServiceInfoReads(p, 1))

\* Schema::read: an unreadable or non-zero status writes nothing.
SchemaRead(slot, p) ==
    LET st == ReadW32(p, 1)
    IN IF st.ok /\ st.val = 0
          THEN AssignReads("app_schema", slot, SchemaReads(p, st.next))
          ELSE [slot |-> slot, ok |-> FALSE]

\* `lock.0 = receive.read::<AppInfos>()?.0`.
AppInfosRead(slot, p) ==
    LET m == DecAppInfos(p, 1)
    IN IF m.ok THEN [slot |-> [slot EXCEPT !.map = m.val], ok |-> TRUE]
               ELSE [slot |-> slot, ok |-> FALSE]

ReadInto(s, slot, p) ==
    CASE s = "service_info" -> ServiceInfoRead(slot, p)
      [] s = "app_schema"   -> SchemaRead(slot, p)
      [] s = "app_infos"    -> AppInfosRead(slot, p)

\* The reply parcels the service may send for v, as written (service side,
\* from the layout the readers expect) and cut short at any token.
EncServiceInfo(v) ==
    <<WBool(v.enable_cloud), Str(v.account_id), W64(v.total_space),
      W64(v.remain_space), W32(v.user)>>

Encoded(s, v) ==
    CASE s = "service_info" -> {EncServiceInfo(v)}
      [] s = "app_schema"   -> {<<W32(st)>> \o EncSchema(v) : st \in {0, 1}}
      [] s = "app_infos"    -> EncAppInfos(v.map)

Replies(s, v) ==
    UNION {{SubSeq(e, 1, n) : n \in 0 .. Len(e)} : e \in Encoded(s, v)}

\* Infos::default().
DefaultSlots ==
    [app_infos    |-> [map |-> <<>>],
     service_info |-> [enable_cloud |-> FALSE, account_id |-> <<>>,
                       total_space |-> 0, remain_space |-> 0, user |-> 0],
     app_schema   |-> [version |-> 0, bundle_name |-> <<>>, databases |-> <<>>]]

Init ==
    /\ slots = DefaultSlots
    /\ last = "service_info"
    /\ before = DefaultSlots["service_info"]
    /\ sent = DefaultSlots["service_info"]
    /\ ok = TRUE

\* One refresh of slot s from a reply p encoding v.
Refresh(s, v, p) ==
    LET r == ReadInto(s, slots[s], p)
    IN /\ slots' = [slots EXCEPT ![s] = r.slot]
       /\ last' = s
       /\ before' = slots[s]
       /\ sent' = v
       /\ ok' = r.ok

Next ==
    \E s \in Slots : \E v \in Values[s] : \E p \in Replies(s, v) : Refresh(s, v, p)

Spec == Init /\ [][Next]_vars

(***************************************************************************)
(* Properties                                                              *)
(***************************************************************************)

\* A refresh leaves the slot with its first k fields taken from the reply
\* and the rest as they were, where k is every field on Ok and one of the
\* partial writes InfoCache models (PartialWrites) on an error: the
\* abstraction InfoCache's DecodeFail(t, k) rests on matches what
\* ServiceInfo::read, Schema::read and get_app_brief_info really do, after
\* any sequence of earlier failed and successful refreshes.
PartialWriteIsPrefix ==
    LET F == FieldsOf[last]
    IN \E k \in (IF ok THEN {NFields(last)} ELSE PartialWrites[last]) :
          \A i \in 1 .. NFields(last) :
              slots[last][F[i]] = IF i <= k THEN sent[F[i]] ELSE before[F[i]]

=============================================================================
