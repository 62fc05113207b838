------------------------------ MODULE InfoSlots ------------------------------
(***************************************************************************)
(* The three cached slots of `Infos` (connect.rs) and the fields each      *)
(* slot's reply reader assigns, in order, with the partial writes a failed *)
(* read can leave.  InfoCache abstracts a slot's contents to these fields; *)
(* SlotRead checks the partial-write sets against the readers themselves.  *)
(***************************************************************************)
EXTENDS Naturals, Sequences

Slots == {"app_infos", "service_info", "app_schema"}

\* The fields each slot's reply decoder assigns, in decoding order.
FieldsOf == [app_infos    |-> <<"map">>,
             service_info |-> <<"enable_cloud", "account_id", "total_space",
                                "remain_space", "user">>,
             app_schema   |-> <<"version", "bundle_name", "databases">>]

NFields(s) == Len(FieldsOf[s])

\* get_app_brief_info decodes the whole AppInfos map first and assigns
\* `lock.0` only once it decoded, so a failed decode writes nothing.
AppInfosPartial == {0}

\* Mutant: off by one: a failure reading `user`, the fifth field, taken
\* to leave at most three fields overwritten.
ServiceInfoPartialShort == 0 .. 3

\* ServiceInfo::read assigns enable_cloud, account_id, total_space,
\* remain_space, user in turn; a failed read of field k+1 returns with
\* fields 1..k already overwritten.
ServiceInfoPartial == 0 .. 4

\* Schema::read first reads a status (non-zero or unreadable: nothing is
\* written), then assigns version, bundle_name, databases in turn.
SchemaPartial == 0 .. 2

PartialWrites == [app_infos    |-> AppInfosPartial,
                  service_info |-> ServiceInfoPartial,
                  app_schema   |-> SchemaPartial]

=============================================================================
