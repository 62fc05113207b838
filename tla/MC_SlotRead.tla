----------------------------- MODULE MC_SlotRead -----------------------------
(* Model-checking instance of SlotRead: for each slot, one value whose     *)
(* every field differs from the default, so each overwritten field shows. *)
EXTENDS SlotRead, TLC

SA == <<97>>
SFace == <<128512>>
Key1 == <<107, 101, 121, 49>>

Field1 == [col_name |-> SA, alias |-> SA, typ |-> "Text",
           primary |-> TRUE, nullable |-> FALSE]
Db1 == [alias |-> SA, name |-> SFace,
        tables |-> <<[alias |-> SA, table_name |-> SA, fields |-> <<Field1>>]>>]
App1 == [app_id |-> SA, bundle_name |-> SFace, cloud_switch |-> TRUE,
         instance_id |-> 3]

MCValues ==
    [service_info |-> {[enable_cloud |-> TRUE, account_id |-> SFace,
                        total_space |-> 5, remain_space |-> 2, user |-> 100]},
     app_schema   |-> {[version |-> 1, bundle_name |-> SA, databases |-> <<Db1>>]},
     app_infos    |-> {[map |-> Key1 :> App1]}]
=============================================================================
