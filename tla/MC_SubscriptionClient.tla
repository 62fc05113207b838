----------------------- MODULE MC_SubscriptionClient -----------------------
(***************************************************************************)
(* Replies for SubscriptionClient: the SubscriptionResult of               *)
(* ut_connect_subscribe's shape (one alias with two pairs, one with none), *)
(* in both HashMap orders, after status 0 or 1; a reply that ends after    *)
(* the status; an empty reply; and a payload whose first pair count is     *)
(* negative.                                                               *)
(***************************************************************************)
EXTENDS SubscriptionClient, TLC

SA == <<97>>            \* "a"
SB == <<98>>            \* "b"
SEmpty == <<>>
Key1 == <<107, 101, 121, 49>>   \* "key1"
Key2 == <<107, 101, 121, 50>>   \* "key2"

Result ==
    [interval |-> 10,
     subs |-> (Key1 :> << <<SA, SB>>, <<SB, SEmpty>> >>) @@ (Key2 :> <<>>)]

Payloads == EncSubscriptionResults(Result)

\* The payload with the first pair count (token 4) replaced by -1.
NegativeCount(p) == [p EXCEPT ![4] = W32(-1)]

MCSubReplies ==
    {<<>>, <<W32(0)>>}
    \cup {<<W32(s)>> \o p : s \in {0, 1}, p \in Payloads}
    \cup {<<W32(0)>> \o NegativeCount(p) : p \in Payloads}

\* Unsubscribe: no payload, an empty error list, one error (code 7).
MCUnsubReplies == {<<>>, <<W32(0)>>, <<W32(1), W32(7)>>}

=============================================================================
