----------------------------- MODULE MCSelector -----------------------------
(* An instance of Selector: relays 1 and 2 form the general pool, 3 and 4    *)
(* belong to an SMTP detail, 4 kept out of rotation.                         *)
EXTENDS Selector, TLC

MCWeight == <<2, 0, 1, 1>>
MCPriority == <<2, 1, 1, 1>>
MCInRotation == <<TRUE, TRUE, TRUE, FALSE>>
MCDetailOf == <<"", "", "news", "d1">>

\* The second detail has no relays: its mail is general mail.
MCDetails ==
  <<[id |-> "d1", label |-> "news", hostname |-> "news.example", username |-> "bob"],
    [id |-> "d2", label |-> "", hostname |-> "shop.example", username |-> "eve"]>>

MCRules ==
  <<[domain |-> <<"com", "big">>, wildcard |-> TRUE, relays |-> <<2, 1>>],
    [domain |-> <<"com", "big", "mx">>, wildcard |-> FALSE, relays |-> <<3, 1>>]>>

MCRequests ==
  {[user |-> "bob", helo |-> "", sender |-> <<"s1">>, senderDomain |-> "", domain |-> <<"com", "big", "www">>],
   [user |-> "", helo |-> "", sender |-> <<"s2">>, senderDomain |-> "shop.example", domain |-> <<"com", "big", "mx">>],
   [user |-> "", helo |-> "there", sender |-> <<"s2">>, senderDomain |-> "", domain |-> <<"org">>]}

MCHash == [key \in {<<"s1">>, <<"s2">>, <<"org">>, <<"com", "big", "mx">>, <<"com", "big", "www">>} |->
             CASE key = <<"s1">> -> 1 [] key = <<"s2">> -> 7 [] key = <<"org">> -> 4 [] OTHER -> 3]

Routing(strategy, sticky, fallback) ==
  [strategy |-> strategy, sticky |-> sticky, fallback |-> fallback]

MCRoutings ==
  {Routing("weighted", "none", TRUE), Routing("round_robin", "none", FALSE),
   Routing("round_robin", "sender", TRUE), Routing("least_used", "recipient_domain", FALSE),
   Routing("failover", "none", TRUE)}
=============================================================================
