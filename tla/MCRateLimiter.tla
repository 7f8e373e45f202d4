----------------------------- MODULE MCRateLimiter -----------------------------
(* Values for the model checker: a token of three parts, limits that change while
   buckets are in use, one proxy, and a client that forges its header or does not. *)
EXTENDS RateLimiter

MCLimit(capacity, refill) == [capacity |-> capacity, refill |-> refill]
MCConfigured(enabled, chat, auth) ==
  [enabled |-> enabled, limit |-> [r \in Route |-> IF r = "chat" THEN chat ELSE auth]]
MCConfig ==
  {MCConfigured(TRUE, MCLimit(2, 2), MCLimit(1, 2)),
   MCConfigured(TRUE, MCLimit(1, 2), MCLimit(2, 2)),
   MCConfigured(FALSE, MCLimit(2, 1), MCLimit(2, 1))}
MCCeiling == [r \in Route |-> MCLimit(2, 2)]
MCTraffic == {{"chat"}, {"auth"}}   \* their buckets never meet
MCProxy == <<"proxy">>
MCAddress == {"client", "proxy"}
MCHeader == {<<>>, <<"client">>}
================================================================================
