---------------------------- MODULE MCAdminHttp ----------------------------
(* Logins and sessions in one run, event streams in the other. *)
EXTENDS AdminHttp

CONSTANTS c1, c2, near, far, t1, t2, p1, p2

OneConn == {c1}
TwoConns == {c1, c2}
NearAndFar == {near, far}
OneAddress == {near}
OneToken == {t1}
TwoTokens == {t1, t2}
TwoPublishers == {p1, p2}

Settings(networks, password, token) ==
  [networks |-> networks, password |-> password, token |-> token]

LockedPolicies == {Settings(OneAddress, "secret", Unset), Settings(OneAddress, Unset, "api")}
OpenPolicies == {Settings(networks, Unset, Unset) : networks \in {OneAddress, NearAndFar}}

Login(password, close) == Request("login", NoToken, NoToken, password, close)
With(kind, cookie, token) == Request(kind, cookie, token, Unset, FALSE)

LoginRequests ==
  {Login("secret", FALSE), Login("wrong", FALSE)}
    \cup {With("page", t, NoToken) : t \in TwoTokens}
    \cup {With("page", NoToken, t1), With("page", NoToken, "api"), With("page", t1, "api")}
    \cup {With(k, t1, NoToken) : k \in {"logout", "status"}}

StreamRequests ==
  {With("events", NoToken, NoToken), Request("health", NoToken, NoToken, Unset, TRUE),
   With("preflight", NoToken, NoToken)}
=============================================================================
