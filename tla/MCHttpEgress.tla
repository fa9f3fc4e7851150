---------------------------- MODULE MCHttpEgress ----------------------------
(* Two calls over one permit; heads and bodies at, below and above the limits. *)
EXTENDS HttpEgress

Field(name, size, names) == [name |-> name, size |-> size, text |-> TRUE, names |-> names]
Get == [method |-> "GET", parses |-> TRUE, userinfo |-> FALSE, origin |-> "allowed", size |-> 0,
        headers |-> <<Field("accept", 2, {})>>]
MCRequests ==
    {Get, [Get EXCEPT !.method = "TRACE"], [Get EXCEPT !.origin = "other"], [Get EXCEPT !.size = 3],
     [Get EXCEPT !.headers = <<Field("accept", 3, {}), Field("host", 1, {})>>],
     [Get EXCEPT !.headers = <<Field("host", 1, {}), Field("accept", 3, {})>>]}

Reply == [headers |-> <<Field("a", 2, {})>>, length |-> <<>>, size |-> 2, redirected |-> FALSE]
MCResponses ==
    {Reply, [Reply EXCEPT !.size = 3], [Reply EXCEPT !.length = <<3>>], [Reply EXCEPT !.redirected = TRUE],
     [Reply EXCEPT !.size = 0, !.headers = <<Field("connection", 1, {"a"}), Field("a", 2, {})>>],
     [Reply EXCEPT !.size = 0, !.headers = <<[Field("a", 1, {}) EXCEPT !.text = FALSE]>>]}
=============================================================================
