--------------------------- MODULE MCHttpExchange ---------------------------
(***************************************************************************)
(* HttpExchange for TLC: requests of each shape and handlers that differ.  *)
(***************************************************************************)
EXTENDS HttpExchange

Request(method, path, headers, body) ==
    [method |-> <<method>>, url |-> path, version |-> <<"HTTP/1.1">>,
     headers |-> headers, body |-> body]

Root == <<"/">>

MCPaths == {Root}

Host == << <<"Host">>, <<"localhost">> >>

HostAndPort == << <<"Host">>, <<"localhost", ":", "8080">> >>

Agent == << <<"User-Agent">>, <<"curl", " ", "8">> >>

(* Without a body; the second has a header with a colon in its value. *)
MCRequests ==
    { Request("GET", Root, <<>>, <<>>),
      Request("GET", Root, <<HostAndPort, Agent>>, <<>>),
      Request("POST", Root, <<Host>>, <<>>),
      Request("GET", <<"/", "x">>, <<Agent>>, <<>>) }

MCHandlers ==
    { [code |-> "200", type |-> "text/plain", text |-> <<"Hello,", " ", "World!">>],
      [code |-> "200", type |-> "text/html", text |-> <<>>] }
=============================================================================
