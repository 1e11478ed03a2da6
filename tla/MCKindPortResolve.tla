-------------------------- MODULE MCKindPortResolve --------------------------
(***************************************************************************)
(* A pod with container ports http = 80 and admin = 9000, and a service   *)
(* in front of it: web 8080 -> http, api 9090 -> 9000, mgmt 9000 with no *)
(* targetPort.  The tokens cover numeric and named ports, tokens with and *)
(* without a local part, a port the service does not declare, a local    *)
(* port asked for twice and one another process holds.                    *)
(***************************************************************************)
EXTENDS KindPortResolve, TLC

CONSTANTS http, admin, web, api, mgmt

MCPortNames == {http, admin, web, api, mgmt}

MCPodPorts == {[name |-> http, port |-> 80], [name |-> admin, port |-> 9000]}

MCSvcPorts ==
  {[name |-> web, port |-> 8080, target |-> http],
   [name |-> api, port |-> 9090, target |-> 9000],
   [name |-> mgmt, port |-> 9000, target |-> 0]}

MCTokens ==
  {<<80>>, <<8080>>, <<9000>>, <<7>>, <<http>>, <<web>>,
   <<5000, 9090>>, <<5000, web>>, <<6000, 80>>}

\* Local port 6000 is held by another process.
MCBusy == {6000}

MCBusyNone == {}

\* Resource names "a-b", "a/b" and "ab", as sequences of characters.
MCNameDash == <<"a", "-", "b">>
MCNameSlash == <<"a", "/", "b">>
MCNamePlain == <<"a", "b">>

MCNamesOne == {MCNameDash}
MCNamesTwo == {MCNameDash, MCNameSlash, MCNamePlain}

MCTokensOne == {<<80>>}

=============================================================================
