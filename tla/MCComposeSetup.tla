--------------------------- MODULE MCComposeSetup ---------------------------
(* Stacks for checking ComposeSetup.  s1 publishes container port 1 on an  *)
(* ephemeral host port and container port 2 on host port 5; s2 publishes   *)
(* container port 3; s3 has an empty port list.                           *)
EXTENDS ComposeSetup, TLC

CONSTANTS s1, s2, s3

\* ports: [1, "5:2"] / ports: ["3"] / ports: []
MCDecl == (s1 :> << <<1>>, <<5, 2>> >>) @@ (s2 :> << <<3>> >>) @@ (s3 :> << >>)

\* ports: ["127.0.0.1:5:2"] / ports: ["3"]
MCDeclAddress == (s1 :> << <<Junk, 5, 2>> >>) @@ (s2 :> << <<3>> >>)

\* ports: ["1"] / ports: ["3"]
MCDeclSmall == (s1 :> << <<1>> >>) @@ (s2 :> << <<3>> >>)

\* ports: ["5:1"] / ports: ["6:3"] / ports: ["7:4"]
MCDeclFixed == (s1 :> << <<5, 1>> >>) @@ (s2 :> << <<6, 3>> >>) @@ (s3 :> << <<7, 4>> >>)

=============================================================================
