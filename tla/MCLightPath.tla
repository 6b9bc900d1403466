---------------------------- MODULE MCLightPath ----------------------------
EXTENDS LightPath, TLC

CONSTANTS c1, c2, c3

\* The ids of config.json that take part: admiral, reception, laitt, lightctl.
MCServices == {0, 1, 4, 5}

\* One message: c1 and c2 may both send it.
MCCommands == {<<7, 8>>}

\* Strict mode: c1 runs lights on its own host, c2 on one that is not
\* configured, c3 is reception.
MCConnAddr ==
  (c1 :> [ip |-> 5, port |-> 9]) @@
  (c2 :> [ip |-> 6, port |-> 9]) @@
  (c3 :> [ip |-> 1, port |-> 9])
MCServiceAddr == [s \in Services |-> [ip |-> s, port |-> s]]

LightsMenu == <<{InitPacket}, {ClaimPacket}, {CommandPacket(m) : m \in Commands}>>

\* c3 sends laitt a message, and then another one or a TERM, which admiral cannot
\* forward.
ReceptionMenu ==
  <<{InitPacket}, {Build(TypeSend, ArgSend, <<Admiral, 1>>)},
    {Build(TypeSend, ArgSend, <<Laitt, 1, 5, 6>>)},
    {Build(TypeTerm, ArgTermClean, <<Laitt, 1>>),
     Build(TypeSend, ArgSend, <<Laitt, 1, 8, 7>>)}>>

MCMenu == (c1 :> LightsMenu) @@ (c2 :> LightsMenu) @@ (c3 :> ReceptionMenu)
=============================================================================
