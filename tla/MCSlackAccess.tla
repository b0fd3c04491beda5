---------------------------- MODULE MCSlackAccess ----------------------------
(***************************************************************************)
(* Two codes, a registered and an unregistered client, a method whose       *)
(* scopes are fixed and one that looks first; time passes two windows.      *)
(***************************************************************************)
EXTENDS SlackAccess

CONSTANTS c1, c2, app, stranger, here, elsewhere, code, token, none

MCCodes == {c1, c2}
MCGrants == {code}
MCSeeded == {token}
MCClients == {app, stranger}
MCRegistered == {app}
MCUris == {here, elsewhere}
MCRequests == {
  [client |-> app, redirect |-> here, scope |-> {"chat:write", "channels:read"}],
  [client |-> stranger, redirect |-> here, scope |-> {"chat:write"}]}
MCMethods == {"chat.postMessage", "conversations.info", "chat.unfurl"}
MCScopesOf == [m \in MCMethods |->
  IF m = "chat.postMessage" THEN {"chat:write"}
  ELSE IF m = "conversations.info" THEN {"channels:read"} ELSE {"links:write"}]
MCLimited == {"chat.postMessage", "conversations.info"}
MCLimit == [m \in MCLimited |-> 2]
MCStubs == {"chat.unfurl"}
MCLookFirst == {"conversations.info"}
MCCallers == {<<"bot", c1>>}
=============================================================================
