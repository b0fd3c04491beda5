-------------------------- MODULE MCSlackWorkspace --------------------------
(* SlackWorkspace with two users and two ids to draw, for a few calls.       *)
EXTENDS SlackWorkspace

\* A pair in both orders, one user, and one user named twice.
MCLists == {<<1, 2>>, <<2, 1>>, <<1>>, <<1, 1>>}

\* Fixtures bring old timestamps; one of them brings the same one twice.
MCBatches ==
  {[channels |-> {General}, messages |-> <<>>],
   [channels |-> {},        messages |-> <<<<0, 1>>, <<0, 2>>>>],
   [channels |-> {},        messages |-> <<<<0, 1>>, <<0, 1>>>>]}
=============================================================================
