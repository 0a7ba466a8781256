--------------------------- MODULE MCRootCommands ---------------------------
(***************************************************************************)
(* Instance for TLC of RootCommands: two runs of harden over one weak and  *)
(* two strong host keys, or an audit of two files.                         *)
(***************************************************************************)
EXTENDS RootCommands

MCWeakOrder == <<"dsa">>
MCStrongOrder == <<"ed25519", "rsa">>

\* Two users with a file each, or with one home.
MCVisits == {<<"p", "q">>, <<"p", "p">>}

\* Two lines with one key, a key ssh-keygen cannot read, a weak one.
MCKey == [A |-> "a", A2 |-> "a", U |-> "", W |-> "w"]
=============================================================================
