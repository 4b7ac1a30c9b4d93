---------------------------- MODULE MCIEWExecute ----------------------------
(* Small instances of IEWExecute for TLC. *)
EXTENDS IEWExecute

\* Every form, before or after those it can disturb.
MCPairs == {<<"store", "load">>, <<"store", "splitLoad">>, <<"store", "splitStore">>,
            <<"splitStore", "load">>, <<"splitLoad", "load">>, <<"splitLoad", "store">>,
            <<"command", "splitLoad">>, <<"localLoad", "command">>,
            <<"barrier", "splitLoad">>}
MCFenced == {<<"barrier", "load", "load">>}
MCSplit  == {<<"splitLoad">>, <<"splitStore">>}
MCForwarded == {<<"store", "load">>}
=============================================================================
