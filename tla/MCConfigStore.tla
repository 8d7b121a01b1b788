--------------------------- MODULE MCConfigStore ---------------------------
(***************************************************************************)
(* An instance of ConfigStore for TLC: files that are a configuration, one *)
(* part longer than one, cut short, so short that a packet holds it, and   *)
(* not signed.                                                             *)
(***************************************************************************)
EXTENDS ConfigStore

Uploads == {<<"s", "s", "s", "s">>, <<"s", "default", "s", "s", "s">>, <<"s", "s">>, <<"s">>,
            <<"junk", "s", "s", "s">>}

=============================================================================
