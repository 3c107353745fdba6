------------------------- MODULE MCDatabaseLifecycle -------------------------
EXTENDS DatabaseLifecycle

(* Before and after every migration that needs or removes something of rows. *)
MCStops == {0, 1, 2, 4, 5, 8, 13, 14}

=============================================================================
