---------------------------- MODULE MCEggpoolPlane ----------------------------
EXTENDS EggpoolPlane

(* A panicked fetch fails both planes anyway.                                *)
MCOutcomes == {[summary |-> TRUE, health |-> TRUE]}

(* Opening the pane on either window, a manual refresh, closing it.          *)
Ask(active, period, refresh) ==
    [active |-> active, period |-> period, refresh |-> refresh]
MCAsks ==
    {Ask(TRUE, 1, FALSE), Ask(TRUE, 2, FALSE), Ask(TRUE, 2, TRUE), Ask(FALSE, 1, FALSE)}
=============================================================================
