----------------------------- MODULE MCCleanup -----------------------------
(***************************************************************************)
(* Cleanup for TLC: the four releases of the plan, one of the eight        *)
(* ancillary namespaces, one namespace that carries the chart's labels,    *)
(* the hub's or a kept one, one webhook of each origin.                    *)
(***************************************************************************)
EXTENDS Cleanup

Request(level, keepQ, keepC) ==
    [level |-> level, keepQueue |-> keepQ, keepCertManager |-> keepC]

FullOnly      == {Request("full", FALSE, FALSE)}
UninstallOnly == {Request("uninstall", FALSE, FALSE)}
FullKeeping   == {Request("full", FALSE, TRUE)}
AllLevels     == {Request("uninstall", FALSE, FALSE), Request("full", FALSE, TRUE),
                  Request("reset", FALSE, FALSE)}
=============================================================================
