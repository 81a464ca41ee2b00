------------------------- MODULE MCPluginLifecycle -------------------------
(***************************************************************************)
(* Two sequences, two pipelines and two registrations: enough for a second *)
(* sequence to interfere, for a registration to replace another and for    *)
(* rules of an older pipeline to be left behind.                           *)
(***************************************************************************)
EXTENDS PluginLifecycle

CONSTANTS s1, s2, p1, p2, t1, t2

MCSequences == {s1, s2}
MCPipelines == {p1, p2}
MCToolings == {t1, t2}

=============================================================================
