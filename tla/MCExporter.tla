----------------------------- MODULE MCExporter -----------------------------
(* Small instances of Exporter.                                              *)
EXTENDS ExporterProperties

Budget(f, ch) == [k \in Kinds |-> CASE k = "fault" -> f [] k = "change" -> ch]
SomeFaults == Budget(1, 1)

=============================================================================
