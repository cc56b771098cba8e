----------------------------- MODULE Conversion -----------------------------
(***************************************************************************)
(* How the exporter turns the statistics one host reports into the text    *)
(* Prometheus scrapes: _IterateAndFormatStats and ConvertStats of          *)
(* vsanPrometheusStats.py, rec, generatePrometheusFormat and augmentLabels *)
(* of prometheus.py.                                                       *)
(*                                                                         *)
(* The code walks a table of paths.  A path has some nodes of the report   *)
(* and one converter; the converter is called for each entity of each      *)
(* node, records samples in the path's own dictionary, and an exception it *)
(* raises ends that entity only.  After the last node the dictionary is    *)
(* formatted and streamed.                                                 *)
(*                                                                         *)
(* A converter is the sequence of its rows, in the order of the code.  A   *)
(* row either records the value of a key, records it or 0, only reads a    *)
(* key, or checks the shape of the entity.  The tables are constants: the  *)
(* ones of the code are in module Metrics.  A sample is the entity and the *)
(* number of the row that recorded it, and its labels are those of its row *)
(* and those the converter takes from the entity's name; numbers, units,   *)
(* the text of the help lines and the labels that are the host's are left  *)
(* out.                                                                    *)
(***************************************************************************)
EXTENDS Naturals, Sequences, FiniteSets

CONSTANTS
    Paths,      \* the table of paths: for each, its nodes in order
    Entities,   \* pairs of a node and a name
    Rows,       \* of an entity: the rows of its converter
    NameLabels, \* of an entity: the labels taken from its name
    Identity,   \* of an entity: what the page tells it from others by
    Missing,    \* of a node: the keys that get the value -1 when not reported
    Strips,     \* nodes whose converter takes a prefix off the keys
    Reports     \* the reports a host may send

ASSUME PathsAssumption == Paths \in Seq(Seq(STRING)) /\ Len(Paths) > 0

ASSUME EntitiesAssumption ==
    \A e \in Entities : \E p \in DOMAIN Paths : \E n \in DOMAIN Paths[p] : Paths[p][n] = e[1]

ASSUME RowsAssumption ==
    \A e \in Entities : /\ Len(Rows[e]) \in Nat /\ DOMAIN Rows[e] = 1 .. Len(Rows[e])
                        /\ \A i \in DOMAIN Rows[e] : Rows[e][i].does \in {"rec", "recOr0", "read", "check"}

(***************************************************************************)
(* A report: the entities it has, the keys some of them lack, those whose  *)
(* name or numbers a converter does not accept (bad), those that carry the *)
(* UUID of another host (foreign), and whether the keys carry the prefix   *)
(* that converters strip.                                                  *)
(***************************************************************************)
ASSUME ReportsAssumption ==
    \A r \in Reports : r.entities \subseteq Entities /\ IsFiniteSet(r.entities)

VARIABLES
    report,     \* what CaptureInternalStats returned
    path,       \* the entry of the table that is worked on
    node,       \* its node that is worked on, 0 before the first one
    todo,       \* entities of the node that are still to be converted
    out,        \* the samples recorded for the path
    page,       \* what was streamed: of each path, its samples
    stream      \* "open", "done", or "broken" by an exception

vars == <<report, path, node, todo, out, page, stream>>

-----------------------------------------------------------------------------
(* The value a converter finds under a key.  Keys of the list that are not *)
(* among the reported names are set to -1 before the converter is called;  *)
(* one that is there under a prefixed name is not found among them, and    *)
(* the converter, which strips the prefix, then has the key twice and      *)
(* keeps the later value.                                                  *)
Lacks(e, k) == <<e, k>> \in report.lacks

Overlaid(e, k) == report.prefixed /\ e[1] \in Strips /\ k \in Missing[e[1]]

Value(e, k) ==
    IF k \in Missing[e[1]] /\ (Lacks(e, k) \/ Overlaid(e, k)) THEN "sentinel"
    ELSE IF Lacks(e, k) THEN "absent" ELSE "reported"

(* An absent key raises KeyError; a malformed entity fails its check.      *)
Raises(e, row) ==
    \/ row.does = "check" /\ e \in report.bad
    \/ row.does \in {"rec", "read"} /\ \A k \in row.from : Value(e, k) = "absent"

(* Mutant: rec without its filter.                                         *)
RecordsUnfiltered(e, row) ==
    \/ row.does = "rec" /\ \E k \in row.from : Value(e, k) # "absent"
    \/ row.does = "recOr0"

(* rec drops negative values; get with a default never meets the sentinel. *)
Records(e, row) ==
    \/ row.does = "rec" /\ \E k \in row.from : Value(e, k) = "reported"
    \/ row.does = "recOr0"

(* The rows up to the first that raises.                                   *)
Converted(e) ==
    {s \in {e} \X DOMAIN Rows[e] :
        /\ \A j \in 1 .. s[2] : ~Raises(e, Rows[e][j])
        /\ Records(e, Rows[e][s[2]])}

-----------------------------------------------------------------------------
Init ==
    /\ report \in Reports
    /\ path = 1 /\ node = 0
    /\ todo = {} /\ out = {} /\ page = <<>>
    /\ stream = "open"

(* The next node of the path; a node the host does not report has nothing  *)
(* to convert.                                                             *)
NextNode ==
    /\ stream = "open" /\ todo = {}
    /\ node < Len(Paths[path])
    /\ node' = node + 1
    /\ todo' = {e \in report.entities : e[1] = Paths[path][node + 1]}
    /\ UNCHANGED <<report, path, out, page, stream>>

(* Mutant: the try around the loop over the entities.                      *)
ConvertTryOutside(e) ==
    /\ stream = "open"
    /\ e \in todo
    /\ todo' = IF \E i \in DOMAIN Rows[e] : Raises(e, Rows[e][i]) THEN {} ELSE todo \ {e}
    /\ out' = out \cup Converted(e)
    /\ UNCHANGED <<report, path, node, page, stream>>

(* One entity; whatever it raised is logged and the next one is converted. *)
Convert(e) ==
    /\ stream = "open"
    /\ e \in todo
    /\ todo' = todo \ {e}
    /\ out' = out \cup Converted(e)
    /\ UNCHANGED <<report, path, node, page, stream>>

(* Mutants: a path that fails the assertion is skipped; the dictionary is  *)
(* made once and not anew for each path.                                   *)
YieldSkips ==
    /\ stream = "open" /\ todo = {}
    /\ node = Len(Paths[path])
    /\ page' = IF \E s \in out : s[1] \in report.foreign THEN page ELSE Append(page, out)
    /\ path' = path + 1 /\ node' = 0 /\ out' = {}
    /\ stream' = IF path = Len(Paths) THEN "done" ELSE "open"
    /\ UNCHANGED <<report, todo>>

YieldKeepsOut ==
    /\ stream = "open" /\ todo = {}
    /\ node = Len(Paths[path])
    /\ IF \E s \in out : s[1] \in report.foreign
       THEN stream' = "broken" /\ UNCHANGED <<path, node, page>>
       ELSE /\ page' = Append(page, out)
            /\ path' = path + 1 /\ node' = 0
            /\ stream' = IF path = Len(Paths) THEN "done" ELSE "open"
    /\ UNCHANGED <<report, todo, out>>

(* The path is formatted and streamed.  Labels that name another host than *)
(* the one connected to fail an assertion, which nothing catches: neither  *)
(* this path nor a later one is streamed.                                  *)
Yield ==
    /\ stream = "open" /\ todo = {}
    /\ node = Len(Paths[path])
    /\ IF \E s \in out : s[1] \in report.foreign
       THEN stream' = "broken" /\ UNCHANGED <<path, node, out, page>>
       ELSE /\ page' = Append(page, out)
            /\ path' = path + 1 /\ node' = 0 /\ out' = {}
            /\ stream' = IF path = Len(Paths) THEN "done" ELSE "open"
    /\ UNCHANGED <<report, todo>>

Next == NextNode \/ Yield \/ \E e \in Entities : Convert(e)

Spec == Init /\ [][Next]_vars

-----------------------------------------------------------------------------
Samples == Entities \X Nat

RowOf(s) == Rows[s[1]][s[2]]

Streamed == UNION {page[p] : p \in DOMAIN page}

(* The variables keep their types, and a path is streamed exactly once:    *)
(* the page has the paths before the present one.                          *)
TypeOK ==
    /\ report.entities \subseteq Entities
    /\ path \in 1 .. Len(Paths) + 1 /\ node \in Nat
    /\ stream = "done" <=> path = Len(Paths) + 1
    /\ stream # "done" => node <= Len(Paths[path])
    /\ stream \in {"open", "done", "broken"}
    /\ todo \subseteq report.entities
    /\ out \subseteq Samples
    /\ page \in Seq(SUBSET Samples) /\ Len(page) = path - 1

(* No sample is made up: what is streamed was reported by the host, but    *)
(* for the two keys whose absence the code itself takes for 0.  In         *)
(* particular the -1 that stands for a missing key never gets out.         *)
OnlyReported ==
    stream # "open" =>
        \A s \in Streamed : \/ RowOf(s).does = "recOr0"
                            \/ \E k \in RowOf(s).from : ~Lacks(s[1], k)

(* The entity has all its converter cannot do without.                     *)
Sound(e) ==
    /\ e \notin report.bad
    /\ \A i \in DOMAIN Rows[e] : Rows[e][i].does \in {"rec", "read"}
           => \E k \in Rows[e][i].from : ~Lacks(e, k) \/ k \in Missing[e[1]]

Emitted(e, i) == \E p \in DOMAIN page : <<e, i>> \in page[p]

(* Whatever other entities lack or fail on, and whatever an old host does  *)
(* not know, a stream that came to its end has all the values a sound      *)
(* entity reported, except those the sentinel overlaid.                    *)
NothingLost ==
    stream = "done" =>
        \A e \in report.entities : Sound(e) =>
            \A i \in DOMAIN Rows[e] :
                ( /\ Rows[e][i].does = "rec"
                  /\ \E k \in Rows[e][i].from : ~Lacks(e, k) /\ ~Overlaid(e, k) )
                => Emitted(e, i)

(* "set value -1 for missing metrics to filter them later": what is        *)
(* filtered is what was missing.                                           *)
OnlyMissingFiltered ==
    stream = "done" =>
        \A e \in report.entities : Sound(e) =>
            \A i \in DOMAIN Rows[e] :
                ( /\ Rows[e][i].does = "rec"
                  /\ \E k \in Rows[e][i].from : ~Lacks(e, k) )
                => Emitted(e, i)

(* The series of a sample: its metric and its labels.  Those augmentLabels  *)
(* adds are the same for every sample or follow from the others; the object *)
(* and the volume of a virtual disk, which it reports with its numbers, are *)
(* left out: a page that keeps series apart without them does so with them. *)
Series(s) == <<RowOf(s).metric, RowOf(s).labels \cup NameLabels[s[1]]>>

(* A row that records, of a converter of a node that is in the path; and   *)
(* entities that one host may report together.                             *)
Recording(e) == {i \in DOMAIN Rows[e] : Rows[e][i].does \in {"rec", "recOr0"}}

InPath(e, p) == \E n \in DOMAIN Paths[p] : Paths[p][n] = e[1]

Together(e, f) == \E r \in Reports : {e, f} \subseteq r.entities

(* What the tables owe to the page: rows that record under one metric have *)
(* other labels, whichever converter, loop or entity they are of, unless   *)
(* they are one row of two entities of one identity; and they are in one   *)
(* path.                                                                   *)
KeptApart(e, f) ==
    \A i \in Recording(e), j \in Recording(f) :
        Rows[e][i].metric = Rows[f][j].metric =>
            /\ Series(<<e, i>>) = Series(<<f, j>>) => Identity[e] = Identity[f] /\ i = j
            /\ \A p, q \in DOMAIN Paths : InPath(e, p) /\ InPath(f, q) => p = q

(* A finite set of pairs gives each first component one second component.  *)
Functional(R) == Cardinality({x[1] : x \in R}) = Cardinality(R)

(* A series is one thing on the page, whichever nodes, loops and           *)
(* converters record under its metric: one row of one identity, which is   *)
(* one entity but for worlds that are reported without their id, where it  *)
(* is those of one name.  And all samples of a metric are in one group,    *)
(* that is in one path, as the format of the page wants it.                *)
WellFormed ==
    stream # "open" =>
        /\ Functional({<<Series(s), <<Identity[s[1]], s[2]>>>> : s \in Streamed})
        /\ Functional(UNION {{<<RowOf(s).metric, p>> : s \in page[p]} : p \in DOMAIN page})

=============================================================================
