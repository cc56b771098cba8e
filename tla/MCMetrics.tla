------------------------------ MODULE MCMetrics ------------------------------
(***************************************************************************)
(* The conversion with the tables of the code, for hosts of three          *)
(* generations whose report has at most one oddity.                        *)
(***************************************************************************)
EXTENDS Conversion, Metrics

(* Several entities where a node lists worlds, heaps, disks, slabs, nics   *)
(* or virtual disks, of every form of name that has labels of its own;     *)
(* among them those that differ in one part of the name only.              *)
Names(n) ==
    CASE n = "LsomWorld" ->
             << <<<<"VSAN", "0x1", "LSOM">>, "1">>, <<<<"VSAN", "0x1", "LSOM">>, "2">>,
                <<<<"PLOG", "disk1", "elev">>, "3">>, <<<<"LLOG", "disk1", "elev">>>> >>
      [] n = "DomWorld"   -> << <<<<"DOM", "1", "owner">>, "4">>, <<<<"DOM", "1", "owner">>, "5">> >>
      [] n = "NicWorld"   -> << <<<<"vmnic0", "poll">>, "6">>, <<<<"vmnic0", "poll">>, "7">>,
                                <<<<"vmnic1", "poll">>, "8">> >>
      [] n = "NetworkWorld" -> << <<<<"vmnic0", "poll">>, "6">>, <<<<"vmnic0", "poll">>, "7">>,
                                  <<<<"vmx", "a">>, "8">>, <<<<"vmx", "a">>, "9">> >>
      [] n = "CmmdsWorld" -> << <<<<"CMMDS">>, "10">>, <<<<"CMMDS", "1", "net">>, "11">> >>
      [] n = "heaps"      -> << <<"dom", "0x1">>, <<"dom", "0x2">> >>
      [] n = "slabs"      -> << <<"dom">>, <<"cmmds">> >>
      [] n = "nics"       -> << <<"vnic", "tcpip", "vmk0">>, <<"vnic", "vsan", "vmk0">>,
                                <<"pnic", "vmnic0">>, <<"pnic", "vmnic1">> >>
      [] n = "ioStats"    -> << <<"vm1", "scsi0">>, <<"vm1", "scsi1">>, <<"vm2", "scsi0">> >>
      [] n = "topclients" -> << <<"obj1">>, <<"obj2">> >>
      [] n \in HostNodes  -> << <<"host">> >>
      [] OTHER            -> << <<"disk1">>, <<"disk2">> >>

EntitiesTable == UNION {{n} \X Range(Names(n)) : n \in Range(FlattenSeq(TablePaths))}

MCEntities == EntitiesTable

(* TLC works a definition out once, but what a constant stands for at each *)
(* use; hence a definition for a table and another for the constant.       *)
RowsTable == [e \in MCEntities |-> TableRows(e[1], e[2])]

MCRows == RowsTable

NameLabelsTable == [e \in MCEntities |-> TableNameLabels(e[1], e[2])]

MCNameLabels == NameLabelsTable

IdentityTable == [e \in MCEntities |-> TableIdentity(e[1], e[2])]

MCIdentity == IdentityTable

MissingTable == [n \in {e[1] : e \in MCEntities} |-> Pre70MissingMetrics(n)]

MCMissing == MissingTable

KeysOf(e) == UNION {MCRows[e][i].from : i \in DOMAIN MCRows[e]}

(* The first entity of a node, and of each type of nic.                    *)
Firsts == {e \in MCEntities : e[2] = Names(e[1])[1]} \cup {<<"nics", <<"pnic", "vmnic0">>>>}

(* Nodes whose converter takes the host's UUID from the entity.            *)
HostNamed == Worlds \cup HostNodes \cup {"heaps", "slabs", "nics"}

Checks(e) == \E i \in DOMAIN MCRows[e] : MCRows[e][i].does = "check"

OldKeys == UNION {{<<e, k>> : k \in KeysOf(e) \cap MCMissing[e[1]]} : e \in MCEntities}

(* A host before 7.0; one of 7.0; one since 7.0 U1, which reports the      *)
(* worlds of the network under another name.                               *)
Generations ==
    {[worlds |-> "NetworkWorld", lacks |-> OldKeys], [worlds |-> "NetworkWorld", lacks |-> {}],
     [worlds |-> "NicWorld", lacks |-> {}]}

Report(g, prefixed, away, lacks, bad, foreign) ==
    [entities |-> {e : e \in {x \in MCEntities : x[1] # g.worlds} \ away},
     lacks    |-> {x : x \in g.lacks \cup lacks},
     bad      |-> bad, foreign |-> foreign, prefixed |-> prefixed]

(* Reports that lack one key: of the last generation, only keys of what it *)
(* does not share with the one before.                                     *)
LacksOne(g, p) ==
    {o \in Firsts : (p => o[1] \in StripNodes) /\ (g.worlds = "NicWorld" => o[1] = "NetworkWorld")}

ReportsTable ==
    UNION {
        {Report(g, p, {}, {}, {}, {})}
        \cup {Report(g, p, {e2 \in MCEntities : e2[1] = e[1]}, {}, {}, {}) : e \in Firsts}
        \cup {Report(g, p, {}, {}, {e}, {}) : e \in {o \in Firsts : Checks(o)}}
        \cup {Report(g, p, {}, {}, {}, {e}) : e \in {o \in Firsts : o[1] \in HostNamed}}
        \cup UNION {{Report(g, p, {}, {<<e, k>>}, {}, {}) : k \in KeysOf(e)} : e \in LacksOne(g, p)}
    : g \in Generations, p \in BOOLEAN}

MCReports == ReportsTable

PlainReports == {Report(g, p, {}, {}, {}, {}) : g \in Generations, p \in BOOLEAN}

=============================================================================
