---------------------------- MODULE MCHostsFile ----------------------------
(* One common service and one connector, which moves from this machine to another. *)
EXTENDS HostsFile, TLC

Blocks(common, connector) ==
    [common |-> <<Host(common, {"auth"})>>, dataspace |-> <<>>,
     connectors |-> <<Host(connector, {"conn"})>>, components |-> <<>>]

MCEntriesOf == [c \in {"local", "vm"} |->
    IF c = "local" THEN Blocks("loopback", "loopback") ELSE Blocks("proxy", "vm")]
MCPublicOf == [local |-> {}, vm |-> {"auth"}]

Job(o, c, l) == [op |-> o, config |-> c, level |-> l]

\* manage_hosts_entries is called in the local topology only.
MCJobs == {Job("apply", "local", 2), Job("apply", "local", 4), Job("apply", "vm", 4),
           Job("manage", "local", 2), Job("manage", "local", 4), Job("manage", "local", 6)}

MCFirstFiles == {<<Header("user"), Blank, Host("loopback", {"localhost"})>>,
                 <<Host("old", {"auth", "other"})>>}
MCUserLines == {Host("own", {"mine"}), Host("loopback", {"alias", "conn"})}

Symmetric == Permutations(Processes)

============================================================================
