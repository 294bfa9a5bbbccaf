----------------------------- MODULE HostsFile -----------------------------
(***************************************************************************)
(* The framework's entries in the hosts file, a file that it shares with   *)
(* its user (deployers/shared/lib/hosts_manager.py, manage_hosts_entries   *)
(* in adapters/inesdata/infrastructure.py)                                 *)
(*                                                                         *)
(* There are two kinds of writers.  apply_managed_blocks keeps blocks with *)
(* a BEGIN and an END line for the hostnames of the levels it is run for,  *)
(* without those that stand elsewhere.  manage_hosts_entries, in the local *)
(* topology, keeps entries below a header.  Both read the whole file, and  *)
(* truncate and write it later; there is no lock.                          *)
(*                                                                         *)
(* A file is a sequence of lines; white space within lines is left out.    *)
(***************************************************************************)
EXTENDS Naturals, FiniteSets, SequencesExt

CONSTANTS
    Processes,
    Jobs,            \* the runs: [op, config, level], with op "apply" or "manage"
    EntriesOf,       \* EntriesOf[c][b]: the entries of block b
    PublicOf,        \* PublicOf[c]: the hostnames that the public proxy serves
    PublicAddress, Loopback,
    UserLines,       \* lines that the user may add
    FirstFiles,      \* what the file may be at first
    MaxRuns,         \* bound: runs of the framework
    MaxTears         \* bound: writes that stop halfway

VARIABLES
    file,
    pc, job, seen,   \* per process: what it does, and the file as it read it
    mine,            \* history: the user's lines
    runs, tears,
    raced            \* history: a file was replaced that had changed since it was read

vars == <<file, pc, job, seen, mine, runs, tears, raced>>

Configs == DOMAIN EntriesOf   \* what deployer.config may say
BlockNames == {"common", "dataspace", "connectors", "components"}

---------------------------------------------------------------------------
(* Lines *)

Host(a, n) == [line |-> "host", address |-> a, names |-> n]
Blank == [line |-> "blank"]
Begin(b) == [line |-> "begin", block |-> b]
End(b)   == [line |-> "end", block |-> b]
Header(t) == [line |-> "comment", text |-> t]

IsComment(x) == x.line \in {"begin", "end", "comment"}
IsHost(x) == x.line = "host"

None == [line |-> "none"]

\* The lines of f at the positions in I, in their order.
Only(f, I) ==
    LET nth(k) == CHOOSE i \in I : Cardinality(I \cap 1 .. i) = k
    IN [k \in 1 .. Cardinality(I) |-> f[nth(k)]]

\* str.rstrip of the content.
TrimEnd(f) == SubSeq(f, 1, SelectLastInSeq(f, LAMBDA x : x # Blank))

\* parse_hostnames
HostnamesIn(f) == UNION {x.names : x \in {y \in ToSet(f) : IsHost(y)}}

---------------------------------------------------------------------------
(* apply_managed_blocks *)

\* build_context_host_blocks and _filter_host_blocks_for_levels: the blocks that have
\* entries.
BlocksOf(c, l) == {b \in BlockNames : /\ EntriesOf[c][b] # <<>>
                                      /\ \/ b = "common"
                                         \/ b = "dataspace" /\ l >= 3
                                         \/ b = "connectors" /\ l \in {4, 6}
                                         \/ b = "components" /\ l \in {5, 6}}

\* Faulty variant, no part of the specification: it does not notice the END line.
WithoutBlocksToTheEnd(f, names) ==
    LET begins == SelectInSeq(f, LAMBDA x : x.line = "begin" /\ x.block \in names)
    IN TrimEnd(IF begins = 0 THEN f ELSE SubSeq(f, 1, begins - 1))

\* skipping_until, None or the END line to wait for, after line x; and after every line.
UntilAfter(x, until, names) ==
    IF until # None THEN IF x = until THEN None ELSE until
    ELSE IF x \in {Begin(b) : b \in names} THEN End(x.block) ELSE None

SkippingUntil(f, names) ==
    LET until[i \in 0 .. Len(f)] ==
            IF i = 0 THEN None
            ELSE LET before == until[i - 1] IN UntilAfter(f[i], before, names)
    IN until

\* remove_managed_blocks: from a BEGIN line to the next END line of the same block.
WithoutBlocks(f, names) ==
    LET until == SkippingUntil(f, names)
    IN IF names = {} THEN f
       ELSE TrimEnd(Only(f, {i \in DOMAIN f : until[i - 1] = None /\ until[i] = None}))

\* remove_hostnames: a line that names others as well keeps those.
WithoutHostnames(f, names) ==
    LET less(x) == IF IsHost(x) THEN Host(x.address, x.names \ names) ELSE x
    IN IF names = {} THEN f
       ELSE TrimEnd(Only([i \in DOMAIN f |-> less(f[i])],
                         {i \in DOMAIN f : IsHost(f[i]) => less(f[i]).names # {}}))

\* _public_proxy_hostnames_to_reconcile: public hostnames with another address.
ToReconcile(c, bs, base) ==
    {h \in PublicOf[c] :
        /\ \E b \in bs : \E e \in ToSet(EntriesOf[c][b]) :
              e.address = PublicAddress /\ h \in e.names
        /\ \E x \in ToSet(base) :
              IsHost(x) /\ h \in x.names /\ x.address # PublicAddress}

\* upsert_managed_block, for a block that is not in the file.
Upserted(f, b, entries) ==
    (IF TrimEnd(f) = <<>> THEN <<>> ELSE Append(TrimEnd(f), Blank))
        \o <<Begin(b)>> \o entries \o <<End(b)>>

\* The entries whose hostname is in no line of f.
Missing(entries, f) ==
    Only(entries, {i \in DOMAIN entries : entries[i].names \cap HostnamesIn(f) = {}})

\* upsert_managed_blocks
AllUpserted(f, c, bs, base) ==
    LET with(b, g) == LET missing == Missing(EntriesOf[c][b], base) IN
                      IF b \notin bs \/ missing = <<>> THEN g ELSE Upserted(g, b, missing)
    IN with("components", with("connectors", with("dataspace", with("common", f))))

\* Faulty variant, no part of the specification: what is in the file stays.
MergedOntoAll(f, c, l) == AllUpserted(f, c, BlocksOf(c, l), f)

\* merge_missing_managed_blocks
Merged(f, c, l) ==
    LET bs == BlocksOf(c, l)
        own == WithoutBlocks(f, bs)
        base == WithoutHostnames(own, ToReconcile(c, bs, own))
    IN AllUpserted(base, c, bs, base)

---------------------------------------------------------------------------
(* manage_hosts_entries *)

DefaultHeader == Header("Dataspace Local Deployment")

\* Levels 2 and 4 use the default header; Level 5, and the refresh of the connectors'
\* hosts before Level 6 and in a recovery, have one of their own.
HeaderOf(l) == CASE l = 5 -> Header("Components")
                 [] l = 6 -> Header("Dataspace Connector Hosts")
                 [] OTHER -> DefaultHeader

\* generate_hosts, generate_connector_hosts: entries for 127.0.0.1.
Desired(c, l) ==
    LET local(es) == [i \in DOMAIN es |-> [es[i] EXCEPT !.address = Loopback]]
        of(b) == local(EntriesOf[c][b])
    IN CASE l = 2 -> of("common") \o of("dataspace")
         [] l = 5 -> of("components")
         [] OTHER -> of("connectors")

\* line_matches_entry
Matches(x, e) == IsHost(x) /\ x.address = e.address /\ e.names \subseteq x.names

Present(f, e) == \E x \in ToSet(f) : Matches(x, e)

\* The last comment, of whatever kind, above line i.
HeaderAbove(f, i) ==
    LET k == SelectLastInSubSeq(f, 1, i - 1, IsComment) IN IF k = 0 THEN None ELSE f[k]

PresentUnder(f, e, h) ==
    \E i \in DOMAIN f : Matches(f[i], e) /\ HeaderAbove(f, i) = h

\* Entries that stand elsewhere move below the header, unless it is the default one.
Migrates(f, c, l) ==
    /\ HeaderOf(l) # DefaultHeader
    /\ \E e \in ToSet(Desired(c, l)) : Present(f, e) /\ ~PresentUnder(f, e, HeaderOf(l))

\* A default header above nothing but desired entries is replaced.
Renamed(f, entries, h) ==
    LET section(i) == {f[j] : j \in {k \in i + 1 .. Len(f) :
                                 f[k] # Blank /\ \A m \in i + 1 .. k : ~IsComment(f[m])}}
    IN [i \in DOMAIN f |->
           IF f[i] = DefaultHeader /\ section(i) # {} /\ section(i) \subseteq ToSet(entries)
           THEN h ELSE f[i]]

\* Lines elsewhere that hold a desired entry go, with all their hostnames.
Cleaned(f, entries, h) ==
    Only(f, {i \in DOMAIN f : (\E e \in ToSet(entries) : Matches(f[i], e))
                              => HeaderAbove(f, i) = h})

\* The entries are added at the end of the last section with the header.
Migrated(f, c, l) ==
    LET h == HeaderOf(l)
        entries == Desired(c, l)
        cleaned == Cleaned(Renamed(f, entries, h), entries, h)
        absent == Only(entries, {i \in DOMAIN entries : ~PresentUnder(cleaned, entries[i], h)})
        ready == IF h \in ToSet(cleaned) THEN cleaned
                 ELSE (IF cleaned # <<>> /\ Last(cleaned) # Blank
                       THEN Append(cleaned, Blank) ELSE cleaned) \o <<h>>
        top == SelectLastInSeq(ready, LAMBDA x : x = h)
        next == SelectInSubSeq(ready, top + 1, Len(ready), IsComment)
        at == IF next = 0 THEN Len(ready) ELSE next - 1
    IN TrimEnd(IF absent = <<>> THEN cleaned
               ELSE SubSeq(ready, 1, at) \o absent \o SubSeq(ready, at + 1, Len(ready)))

\* Otherwise the missing entries are appended, to whatever the file is by then.
Added(f, c, l) ==
    LET entries == Desired(c, l)
        missing == Only(entries, {i \in DOMAIN entries : ~Present(f, entries[i])})
    IN IF missing = <<>> THEN <<>> ELSE <<Blank, HeaderOf(l)>> \o missing

---------------------------------------------------------------------------
(* What is assumed of the constants *)

ASSUME BoundsAssumption == MaxRuns \in Nat /\ MaxTears \in Nat

\* The lines that the user may have in the file, but for blank ones.
OwnLines == UserLines \cup ((UNION {ToSet(f) : f \in FirstFiles}) \ {Blank})

\* A HostEntry has one hostname.
ASSUME EntriesAssumption ==
    \A c \in Configs : \A b \in BlockNames :
        LET entries == EntriesOf[c][b] IN
        /\ entries \in Seq(ToSet(entries))
        /\ \A e \in ToSet(entries) : \E h \in e.names : e = Host(e.address, {h})

\* No two entries are for the same hostname: within a block they are deduplicated, and
\* services, dataspaces, connectors and components are named apart.
ASSUME HostnamesAssumption ==
    \A c \in Configs : \A b, d \in BlockNames :
        \A i \in DOMAIN EntriesOf[c][b] : \A k \in DOMAIN EntriesOf[c][d] :
            EntriesOf[c][b][i].names \cap EntriesOf[c][d][k].names # {} => b = d /\ i = k

ASSUME JobsAssumption ==
    /\ \A j \in Jobs : j.op \in {"apply", "manage"} /\ j.config \in Configs /\ j.level \in Nat
    /\ None \notin Jobs

\* The user writes hosts and comments, but no marker and no default header.
ASSUME UserAssumption ==
    /\ \A f \in FirstFiles : f \in Seq(ToSet(f))
    /\ \A x \in OwnLines :
          \/ IsHost(x) /\ x = Host(x.address, x.names) /\ x.names # {}
          \/ IsComment(x) /\ x = Header(x.text) /\ x # DefaultHeader

---------------------------------------------------------------------------
(* Types *)

FrameworkEntries == UNION {ToSet(EntriesOf[c][b]) : c \in Configs, b \in BlockNames}

FrameworkLines ==
    FrameworkEntries \cup {Host(Loopback, e.names) : e \in FrameworkEntries}
    \cup {Begin(b) : b \in BlockNames} \cup {End(b) : b \in BlockNames}
    \cup {HeaderOf(j.level) : j \in Jobs} \cup {Blank}

\* A public hostname may have been taken out of a line.
LinesLeft(x) ==
    {x} \cup (IF IsHost(x) THEN {Host(x.address, n) : n \in SUBSET x.names} ELSE {})

LinesWith(own) == UNION {LinesLeft(x) : x \in FrameworkLines \cup own}

TypeOK ==
    /\ file \in Seq(LinesWith(mine))
    /\ pc \in [Processes -> {"idle", "read"}]
    /\ job \in [Processes -> Jobs \cup {None}]
    /\ seen \in [Processes -> Seq(LinesWith(mine))]
    /\ mine \subseteq OwnLines
    /\ runs \in 0..MaxRuns /\ tears \in 0..MaxTears /\ raced \in BOOLEAN

Init ==
    /\ file \in FirstFiles
    /\ pc = [p \in Processes |-> "idle"]
    /\ job = [p \in Processes |-> None]
    /\ seen = [p \in Processes |-> <<>>]
    /\ mine = ToSet(file) \ {Blank}
    /\ runs = 0 /\ tears = 0 /\ raced = FALSE

---------------------------------------------------------------------------
(* A run: read the file, and write it *)

\* Faulty variant, no part of the specification: runs are not counted.
ReadUncounted(p, j) ==
    /\ pc[p] = "idle" /\ runs <= MaxRuns
    /\ runs' = runs + 1
    /\ job' = [job EXCEPT ![p] = j]
    /\ seen' = [seen EXCEPT ![p] = file]
    /\ pc' = [pc EXCEPT ![p] = "read"]
    /\ UNCHANGED <<file, mine, tears, raced>>

Read(p, j) ==
    /\ pc[p] = "idle" /\ runs < MaxRuns
    /\ runs' = runs + 1
    /\ job' = [job EXCEPT ![p] = j]
    /\ seen' = [seen EXCEPT ![p] = file]
    /\ pc' = [pc EXCEPT ![p] = "read"]
    /\ UNCHANGED <<file, mine, tears, raced>>

\* The run replaces the file, made from what it read, or appends to it.
Replaces(p) == job[p].op = "apply" \/ Migrates(seen[p], job[p].config, job[p].level)

Content(p) ==
    LET c == job[p].config  l == job[p].level IN
    IF job[p].op = "apply" THEN Merged(seen[p], c, l)
    ELSE IF Replaces(p) THEN Migrated(seen[p], c, l)
    ELSE file \o Added(seen[p], c, l)

Rest(p) == /\ pc' = [pc EXCEPT ![p] = "idle"]
           /\ job' = [job EXCEPT ![p] = None]
           /\ seen' = [seen EXCEPT ![p] = <<>>]
           /\ UNCHANGED <<mine, runs>>

\* A file that would stay as it was read is not written.
Write(p) ==
    /\ pc[p] = "read"
    /\ LET new == Content(p)  changed == new # seen[p] IN
       /\ file' = IF changed THEN new ELSE file
       /\ raced' = (raced \/ (changed /\ file # seen[p] /\ Replaces(p)))
    /\ Rest(p)
    /\ UNCHANGED tears

\* The write stops halfway: what is kept of the old file is what is appended to.
Tear(p) ==
    /\ pc[p] = "read" /\ tears < MaxTears
    /\ tears' = tears + 1
    /\ LET new == Content(p) IN
       \E k \in (IF Replaces(p) THEN 0 ELSE Len(file)) .. Len(new) : file' = SubSeq(new, 1, k)
    /\ Rest(p)
    /\ UNCHANGED raced

\* The user says no, or there is no permission.
Refuse(p) ==
    /\ pc[p] = "read"
    /\ Rest(p)
    /\ UNCHANGED <<file, tears, raced>>

UserAdds(x) ==
    /\ x \notin mine
    /\ mine' = mine \cup {x}
    /\ file' = Append(file, x)
    /\ UNCHANGED <<pc, job, seen, runs, tears, raced>>

Next == \/ \E p \in Processes : \/ \E j \in Jobs : Read(p, j)
                                \/ Write(p) \/ Tear(p) \/ Refuse(p)
        \/ \E x \in UserLines : UserAdds(x)

Spec == Init /\ [][Next]_vars

---------------------------------------------------------------------------
(* Properties *)

\* Level 6 takes away a line with a connector's entry, whatever else it names; a
\* public hostname is taken out of a line with another address.
Claimed(x) ==
    /\ IsHost(x)
    /\ \/ \E j \in Jobs : /\ j.op = "manage" /\ HeaderOf(j.level) # DefaultHeader
                          /\ \E e \in ToSet(Desired(j.config, j.level)) : Matches(x, e)
       \/ \E c \in Configs : x.names \cap PublicOf[c] # {}

\* The user's lines survive every sequence of runs, of both kinds, for any levels and
\* configurations, unless a write was torn or a run replaced a file that had changed
\* since it was read; only lines with a hostname that the framework claims may go.
UserLinesSurvive ==
    tears = 0 /\ ~raced => \A x \in mine : x \in ToSet(file) \/ Claimed(x)

\* The block that line i stands in, as a reader of the markers sees it.
InBlock(f, i, b) ==
    \E k \in 1 .. i - 1 : f[k] = Begin(b) /\ \A m \in k + 1 .. i - 1 : f[m] # End(b)

\* Every hostname of the run's blocks that stands outside of them is left at that; every
\* other has one line, with the configured address, in its own block.
Settled(f, c, l) ==
    LET bs == BlocksOf(c, l)
        outside(h) == \E i \in DOMAIN f :
                          /\ IsHost(f[i]) /\ h \in f[i].names
                          /\ \A b \in bs : ~InBlock(f, i, b)
    IN \A b \in bs : \A e \in ToSet(EntriesOf[c][b]) : \A h \in e.names :
          LET at == {i \in DOMAIN f : IsHost(f[i]) /\ h \in f[i].names
                                      /\ \E d \in bs : InBlock(f, i, d)}
          IN IF outside(h) THEN at = {}
             ELSE \E i \in DOMAIN f : at = {i} /\ f[i] = e /\ InBlock(f, i, b)

\* A run that is not disturbed, on whatever file earlier runs, users and crashes have
\* left, puts every hostname of its blocks where it belongs, and running it once more
\* changes nothing.
ApplySettles ==
    [][\A p \in Processes :
          pc[p] = "read" /\ pc'[p] = "idle" /\ job[p].op = "apply"
            /\ file = seen[p] /\ file' = Merged(file, job[p].config, job[p].level) =>
               /\ Settled(file', job[p].config, job[p].level)
               /\ Merged(file', job[p].config, job[p].level) = file']_vars

===========================================================================
