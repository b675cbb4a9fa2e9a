----------------------------- MODULE MCSandbox -----------------------------
(***************************************************************************)
(* A small host for Sandbox, and what a command must find in the sandbox.  *)
(***************************************************************************)
EXTENDS Sandbox

User == <<"home", "u">>
Config == User \o <<"config">>
Data == User \o <<"data">>
Candidates == <<Config, User \o <<"cache">>, Data, Data, User \o <<"state">>>>
Keys == User \o <<"keys">>
AKey == Keys \o <<"k">>
Hosts == <<"etc", "hosts">>
Srv == <<"srv", "d">>
Project(home) == home \o <<"p">>

Tree(names, ids) == [kind |-> "tree", entries |-> [i \in DOMAIN names |-> [name |-> names[i], id |-> ids[i]]]]
Blob == [kind |-> "blob", entries |-> <<>>]
Objects == "root" :> Tree(<<"a", "sub", "mod">>, <<"x", "t", "gone">>)
           @@ "t" :> Tree(<<"a", "b">>, <<"x", "y">>) @@ "x" :> Blob @@ "y" :> Blob @@ "old" :> Blob
Repos == {[opens |-> TRUE, head |-> "root", objects |-> Objects],
          [opens |-> TRUE, head |-> "unborn", objects |-> Objects],
          [opens |-> FALSE, head |-> "unborn", objects |-> Objects]}

HostDisk(project) ==
    [pl \in {Place("host", at) : at \in
        {<<>>, <<"etc">>, <<"home">>, User, Config, Data, Keys, <<"tmp">>, <<"proc">>, <<"srv">>, Srv,
         project, project \o <<"sub">>}} |-> "dir"]
    @@ Place("host", <<"bin">>) :> "link" @@ Place("host", <<"image">>) :> "kernel"
    @@ Place("host", Hosts) :> "h" @@ Place("host", AKey) :> "k" @@ Place("host", Config \o <<"c">>) :> "c"
    @@ Place("host", project \o <<"a">>) :> "x" @@ Place("host", project \o <<"new">>) :> "n"
    @@ Place("host", project \o <<"sub", "b">>) :> "y"
    @@ Place("hostproc", <<>>) :> "dir" @@ Place("proc", <<>>) :> "dir" @@ Place("fuse", <<>>) :> "dir"
    @@ Place("overlay", <<>>) :> "dir"
Host(project) ==
    [mounts |-> <<MountAt(<<>>, Place("host", <<>>), {}), MountAt(<<"proc">>, Place("hostproc", <<>>), {})>>,
     disk |-> HostDisk(project), ok |-> TRUE, caps |-> FALSE, pidns |-> FALSE,
     layers |-> [lower |-> Place("host", <<>>), upper |-> Place("host", <<>>)]]

Bind(source, target, flags) == [source |-> source, target |-> target, flags |-> flags]
Binds == {Bind(Keys, Keys, {"read_only"}), Bind(AKey, User \o <<"k">>, {}), Bind(Srv, <<"m">>, {"noexec"}),
          Bind(Srv, Keys \o <<"in">>, {}), Bind(Hosts, Config \o <<"c">>, {"read_only"}),
          Bind(Srv, <<"code", "in">>, {}), Bind(Srv, <<"srv", "e">>, {})}
Strategies == {"passthrough", "snapshot", "hardlink"}
Mounts(strategies, repos, binds) ==
    [home : {User, <<"srv">>}, strategy : strategies, repo : repos, binds : binds,
     state_root : {<<"tmp", "n">>, <<"srv", "n">>}, mount_root : {<<"code">>, <<"srv", "code">>}]
Cases == Mounts({"passthrough"}, {CHOOSE r \in Repos : TRUE}, SeqOf(Binds, 2)) \cup Mounts(Strategies, Repos, {<<>>})

Daemon(c) == daemon_main(Host(Project(c.home)), Project(c.home), fs_of(c.state_root, "1"), c.strategy, c.repo)
Command(c, daemon) ==
    init_main(command_main(Host(Project(c.home)), daemon, Project(c.home),
                           fs_of(c.state_root, "2") \o <<"root">>, c.mount_root, c.binds, Candidates))

----------------------------------------------------------------------------
(* Where the daemon reads and writes what FUSE shows at a path.            *)
Storage(c) == fs_of(c.state_root, "1") \o <<"merged">> \o Project(c.home)
ReadAt(daemon, place) ==
    IF place.fs # "overlay" THEN OnDisk(daemon, place)
    ELSE OnDisk(daemon, Place(daemon.layers.lower.fs, daemon.layers.lower.path \o place.path))
WrittenAt(daemon, place) ==
    IF place.fs # "overlay" THEN place
    ELSE Place(daemon.layers.upper.fs, daemon.layers.upper.path \o place.path)

InHead == <<>> :> "dir" @@ <<"a">> :> "x" @@ <<"sub">> :> "dir" @@ <<"sub", "a">> :> "x" @@ <<"sub", "b">> :> "y"

StorageHolds(c, daemon) ==
    /\ daemon.ok = (\/ c.strategy = "passthrough"
                    \/ c.repo.opens /\ (c.strategy = "hardlink" \/ c.repo.head # "unborn"))
    /\ daemon.ok => \A at \in DOMAIN InHead :
        LET place == Shown(daemon, Storage(c) \o at)
            real == Place("host", Project(c.home) \o at)
        IN IF c.strategy = "passthrough" THEN place = real /\ ReadAt(daemon, place) = OnDisk(daemon, real)
           ELSE /\ (c.repo.head # "unborn" => ReadAt(daemon, place) = InHead[at])
                /\ ~IsPrefix(Project(c.home), WrittenAt(daemon, place).path)
                /\ ~IsPrefix(daemon.layers.lower.path, WrittenAt(daemon, place).path)
                /\ ~Writable(daemon, fs_of(c.state_root, "1") \o <<"lower">> \o Project(c.home) \o at)

(* What hides a path: the mount root, which comes last, and later binds.   *)
Hidden(c, path, i) ==
    \/ IsPrefix(c.mount_root, path)
    \/ \E k \in i + 1 .. Len(c.binds) : IsPrefix(c.binds[k].target, path)

Ends == {<<>>, <<"z">>}
PartsShow(c, s) ==
    /\ \A end \in Ends : Shown(s, c.mount_root \o end) = Place("fuse", end)
    /\ \A i \in DOMAIN c.binds : ~Hidden(c, c.binds[i].target, i) =>
          /\ Shown(s, c.binds[i].target) = Place("host", c.binds[i].source)
          /\ FlagsOf(s, c.binds[i].target) = c.binds[i].flags
    /\ \A path \in {Config, Data, Config \o <<"c">>, Hosts, Srv} : ~Hidden(c, path, 0) =>
          Shown(s, path) = Place("host", path)
    /\ Kind(s, <<"bin">>) = "link" /\ Kind(s, <<"image">>) = "none" /\ Shown(s, <<"proc">>).fs = "proc" /\ ~Writable(s, <<"z">>)

(* Nothing of the host's home or /tmp, and FUSE in one place only.         *)
Isolates(c, s) ==
    /\ \A path \in {<<"tmp", "z">>, User \o <<"z">>, AKey, <<"home", "z">>} :
          ~Hidden(c, path, 0) => Shown(s, path).fs \notin {"host", "fuse", "overlay"}
    /\ \A i \in DOMAIN s.mounts : s.mounts[i].fs = "fuse" => s.mounts[i].at = c.mount_root

(* The host keeps its files, but where a mount point is asked for inside a *)
(* directory of the host, or a file is bound over a bound file.            *)
ThroughHost(c) ==
    {q \in UNION {Prefixes(b) : b \in {c.mount_root} \cup {c.binds[i].target : i \in DOMAIN c.binds}} :
        \E d \in {<<"etc">>, <<"srv">>, Config, Data, Keys} : IsStrictPrefix(d, q)}
HostKept(c, before, after) ==
    \A pl \in DOMAIN after :
        pl.fs = "host" /\ ~IsPrefix(c.state_root, pl.path) =>
            \/ pl \in DOMAIN before /\ after[pl] = before[pl]
            \/ pl.path \in ThroughHost(c)
            \/ \E i, k \in DOMAIN c.binds :
                  i < k /\ c.binds[i].target = c.binds[k].target /\ c.binds[i].source = pl.path

(* The command starts where it was called, at the mount root, or in an     *)
(* empty directory that only leads to a bind's target.                     *)
Start(c, s, cwd) ==
    IF IsDir(s, sandbox_cwd(cwd, Project(c.home), c.mount_root)) THEN sandbox_cwd(cwd, Project(c.home), c.mount_root)
    ELSE c.mount_root
StartsInPlace(c, s) ==
    \A cwd \in {Project(c.home), Project(c.home) \o <<"sub">>, <<"etc">>, Keys, Config} :
        LET found == Shown(s, Start(c, s, cwd))
        IN \/ found \in {Place("host", cwd), Place("fuse", <<>>)}
           \/ found = Place("fuse", Rest(Project(c.home), cwd)) /\ IsPrefix(Project(c.home), cwd)
           \/ found.fs = "newroot" /\ \E i \in DOMAIN c.binds : IsStrictPrefix(cwd, c.binds[i].target)

(* A mount point cannot be made in, or of, what an earlier bind shows      *)
(* read-only.                                                              *)
SetupFails(c) ==
    \E i, k \in DOMAIN c.binds :
        /\ i < k /\ "read_only" \in c.binds[i].flags
        /\ \/ IsStrictPrefix(c.binds[i].target, c.binds[k].target)
           \/ c.binds[i].target = c.binds[k].target /\ c.binds[k].source \in {AKey, Hosts}

Holds(c, daemon, s) ==
    daemon.ok =>
        /\ s.ok = ~SetupFails(c)
        /\ s.ok => /\ PartsShow(c, s) /\ Isolates(c, s) /\ StartsInPlace(c, s)
                   /\ HostKept(c, daemon.disk, s.disk)
SandboxHolds(c) == StorageHolds(c, Daemon(c)) /\ Holds(c, Daemon(c), Command(c, Daemon(c)))
=============================================================================
