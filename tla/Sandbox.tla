------------------------------ MODULE Sandbox ------------------------------
(***************************************************************************)
(* What a sandbox shows (src/nyne/src/sandbox: overlay.rs, primitives/).   *)
(* A world is what one process has: the mounts it sees, in the order they  *)
(* were made, what is on the disks, and what the process may do.  A verb   *)
(* takes a world to the next one, or to one that has failed.               *)
(*                                                                         *)
(* A path is a sequence of names, a place a path on a file system.  The    *)
(* kernel's rules are external: the last mount made at or above a path     *)
(* serves it, and a recursive bind copies the mounts below its source.     *)
(* Permissions, locked flags and propagation are left out.                 *)
(***************************************************************************)
EXTENDS SequencesExt, FiniteSetsExt

Place(fs, path) == [fs |-> fs, path |-> path]
Rest(above, path) == SubSeq(path, Len(above) + 1, Len(path))
MountAt(at, place, flags) == [at |-> at, fs |-> place.fs, root |-> place.path, flags |-> flags]

Serving(w, path) == Max({i \in DOMAIN w.mounts : IsPrefix(w.mounts[i].at, path)})
ShownBy(m, path) == Place(m.fs, m.root \o Rest(m.at, path))
Shown(w, path) == ShownBy(w.mounts[Serving(w, path)], path)
FlagsOf(w, path) == w.mounts[Serving(w, path)].flags
OnDisk(w, place) == IF place \in DOMAIN w.disk THEN w.disk[place] ELSE "none"
Kind(w, path) == OnDisk(w, Shown(w, path))
IsDir(w, path) == Kind(w, path) = "dir"

(* The next world if the condition holds and nothing failed before.   *)
Try(w, condition, next) == IF w.ok /\ condition THEN next ELSE [w EXCEPT !.ok = FALSE]

----------------------------------------------------------------------------
(* The verbs of primitives/mnt.rs.                                         *)

Mounted(w, ms) == [w EXCEPT !.mounts = @ \o ms]
NewDisk(w, fs) == [w EXCEPT !.disk = Place(fs, <<>>) :> "dir" @@ @]
tmpfs(w, target, fs) ==
    Try(w, w.caps /\ IsDir(w, target), Mounted(NewDisk(w, fs), <<MountAt(target, Place(fs, <<>>), {})>>))
proc(w, target) ==
    Try(w, w.caps /\ IsDir(w, target),
        Mounted(w, <<MountAt(target, Place(IF w.pidns THEN "proc" ELSE "hostproc", <<>>), {})>>))
overlay(w, target, lower, upper) ==
    Try(w, w.caps /\ IsDir(w, target) /\ IsDir(w, lower) /\ IsDir(w, upper),
        [Mounted(w, <<MountAt(target, Place("overlay", <<>>), {})>>) EXCEPT
            !.layers = [lower |-> Shown(w, lower), upper |-> Shown(w, upper)]])

Below(w, source, target) ==
    LET under == SelectSeq(SubSeq(w.mounts, Serving(w, source) + 1, Len(w.mounts)),
                           LAMBDA m : IsStrictPrefix(source, m.at))
    IN [k \in DOMAIN under |-> [under[k] EXCEPT !.at = target \o Rest(source, @)]]
bind(w, source, target) ==
    Try(w, /\ w.caps /\ Kind(w, source) # "none" /\ Kind(w, target) # "none"
           /\ IsDir(w, source) = IsDir(w, target),
        Mounted(w, <<MountAt(target, Shown(w, source), FlagsOf(w, source))>> \o Below(w, source, target)))
remount(w, target, flags) ==
    Try(w, w.caps /\ w.mounts[Serving(w, target)].at = target,
        [w EXCEPT !.mounts[Serving(w, target)].flags = flags])

(* A lazy unmount takes what is mounted below along.                       *)
Without(ms, i) ==
    SubSeq(ms, 1, i - 1) \o
    SelectSeq(SubSeq(ms, i + 1, Len(ms)), LAMBDA m : ~IsPrefix(ms[i].at, m.at))
detach(w, target) ==
    Try(w, w.caps /\ w.mounts[Serving(w, target)].at = target,
        [w EXCEPT !.mounts = Without(@, Serving(w, target))])
clone_mount(w, path) == MountAt(<<>>, Shown(w, path), FlagsOf(w, path))
attach(w, tree, target) == Try(w, w.caps /\ IsDir(w, target), Mounted(w, <<[tree EXCEPT !.at = target]>>))

(* The new root becomes `/`, and the old one goes with its mounts.         *)
Reached(ms, newroot) == SelectSeq(ms, LAMBDA m : IsPrefix(newroot, m.at))
pivot(w, newroot) ==
    Try(w, w.caps /\ w.mounts[Serving(w, newroot)].at = newroot,
        [w EXCEPT !.mounts =
            LET kept == Reached(SubSeq(@, Serving(w, newroot), Len(@)), newroot)
            IN [k \in DOMAIN kept |-> [kept[k] EXCEPT !.at = Rest(newroot, @)]]])

(* create_dir_all and File::create, through whatever is mounted.           *)
Missing(w, path) == {q \in Prefixes(path) : ~IsDir(w, q)}
Created(w, paths, kind) == [w EXCEPT !.disk = [pl \in {Shown(w, q) : q \in paths} |-> kind] @@ @]
Writable(w, path) == "read_only" \notin FlagsOf(w, path)
dirs(w, path) ==
    Try(w, \A q \in Missing(w, path) : Kind(w, q) = "none" /\ Writable(w, q),
        Created(w, Missing(w, path), "dir"))
create_file(w, path) ==
    Try(w, IsDir(w, Front(path)) /\ ~IsDir(w, path) /\ Writable(w, path), Created(w, {path}, "empty"))
symlink(w, path) == Try(w, Kind(w, path) = "none" /\ Writable(w, path), Created(w, {path}, "link"))

----------------------------------------------------------------------------
(* Namespaces (primitives/namespace.rs).  An id map is written through     *)
(* /proc; mounting takes the root identity of the daemon's user namespace. *)

write_id_maps(w, caps) ==
    Try(w, Shown(w, <<"proc">>).fs \in {"proc", "hostproc"}, [w EXCEPT !.caps = caps])
unshare_user_mount(w) == write_id_maps(w, TRUE)
unshare_user_remap(w) == write_id_maps(w, FALSE)
enter(w, daemon) == [daemon EXCEPT !.ok = w.ok, !.caps = TRUE]
unshare_uts(w) == Try(w, w.caps, w)
unshare_pid(w) == Try(w, w.caps, [w EXCEPT !.pidns = TRUE])

(* Per-process scaffolding (ProcState::new).                               *)
fs_of(state_root, pid) == state_root \o <<"proc", pid, "fs">>

----------------------------------------------------------------------------
(* The lower layer: a clone of HEAD (src/plugins/git/src/clone.rs).  The   *)
(* objects of a repository are trees and blobs, by their id.               *)

RECURSIVE copy_tree_objects(_, _, _), copy_entries(_, _, _)
copy_tree_objects(objects, tree, seen) ==
    IF tree \in seen THEN seen ELSE copy_entries(objects, objects[tree].entries, seen \cup {tree})
copy_entries(objects, entries, seen) ==
    IF entries = <<>> THEN seen
    ELSE LET id == entries[1].id
         IN copy_entries(objects, Tail(entries),
                IF id \notin DOMAIN objects THEN seen
                ELSE IF objects[id].kind = "tree" THEN copy_tree_objects(objects, id, seen)
                ELSE seen \cup {id})

(* A tree checked out: what is at each path below `at`.                    *)
RECURSIVE checkout(_, _, _)
checkout(objects, id, at) ==
    IF id \notin DOMAIN objects THEN at :> "missing"
    ELSE IF objects[id].kind = "blob" THEN at :> id
    ELSE FoldLeft(LAMBDA files, e : checkout(objects, e.id, Append(at, e.name)) @@ files,
                  at :> "dir", objects[id].entries)

clone_snapshot(repo) ==
    LET copied == copy_tree_objects(repo.objects, repo.head, {})
    IN checkout([id \in copied |-> repo.objects[id]], repo.head, <<>>)
clone_hardlink(repo) ==
    IF repo.head = "unborn" THEN <<>> :> "dir" ELSE checkout(repo.objects, repo.head, <<>>)
Cloned(repo, strategy) == IF strategy = "snapshot" THEN clone_snapshot(repo) ELSE clone_hardlink(repo)

CheckedOut(w, top, files) ==
    [w EXCEPT !.disk = [pl \in {Place(top.fs, top.path \o at) : at \in DOMAIN files} |->
                            files[Rest(top.path, pl.path)]] @@ @]
clone_project(w, target, strategy, repo) ==
    Try(w, repo.opens /\ (strategy = "snapshot" => repo.head # "unborn"),
        CheckedOut(w, Shown(w, target), Cloned(repo, strategy)))

----------------------------------------------------------------------------
(* The daemon: its storage, and FUSE over the project.                     *)

mount_overlay_layers(w, fs, path) ==
    overlay(dirs(dirs(w, fs \o <<"upper">> \o path), fs \o <<"work">> \o path),
            fs \o <<"merged">> \o path, fs \o <<"lower">> \o path, fs \o <<"upper">> \o path)
locked(w, lower) == remount(bind(w, lower, lower), lower, {"read_only"})
prepare_project_storage(w, path, fs, strategy, repo) ==
    LET merged == fs \o <<"merged">> \o path
        lower == fs \o <<"lower">> \o path
    IN IF strategy = "passthrough" THEN bind(dirs(w, merged), path, merged)
       ELSE mount_overlay_layers(
                locked(clone_project(dirs(dirs(w, merged), lower), lower, strategy, repo), lower),
                fs, path)
daemon_main(w, path, fs, strategy, repo) ==
    attach(prepare_project_storage(unshare_user_mount(w), path, fs, strategy, repo),
           MountAt(<<>>, Place("fuse", <<>>), {}), path)

----------------------------------------------------------------------------
(* The command's root (overlay::setup).                                    *)

SkipRootPaths == {<<"tmp">>, <<"home">>}
RootEntries(w) == {<<pl.path[1]>> : pl \in {q \in DOMAIN w.disk : q.fs = Shown(w, <<>>).fs /\ Len(q.path) = 1}}
RECURSIVE bind_host_root_entries(_, _, _)
bind_host_root_entries(w, newroot, entries) ==
    IF entries = <<>> THEN w
    ELSE LET source == entries[1]
             target == newroot \o source
         IN bind_host_root_entries(
                CASE Kind(w, source) = "link" -> symlink(w, target)
                  [] Kind(w, source) = "dir" -> bind(dirs(w, target), source, target)
                  [] OTHER -> w,
                newroot, Tail(entries))

(* Directories that exist, each once, in the order they are asked for.     *)
collect_xdg_dirs(w, candidates) ==
    FoldLeft(LAMBDA found, d : IF IsDir(w, d) /\ d \notin ToSet(found) THEN Append(found, d) ELSE found,
             <<>>, candidates)
RECURSIVE bind_xdg_dirs(_, _, _)
bind_xdg_dirs(w, newroot, xdg) ==
    IF xdg = <<>> THEN w
    ELSE bind_xdg_dirs(bind(dirs(w, newroot \o xdg[1]), xdg[1], newroot \o xdg[1]), newroot, Tail(xdg))

build_newroot(w, newroot, mount_root, candidates) ==
    LET scaffold == tmpfs(dirs(w, newroot), newroot, "newroot")
        entries == SetToSeq(RootEntries(w) \ (SkipRootPaths \cup {mount_root}))
        host == bind_host_root_entries(scaffold, newroot, entries)
    IN bind_xdg_dirs(tmpfs(dirs(host, newroot \o <<"tmp">>), newroot \o <<"tmp">>, "tmp"),
                     newroot, collect_xdg_dirs(w, candidates))

bind_point(w, bm, dst) ==
    IF IsDir(w, bm.source) THEN dirs(w, dst) ELSE create_file(dirs(w, Front(dst)), dst)
flagged(w, bm, dst) == IF bm.flags = {} THEN w ELSE remount(w, dst, bm.flags)
RECURSIVE apply_bind_mounts(_, _, _)
apply_bind_mounts(w, newroot, bind_mounts) ==
    IF bind_mounts = <<>> THEN w
    ELSE LET bm == bind_mounts[1]
             dst == newroot \o bm.target
         IN apply_bind_mounts(flagged(bind(bind_point(w, bm, dst), bm.source, dst), bm, dst),
                              newroot, Tail(bind_mounts))

(* Mutant: FUSE stays on the project while the host is bound.              *)
setupOverFuse(w, fuse_path, newroot, mount_root, bind_mounts, candidates) ==
    LET built == build_newroot(w, newroot, mount_root, candidates)
        root == pivot(apply_bind_mounts(built, newroot, bind_mounts), newroot)
    IN remount(attach(dirs(root, mount_root), clone_mount(w, fuse_path), mount_root), <<>>, {"read_only"})
setup(w, fuse_path, newroot, mount_root, bind_mounts, candidates) ==
    LET fuse == clone_mount(w, fuse_path)
        built == build_newroot(detach(w, fuse_path), newroot, mount_root, candidates)
        root == pivot(apply_bind_mounts(built, newroot, bind_mounts), newroot)
    IN remount(attach(dirs(root, mount_root), fuse, mount_root), <<>>, {"read_only"})

(* The command enters the daemon's namespaces, and PID 1 of its own        *)
(* mounts /proc while it still may (command_main, init_main).              *)
command_main(w, daemon, fuse_path, newroot, mount_root, bind_mounts, candidates) ==
    unshare_pid(unshare_uts(setup(enter(w, daemon), fuse_path, newroot, mount_root, bind_mounts, candidates)))
init_main(w) == unshare_user_remap(proc(w, <<"proc">>))

sandbox_cwd(cwd, fuse_path, mount_root) ==
    IF IsPrefix(fuse_path, cwd) THEN mount_root \o Rest(fuse_path, cwd) ELSE cwd
=============================================================================
