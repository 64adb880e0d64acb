------------------------------- MODULE Layers -------------------------------
(***************************************************************************)
(* oci-layer: the difference between two states of a root directory, the   *)
(* layer archive written from it, and the archive applied to a directory.  *)
(*                                                                         *)
(* A tree is a function from paths (non-empty sequences of names) to nodes *)
(* whose domain contains the parent of each of its paths.  The data of a   *)
(* link is the path it leads to.  Files with one inode number are hard     *)
(* links of each other.                                                    *)
(***************************************************************************)
EXTENDS Integers, FiniteSets, Sequences, SequencesExt

CONSTANTS
    Names,      \* the file names, in the order of their bytes
    MaxLinks    \* how many symbolic links the kernel follows

ASSUME NamesAssumption == Names \in Seq(STRING) /\ MaxLinks \in Nat

(* A node of a tree.  stamp is the modification time, arch says whether    *)
(* the bytes of a file are an archive and how it is compressed.            *)
Node(kind, mode, data, stamp) ==
    [kind |-> kind, mode |-> mode, owner |-> "self", data |-> data, stamp |-> stamp,
     size |-> 1, ino |-> 0, arch |-> "no"]

Dir(stamp) == Node("dir", "rx", <<>>, stamp)

(***************************************************************************)
(* Paths.                                                                  *)
(***************************************************************************)
Rank(name) == CHOOSE i \in DOMAIN Names : Names[i] = name

(* The order of PathBuf: component by component, a parent first.           *)
PathBefore(p, q) ==
    \/ IsStrictPrefix(p, q)
    \/ \E i \in 1..Len(p) : /\ i <= Len(q) /\ p[i] # q[i]
                            /\ SubSeq(p, 1, i - 1) = SubSeq(q, 1, i - 1)
                            /\ Rank(p[i]) < Rank(q[i])

LastPath(S) == CHOOSE p \in S : \A q \in S \ {p} : PathBefore(q, p)

InOrder(S) ==
    MapThenFoldSet(LAMBDA p, s : Append(s, p), <<>>, LAMBDA p : p, LastPath, S)

Below(p, q) == IsPrefix(q, p)
WithoutTree(tree, p) == Restrict(tree, {q \in DOMAIN tree : ~Below(q, p)})
With(tree, p, node) == [q \in DOMAIN tree \cup {p} |-> IF q = p THEN node ELSE tree[q]]
Parents(p) == {SubSeq(p, 1, i) : i \in 1..(Len(p) - 1)}

(* Where the kernel arrives when it walks to the directory p: st is dir,   *)
(* missing, notdir or loop.                                                *)
RECURSIVE WalkTo(_, _, _)
WalkTo(tree, p, links) ==
    IF p = <<>> THEN [st |-> "dir", at |-> <<>>]
    ELSE LET d == WalkTo(tree, Front(p), links)
             q == Append(d.at, Last(p))
         IN CASE d.st # "dir" -> d
              [] q \notin DOMAIN tree -> [st |-> "missing", at |-> q]
              [] tree[q].kind = "dir" -> [st |-> "dir", at |-> q]
              [] tree[q].kind = "link" /\ links > 0 -> WalkTo(tree, tree[q].data, links - 1)
              [] tree[q].kind = "link" -> [st |-> "loop", at |-> q]
              [] OTHER -> [st |-> "notdir", at |-> q]

Directory(tree, p) == WalkTo(tree, p, MaxLinks)

(* create_dir_all of the standard library.                                 *)
RECURSIVE CreateDirAll(_, _, _)
CreateDirAll(tree, p, stamp) ==
    IF p = <<>> THEN [ok |-> TRUE, tree |-> tree]
    ELSE LET up == CreateDirAll(tree, Front(p), stamp)
             here == Append(Directory(up.tree, Front(p)).at, Last(p))
         IN CASE ~up.ok -> up
              [] here \notin DOMAIN up.tree ->
                    [ok |-> TRUE, tree |-> With(up.tree, here, Dir(stamp))]
              [] OTHER -> [ok |-> Directory(up.tree, p).st = "dir", tree |-> up.tree]

(***************************************************************************)
(* The difference of a directory and an earlier snapshot of it.            *)
(***************************************************************************)

(* What a snapshot keeps of a node: no time of a directory.                *)
Capture(tree) ==
    [p \in DOMAIN tree |->
        IF tree[p].kind = "dir" THEN [tree[p] EXCEPT !.stamp = 0] ELSE tree[p]]

(* Mutant: the modification time is not compared.                          *)
EntryDiffersBySize(b, a) ==
    \/ b.kind # a.kind \/ b.mode # a.mode \/ b.owner # a.owner
    \/ b.kind \in {"other", "link"} /\ b.data # a.data
    \/ b.kind = "file" /\ b.size # a.size

EntryDiffers(b, a) ==
    \/ b.kind # a.kind \/ b.mode # a.mode \/ b.owner # a.owner
    \/ b.kind \in {"other", "link"} /\ b.data # a.data
    \/ b.kind \in {"other", "file"} /\ b.stamp # a.stamp
    \/ b.kind = "file" /\ b.size # a.size

(* The paths that are gone, where their parents are not.                   *)
Deleted(before, after) ==
    {p \in DOMAIN before \ DOMAIN after : Len(p) = 1 \/ Front(p) \in DOMAIN after}

Changes(root, before) ==
    LET after == Capture(root)
        added == DOMAIN after \ DOMAIN before
        modified == {p \in DOMAIN after \cap DOMAIN before : EntryDiffers(before[p], after[p])}
        deleted == Deleted(before, after)
        found == added \cup modified \cup deleted
        bubbled == UNION {Parents(p) : p \in found} \cap DOMAIN after
    IN [p \in found \cup bubbled |->
            CASE p \in added -> "added"
              [] p \in deleted -> "deleted"
              [] OTHER -> "modified"]

(***************************************************************************)
(* The archive of a list of changes, of a whole tree, of one path.         *)
(***************************************************************************)
Whiteout(p) == [what |-> "whiteout", path |-> p, node |-> Dir(0), to |-> <<>>]

(* write_entry: devices are left out; the second name of an inode is a     *)
(* link to its first.  The time of the entry is not kept by apply.         *)
WriteEntry(layer, tree, p) ==
    LET n == [tree[p] EXCEPT !.stamp = 0]
        twins == {i \in DOMAIN layer : /\ layer[i].what = "entry"
                                       /\ layer[i].node.ino = n.ino}
    IN CASE p \notin DOMAIN tree \/ tree[p].kind = "other" -> layer
         [] n.kind = "file" /\ n.ino # 0 /\ twins # {} ->
                Append(layer, [what |-> "link", path |-> p, node |-> n,
                               to |-> layer[CHOOSE i \in twins : TRUE].path])
         [] OTHER -> Append(layer, [what |-> "entry", path |-> p, node |-> n, to |-> <<>>])

Export(tree, changes) ==
    FoldLeft(LAMBDA layer, p : IF changes[p] = "deleted" THEN Append(layer, Whiteout(p))
                               ELSE WriteEntry(layer, tree, p),
             <<>>, InOrder(DOMAIN changes))

(* export_tree does not go below a mount point.                            *)
CollectPaths(tree, mounts) ==
    {p \in DOMAIN tree : \A q \in Parents(p) : q \notin mounts}

ExportTree(tree, mounts) ==
    FoldLeft(LAMBDA layer, p : WriteEntry(layer, tree, p),
             <<>>, InOrder(CollectPaths(tree, mounts)))

(* The same for one path, whose own name is the first of the archive.      *)
ExportSinglePathTree(tree, top, mounts) ==
    LET kept == {p \in CollectPaths(tree, mounts) : Below(p, top)}
        named == [p \in {SubSeq(q, Len(top), Len(q)) : q \in kept} |->
                    tree[Front(top) \o p]]
    IN ExportTree(named, {})

(***************************************************************************)
(* Applying an archive.                                                    *)
(***************************************************************************)

(* What removing p does: an error only when a component is no directory.   *)
RemoveIfExists(tree, p) ==
    LET d == Directory(tree, Front(p))
    IN [ok |-> d.st \in {"dir", "missing"},
        tree |-> IF d.st = "dir" THEN WithoutTree(tree, Append(d.at, Last(p))) ELSE tree]

(* make_opaque: what this archive has not written below p is removed.      *)
MakeOpaque(s, p) ==
    LET d == Directory(s.tree, p)
        old == {q \in DOMAIN s.tree : /\ Len(q) > Len(d.at) /\ Below(q, d.at)
                                      /\ SubSeq(q, 1, Len(d.at) + 1) \notin s.written}
    IN [s EXCEPT !.ok = d.st \in {"dir", "missing"},
                 !.tree = IF d.st = "dir" THEN Restrict(@, DOMAIN @ \ old) ELSE @]

(* extract_entry: what is in the way goes, unless both are directories.    *)
ExtractEntry(s, e, stamp) ==
    LET where == Directory(s.tree, Front(e.path))
        there == Append(where.at, Last(e.path))
        check == ~s.empty \/ e.path \in s.written
        clash == /\ check /\ where.st = "dir" /\ there \in DOMAIN s.tree
                 /\ ~(s.tree[there].kind = "dir" /\ e.what = "entry" /\ e.node.kind = "dir")
        clear == IF clash THEN WithoutTree(s.tree, there) ELSE s.tree
        up == CreateDirAll(clear, Front(e.path), stamp)
        at == Append(Directory(up.tree, Front(e.path)).at, Last(e.path))
        from == Directory(up.tree, Front(e.to))
        source == Append(from.at, Last(e.to))
        node == IF e.what = "entry" THEN [e.node EXCEPT !.stamp = stamp, !.owner = "self"]
                ELSE up.tree[source]
    IN CASE ~up.ok -> [s EXCEPT !.ok = FALSE]
         [] e.what = "link" /\ (from.st # "dir" \/ source \notin DOMAIN up.tree) ->
                [s EXCEPT !.ok = FALSE, !.tree = up.tree]
         [] OTHER -> [s EXCEPT !.tree = With(up.tree, at, node), !.written = @ \cup {e.path}]

ApplyEntry(s, e, whiteouts, stamp) ==
    CASE ~s.ok -> s
      [] ".." \in Range(e.path) -> [s EXCEPT !.ok = FALSE]
      [] e.what = "opaque" /\ whiteouts -> MakeOpaque(s, Front(e.path))
      [] e.what = "whiteout" /\ whiteouts ->
            LET r == RemoveIfExists(s.tree, e.path)
            IN [s EXCEPT !.ok = r.ok, !.tree = r.tree]
      [] OTHER -> ExtractEntry(s, e, stamp)

ApplyTar(layer, tree, whiteouts, stamp) ==
    FoldLeft(LAMBDA s, e : ApplyEntry(s, e, whiteouts, stamp),
             [ok |-> TRUE, tree |-> tree, written |-> {}, empty |-> tree = <<>>], layer)

(* Which decompression a media type asks for.                              *)
CompressionForMediaType(media) ==
    CASE media \in {"oci.tar+gzip", "docker.tar.gzip"} -> "gzip"
      [] media = "oci.tar" -> "none"
      [] media = "oci.tar+zstd" -> "zstd"
      [] OTHER -> "unknown"

(* A stored layer: its media type and the archive its bytes decompress to. *)
CompressForStorage(layer) == [media |-> "oci.tar+gzip", tar |-> layer]
DiffId(layer) == layer

ApplyBlob(blob, tree, stamp) ==
    IF CompressionForMediaType(blob.media) = "unknown"
    THEN [ok |-> FALSE, tree |-> tree]
    ELSE LET s == ApplyTar(blob.tar, tree, TRUE, stamp) IN [ok |-> s.ok, tree |-> s.tree]

(* Layers applied one after the other to an empty directory.               *)
ApplyAll(blobs, stamp) ==
    FoldLeft(LAMBDA r, b : IF r.ok THEN ApplyBlob(b, r.tree, stamp) ELSE r,
             [ok |-> TRUE, tree |-> <<>>], blobs)

(* detect_archive: gzip and zstd by their magic and a first entry, a plain *)
(* archive by its first entry alone.                                       *)
DetectArchive(node) == IF node.kind = "file" THEN node.arch ELSE "no"

(* The part of a tree that a layer keeps.                                  *)
Content(tree) ==
    [p \in DOMAIN tree |-> [kind |-> tree[p].kind, mode |-> tree[p].mode,
                            data |-> tree[p].data]]
=============================================================================
