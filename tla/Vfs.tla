---- MODULE Vfs ----
(***************************************************************************)
(* The virtual file system of vfs.c: one list of nodes, newest first, to   *)
(* which mounting the archive of the boot medium and the shell's touch     *)
(* push, and which every search walks from its head.                       *)
(*                                                                         *)
(* A name is a base with or without a leading "./".  A base that is not    *)
(* typed by anybody stands for what the shell reads behind a command       *)
(* without an argument.  The mount loop runs on the boot thread with       *)
(* interrupts on; touch and write run in the keyboard handler.             *)
(***************************************************************************)
EXTENDS Integers, Sequences, FiniteSets, SequencesExt

CONSTANTS
    Bases,            \* names without a leading "./"
    Hidden,           \* those that begin with a dot
    Garbled,          \* the base read from a field of 100 bytes without an end
    Archive,          \* headers of the archive, in order
    Sizes,            \* sizes touch creates files with
    Texts,            \* texts a user may write
    KeysDuringBoot,   \* does anybody type while the archive is mounted?
    MaxFiles          \* bound: nodes

Name == [dot: BOOLEAN, base: Bases]

Header == [name: Name, dir: BOOLEAN, data: Seq(Nat), long: BOOLEAN]

vfs_node_t == [name: Name, dir: BOOLEAN, data: Seq(Nat)]

\* A directory of an archive has no data.
ASSUME VfsAssumption ==
    /\ Hidden \subseteq Bases /\ Garbled \in Bases
    /\ Archive \in Seq(Header)
    /\ \A k \in DOMAIN Archive : Archive[k].dir => Archive[k].data = <<>>
    /\ Sizes \subseteq Nat /\ Texts \subseteq Seq(Nat)
    /\ KeysDuringBoot \in BOOLEAN

VARIABLES
    nodes,      \* the list at root_fs
    ptr,        \* headers mounted
    link,       \* what the mount loop read from root_fs for node->next, as <<list>>, or NotRead
    created     \* names of the files created, in order

vars == <<nodes, ptr, link, created>>

NotRead == <<>>

----
\* Searching.

\* The "./" of a stored name is skipped unless the name asked for begins with a dot.
Matches(stored, name) ==
    /\ stored.base = name.base
    /\ \/ stored.dot = name.dot
       \/ stored.dot /\ ~name.dot /\ name.base \notin Hidden

\* Position of the node found, 0 for none.
vfs_open(name) == SelectInSeq(nodes, LAMBDA node : Matches(node.name, name))

----
\* Changing.

Node(name, dir, data) == [name |-> name, dir |-> dir, data |-> data]

\* Mutant: copies the whole text.
Overwritten_Unclamped(data, text) ==
    [i \in 1 .. (IF Len(text) > Len(data) THEN Len(text) ELSE Len(data)) |->
        IF i <= Len(text) THEN text[i] ELSE data[i]]

\* vfs_ram_write and vfs_tar_write at offset 0: the bytes that fit; the rest stays as it was.
Overwritten(data, text) ==
    [i \in DOMAIN data |-> IF i <= Len(text) THEN text[i] ELSE data[i]]

\* The name read back from the header's field.
StoredName(h) == IF h.long THEN {h.name, [dot |-> h.name.dot, base |-> Garbled]} ELSE {h.name}

\* A new node is filled in and its next field is read from root_fs,
MountReads ==
    /\ ptr < Len(Archive) /\ link = NotRead
    /\ link' = <<nodes>>
    /\ UNCHANGED <<nodes, ptr, created>>

\* Mutant: steps over one block too many, into the next entry.
MountLinks_Skips ==
    /\ link # NotRead
    /\ LET h == Archive[ptr + 1]
       IN  \E name \in StoredName(h) :
              /\ nodes' = <<Node(name, h.dir, h.data)>> \o link[1]
              /\ created' = Append(created, name)
    /\ ptr' = ptr + 2
    /\ link' = NotRead

\* and then root_fs is set to it.
MountLinks ==
    /\ link # NotRead
    /\ LET h == Archive[ptr + 1]
       IN  \E name \in StoredName(h) :
              /\ nodes' = <<Node(name, h.dir, h.data)>> \o link[1]
              /\ created' = Append(created, name)
    /\ ptr' = ptr + 1
    /\ link' = NotRead

Typing == KeysDuringBoot \/ ptr = Len(Archive)

\* Mutant: does not link the old list behind the new node.
vfs_touch_NoNext(name, size) ==
    /\ Typing
    /\ nodes' = <<Node(name, FALSE, [i \in 1 .. size |-> 0])>>
    /\ created' = Append(created, name)
    /\ UNCHANGED <<ptr, link>>

\* Names already there are not looked for: the newest node hides the others.
vfs_touch(name, size) ==
    /\ Typing
    /\ nodes' = <<Node(name, FALSE, [i \in 1 .. size |-> 0])>> \o nodes
    /\ created' = Append(created, name)
    /\ UNCHANGED <<ptr, link>>

vfs_write(name, text) ==
    /\ Typing /\ vfs_open(name) # 0
    /\ nodes' = [nodes EXCEPT ![vfs_open(name)] = Node(@.name, @.dir, Overwritten(@.data, text))]
    /\ UNCHANGED <<ptr, link, created>>

Init == nodes = <<>> /\ ptr = 0 /\ link = NotRead /\ created = <<>>

Next == \/ MountReads \/ MountLinks
        \/ \E name \in Name, size \in Sizes : Len(created) < MaxFiles /\ vfs_touch(name, size)
        \/ \E name \in Name, text \in Texts : vfs_write(name, text)

Spec == Init /\ [][Next]_vars

----
\* Properties.

TypeOK ==
    /\ nodes \in Seq(vfs_node_t)
    /\ ptr \in 0 .. Len(Archive)
    /\ Len(link) <= 1
    /\ \A i \in DOMAIN link : link[i] \in Seq(vfs_node_t)
    /\ created \in Seq(Name)

(* Each file the mount loop made, or the shell called created (kernel.c:167), stays on the list,   *)
(* newest first, whatever the mount loop and the keyboard handler do to root_fs in turn.          *)
NothingIsLost ==
    [i \in DOMAIN nodes |-> nodes[i].name] = Reverse(created)

NoFile == <<-1>>

Alike == [n \in Name |-> {n, [n EXCEPT !.dot = ~@]}]

Content == [n \in Name |-> LET i == vfs_open(n) IN IF i = 0 THEN NoFile ELSE nodes[i].data]

Abs == INSTANCE FileStore
         WITH Names <- Name, content <- Content, made <- Len(created)

(* The list implements a map from names to contents: mount and touch give a new content to one     *)
(* name and the names that differ from it by "./" only, a write changes one file in place without  *)
(* moving its end, and a name that led to a file always does.                                      *)
ImplementsFileStore == Abs!AbsSpec
====
