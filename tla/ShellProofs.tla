---- MODULE ShellProofs ----
(***************************************************************************)
(* The list of nodes and the shell above it, for every archive, any number *)
(* of files, every set of names, line length and width of int, with the    *)
(* keyboard idle until the archive is mounted: then what the mount loop    *)
(* read from root_fs is what root_fs still holds when it is written, so    *)
(* that nothing that was pushed is lost with its blocks.                   *)
(***************************************************************************)
EXTENDS Shell, WellFoundedInduction, TLAPS

----
\* The file system.

Nodes == Seq(vfs_node_t)

\* The mount loop owns root_fs between its read and its write.
ReadIsCurrent == link = NotRead \/ (ptr < Len(Archive) /\ link = <<nodes>>)

\* Headers are mounted first, so at least ptr nodes are on the list.
MountedAreListed == Len(nodes) >= ptr

VfsInv == TypeOK /\ ReadIsCurrent /\ MountedAreListed /\ NothingIsLost

(* A node's name as the mount loop stores it is a name. *)
LEMMA StoredNameIsName ==
    ASSUME NEW h \in Header
    PROVE  StoredName(h) \subseteq Name
BY VfsAssumption DEF StoredName, Header, Name

(* A write keeps the length of a file. *)
LEMMA OverwrittenType ==
    ASSUME NEW data \in Seq(Nat), NEW text \in Seq(Nat)
    PROVE  Overwritten(data, text) \in Seq(Nat)
<1>1. \A i \in 1 .. Len(data) : (IF i <= Len(text) THEN text[i] ELSE data[i]) \in Nat
  OBVIOUS
<1>2. DOMAIN data = 1 .. Len(data) /\ Len(data) \in Nat
  OBVIOUS
<1> QED
  BY <1>1, <1>2 DEF Overwritten

(* Pushing a node and noting its name keeps the two lists in step. *)
LEMMA PushKeepsNames ==
    ASSUME nodes \in Nodes, created \in Seq(Name), NothingIsLost,
           NEW node \in vfs_node_t,
           nodes' = <<node>> \o nodes, created' = Append(created, node.name)
    PROVE  /\ nodes' \in Nodes /\ created' \in Seq(Name)
           /\ Len(nodes') = Len(nodes) + 1
           /\ NothingIsLost'
<1> DEFINE n == Len(nodes)
<1>1. n \in Nat /\ DOMAIN nodes = 1 .. n
  BY DEF Nodes
<1>2. <<node>> \in Nodes /\ Len(<<node>>) = 1 /\ <<node>>[1] = node
  BY DEF Nodes
<1>3. /\ nodes' \in Nodes /\ Len(nodes') = n + 1 /\ DOMAIN nodes' = 1 .. n + 1
      /\ nodes'[1] = node /\ \A i \in 2 .. n + 1 : nodes'[i] = nodes[i - 1]
  BY <1>1, <1>2 DEF Nodes
<1>4. Len(created) = n /\ \A i \in 1 .. n : nodes[i].name = created[n - i + 1]
  <2>1. DOMAIN [i \in DOMAIN nodes |-> nodes[i].name] = 1 .. Len(created)
    BY DEF NothingIsLost, Reverse
  <2>2. Len(created) = n
    BY <1>1, <2>1
  <2> QED
    BY <1>1, <2>2 DEF NothingIsLost, Reverse
<1>5. /\ created' \in Seq(Name) /\ Len(created') = n + 1
      /\ created'[n + 1] = node.name /\ \A i \in 1 .. n : created'[i] = created[i]
  <2>1. node.name \in Name
    BY DEF vfs_node_t
  <2> QED
    BY <1>1, <1>4, <2>1
<1>6. \A i \in 1 .. n + 1 : nodes'[i].name = created'[(n + 1) - i + 1]
  <2> SUFFICES ASSUME NEW i \in 1 .. n + 1 PROVE nodes'[i].name = created'[(n + 1) - i + 1]
    OBVIOUS
  <2>1. CASE i = 1
    BY <1>1, <1>3, <1>5, <2>1
  <2>2. CASE i # 1
    <3>1. i \in 2 .. n + 1 /\ i - 1 \in 1 .. n /\ (n + 1) - i + 1 = n - (i - 1) + 1
          /\ n - (i - 1) + 1 \in 1 .. n
      BY <1>1, <2>2
    <3> QED
      BY <1>3, <1>4, <1>5, <3>1
  <2> QED
    BY <2>1, <2>2
<1>7. NothingIsLost'
  <2>1. \A i \in DOMAIN nodes' : nodes'[i].name = created'[(Len(created') - i) + 1]
    BY <1>3, <1>5, <1>6
  <2> QED
    BY <1>3, <1>5, <2>1 DEF NothingIsLost, Reverse
<1> QED
  BY <1>3, <1>5, <1>7

LEMMA MountReadsStep ==
    ASSUME VfsInv, MountReads
    PROVE  VfsInv'
<1>1. link' = <<nodes>> /\ nodes' = nodes /\ ptr' = ptr /\ created' = created /\ ptr < Len(Archive)
  BY DEF MountReads
<1>2. Len(link') = 1 /\ DOMAIN link' = {1} /\ link'[1] = nodes
  BY <1>1
<1>3. TypeOK'
  <2>1. \A i \in DOMAIN link' : link'[i] \in Nodes
    BY <1>2 DEF VfsInv, TypeOK, Nodes
  <2>2. nodes' \in Nodes /\ ptr' \in 0 .. Len(Archive) /\ created' \in Seq(Name)
    BY <1>1 DEF VfsInv, TypeOK, Nodes
  <2> QED
    BY <1>2, <2>1, <2>2 DEF TypeOK, Nodes
<1> QED
  BY <1>1, <1>3 DEF VfsInv, ReadIsCurrent, MountedAreListed, NothingIsLost

LEMMA MountLinksStep ==
    ASSUME VfsInv, MountLinks
    PROVE  VfsInv' /\ Len(nodes') = Len(nodes) + 1
<1>1. ptr \in Nat /\ Len(Archive) \in Nat /\ ptr < Len(Archive) /\ link = <<nodes>> /\ link[1] = nodes
  BY VfsAssumption DEF VfsInv, TypeOK, ReadIsCurrent, MountLinks, NotRead
<1>2. Archive[ptr + 1] \in Header
  BY <1>1, VfsAssumption
<1>3. PICK name \in StoredName(Archive[ptr + 1]) :
         /\ nodes' = <<Node(name, Archive[ptr + 1].dir, Archive[ptr + 1].data)>> \o nodes
         /\ created' = Append(created, name)
  BY <1>1 DEF MountLinks
<1> DEFINE node == Node(name, Archive[ptr + 1].dir, Archive[ptr + 1].data)
<1>4. name \in Name
  BY <1>2, <1>3, StoredNameIsName
<1>5. node \in vfs_node_t /\ node.name = name
  BY <1>2, <1>4 DEF Node, Header, vfs_node_t
<1>6. nodes \in Nodes /\ created \in Seq(Name) /\ NothingIsLost
  BY DEF VfsInv, TypeOK, Nodes
<1> HIDE DEF node
<1>7. nodes' = <<node>> \o nodes /\ created' = Append(created, node.name)
  BY <1>3, <1>5 DEF node
<1>8. nodes' \in Nodes /\ created' \in Seq(Name) /\ Len(nodes') = Len(nodes) + 1 /\ NothingIsLost'
  BY <1>5, <1>6, <1>7, PushKeepsNames
<1>9. ptr' = ptr + 1 /\ link' = NotRead
  BY DEF MountLinks
<1>10. TypeOK'
  BY <1>1, <1>8, <1>9 DEF TypeOK, Nodes, NotRead
<1>11. MountedAreListed'
  BY <1>1, <1>6, <1>8, <1>9 DEF VfsInv, MountedAreListed, Nodes
<1> QED
  BY <1>8, <1>9, <1>10, <1>11 DEF VfsInv, ReadIsCurrent

(* The keyboard handler runs between two steps of the boot thread; while the mount loop is done    *)
(* it finds nothing read.                                                                         *)
LEMMA TouchKeepsFiles ==
    ASSUME KeysDuringBoot = FALSE, VfsInv, NEW name \in Name, NEW bytes \in Nat, vfs_touch(name, bytes)
    PROVE  VfsInv' /\ Len(nodes') = Len(nodes) + 1
<1> DEFINE node == Node(name, FALSE, [i \in 1 .. bytes |-> 0])
<1>1. node \in vfs_node_t /\ node.name = name
  <2>1. [i \in 1 .. bytes |-> 0] \in Seq(Nat)
    OBVIOUS
  <2> QED
    BY <2>1 DEF Node, vfs_node_t
<1>2. nodes' = <<node>> \o nodes /\ created' = Append(created, name) /\ ptr' = ptr /\ link' = link
  BY DEF vfs_touch
<1>3. nodes \in Nodes /\ created \in Seq(Name) /\ NothingIsLost
  BY DEF VfsInv, TypeOK, Nodes
<1> HIDE DEF node
<1>4. nodes' \in Nodes /\ created' \in Seq(Name) /\ Len(nodes') = Len(nodes) + 1 /\ NothingIsLost'
  BY <1>1, <1>2, <1>3, PushKeepsNames
<1>5. ptr = Len(Archive) /\ Len(Archive) \in Nat /\ link = NotRead
  BY VfsAssumption DEF vfs_touch, Typing, VfsInv, ReadIsCurrent
<1>6. TypeOK'
  BY <1>2, <1>4, <1>5 DEF VfsInv, TypeOK, Nodes, NotRead
<1>7. MountedAreListed'
  BY <1>2, <1>3, <1>4, <1>5 DEF VfsInv, MountedAreListed, Nodes
<1> QED
  BY <1>2, <1>4, <1>5, <1>6, <1>7 DEF VfsInv, ReadIsCurrent

(* A sequence as a function. *)
LEMMA SeqIsFunction ==
    ASSUME NEW S, NEW s \in Seq(S)
    PROVE  s \in [1 .. Len(s) -> S] /\ Len(s) \in Nat
OBVIOUS

(* Giving one node of a list other data leaves the list as long as it was and every name in place. *)
LEMMA OtherDataSameNames ==
    ASSUME NEW list \in Nodes, NEW k, NEW node,
           k \in DOMAIN list => node \in vfs_node_t /\ node.name = list[k].name
    PROVE  /\ [list EXCEPT ![k] = node] \in Nodes
           /\ DOMAIN [list EXCEPT ![k] = node] = DOMAIN list
           /\ Len([list EXCEPT ![k] = node]) = Len(list)
           /\ \A i \in DOMAIN list : [list EXCEPT ![k] = node][i].name = list[i].name
<1> DEFINE new == [list EXCEPT ![k] = node]
<1>1. list \in [1 .. Len(list) -> vfs_node_t] /\ Len(list) \in Nat
  BY SeqIsFunction DEF Nodes
<1>2. new \in [1 .. Len(list) -> vfs_node_t]
  BY <1>1
<1>3. new \in Seq(vfs_node_t) /\ Len(new) = Len(list)
  BY <1>1, <1>2
<1> QED
  BY <1>1, <1>2, <1>3 DEF Nodes

LEMMA WriteKeepsFiles ==
    ASSUME KeysDuringBoot = FALSE, VfsInv, NEW name \in Name, NEW text \in Texts, vfs_write(name, text)
    PROVE  VfsInv' /\ Len(nodes') = Len(nodes)
<1> DEFINE k == vfs_open(name)
           node == Node(nodes[k].name, nodes[k].dir, Overwritten(nodes[k].data, text))
<1>1. nodes' = [nodes EXCEPT ![k] = node] /\ UNCHANGED <<ptr, link, created>>
  BY DEF vfs_write
<1>2. nodes \in Nodes /\ created \in Seq(Name) /\ text \in Seq(Nat)
  BY VfsAssumption DEF VfsInv, TypeOK, Nodes
<1>3. /\ nodes' \in Nodes /\ DOMAIN nodes' = DOMAIN nodes /\ Len(nodes') = Len(nodes)
      /\ \A i \in DOMAIN nodes : nodes'[i].name = nodes[i].name
  <2> HIDE DEF k
  <2>1. ASSUME k \in DOMAIN nodes
        PROVE  node \in vfs_node_t /\ node.name = nodes[k].name
    <3>1. nodes[k] \in vfs_node_t
      BY <1>2, <2>1, SeqIsFunction DEF Nodes
    <3>2. Overwritten(nodes[k].data, text) \in Seq(Nat)
      BY <1>2, <3>1, OverwrittenType DEF vfs_node_t
    <3> QED
      BY <3>1, <3>2 DEF Node, vfs_node_t
  <2> HIDE DEF node
  <2> QED
    BY <1>1, <1>2, <2>1, OtherDataSameNames
<1>4. ptr = Len(Archive) /\ link = NotRead /\ Len(Archive) \in Nat
  BY VfsAssumption DEF vfs_write, Typing, VfsInv, ReadIsCurrent
<1>5. NothingIsLost'
  BY <1>1, <1>3 DEF VfsInv, NothingIsLost
<1>6. TypeOK'
  BY <1>1, <1>3, <1>4 DEF VfsInv, TypeOK, Nodes, NotRead
<1> QED
  BY <1>1, <1>3, <1>4, <1>5, <1>6 DEF VfsInv, ReadIsCurrent, MountedAreListed

LEMMA VfsInvInit ==
    ASSUME Init
    PROVE  VfsInv
BY VfsAssumption DEF Init, VfsInv, TypeOK, ReadIsCurrent, MountedAreListed, NothingIsLost, NotRead, Reverse

LEMMA VfsInvNext ==
    ASSUME KeysDuringBoot = FALSE, VfsInv, [Next]_vars
    PROVE  VfsInv'
<1>1. CASE MountReads
  BY <1>1, MountReadsStep
<1>2. CASE MountLinks
  BY <1>2, MountLinksStep
<1>3. ASSUME NEW name \in Name, NEW bytes \in Sizes, vfs_touch(name, bytes)
      PROVE  VfsInv'
  BY <1>3, TouchKeepsFiles, VfsAssumption
<1>4. ASSUME NEW name \in Name, NEW text \in Texts, vfs_write(name, text)
      PROVE  VfsInv'
  BY <1>4, WriteKeepsFiles
<1>5. CASE UNCHANGED vars
  BY <1>5 DEF vars, VfsInv, TypeOK, ReadIsCurrent, MountedAreListed, NothingIsLost, NotRead
<1> QED
  BY <1>1, <1>2, <1>3, <1>4, <1>5 DEF Next

LEMMA VfsInvariant == KeysDuringBoot = FALSE => (Spec => []VfsInv)
<1> SUFFICES ASSUME KeysDuringBoot = FALSE PROVE Spec => []VfsInv
  OBVIOUS
<1>1. Init => VfsInv
  BY VfsInvInit
<1>2. VfsInv /\ [Next]_vars => VfsInv'
  BY VfsInvNext
<1> QED
  BY <1>1, <1>2, PTL DEF Spec

(* Names and contents of the nodes, the mount loop's position and its read keep their types.       *)
THEOREM VfsTypeCorrect == KeysDuringBoot = FALSE => (Spec => []TypeOK)
<1>1. VfsInv => TypeOK
  BY DEF VfsInv
<1> QED
  BY <1>1, VfsInvariant, PTL

(* With nobody typing until the archive is mounted, each file the mount loop or vfs_touch pushed   *)
(* to root_fs stays on the list, in the order of the pushes.                                       *)
THEOREM FilesStay == KeysDuringBoot = FALSE => (Spec => []NothingIsLost)
<1>1. VfsInv => NothingIsLost
  BY DEF VfsInv
<1> QED
  BY <1>1, VfsInvariant, PTL

----
\* The map from names to contents.

\* A set of naturals has a least element.
LEMMA LeastElement ==
    ASSUME NEW T, T \subseteq Nat, T # {}
    PROVE  \E x \in T : \A y \in T : x <= y
<1> DEFINE R == OpToRel(<, Nat)
<1>1. IsWellFoundedOn(R, Nat)
  BY NatLessThanWellFounded
<1>2. \A a, b \in Nat : a < b => <<a, b>> \in R
  BY DEF OpToRel
<1> HIDE DEF R
<1>3. PICK x \in T : \A y \in T : <<y, x>> \notin R
  BY <1>1, WFMin
<1>4. ASSUME NEW y \in T PROVE x <= y
  <2>1. ~(y < x)
    BY <1>2, <1>3
  <2> QED
    BY <2>1
<1> QED
  BY <1>4

Found(list, n) == SelectInSeq(list, LAMBDA node : Matches(node.name, n))
ContentOf(list, n) == IF Found(list, n) = 0 THEN NoFile ELSE list[Found(list, n)].data

\* A search ends at the first node that matches.
FirstMatch(list, n, i) ==
    \/ i = 0 /\ \A k \in DOMAIN list : ~Matches(list[k].name, n)
    \/ /\ i \in DOMAIN list /\ Matches(list[i].name, n)
       /\ \A k \in DOMAIN list : k < i => ~Matches(list[k].name, n)

LEMMA FoundIsFirst ==
    ASSUME NEW list \in Nodes, NEW n
    PROVE  /\ FirstMatch(list, n, Found(list, n))
           /\ \A i : FirstMatch(list, n, i) => i = Found(list, n)
<1> DEFINE I == {k \in 1 .. Len(list) : Matches(list[k].name, n)}
<1>1. Len(list) \in Nat /\ DOMAIN list = 1 .. Len(list)
  BY SeqIsFunction DEF Nodes
<1>2. Found(list, n) = IF I # {} THEN Min(I) ELSE 0
  BY DEF Found, SelectInSeq
<1>3. CASE I = {}
  BY <1>1, <1>2, <1>3 DEF FirstMatch
<1>4. CASE I # {}
  <2>0. I \subseteq Nat
    OBVIOUS
  <2> HIDE DEF I
  <2>1. \E x \in I : \A y \in I : x <= y
    BY <1>4, <2>0, LeastElement
  <2>2. Min(I) \in I /\ \A y \in I : Min(I) <= y
    BY <2>1 DEF Min
  <2>3. Found(list, n) = Min(I)
    BY <1>2, <1>4
  <2> USE DEF I
  <2>6. Min(I) \in DOMAIN list /\ Matches(list[Min(I)].name, n)
    BY <1>1, <2>2
  <2>7. \A k \in DOMAIN list : k < Min(I) => ~Matches(list[k].name, n)
    <3> SUFFICES ASSUME NEW k \in DOMAIN list, k < Min(I), Matches(list[k].name, n) PROVE FALSE
      OBVIOUS
    <3>1. k \in I
      BY <1>1
    <3> QED
      BY <1>1, <2>2, <2>6, <3>1
  <2>4. FirstMatch(list, n, Found(list, n))
    BY <2>3, <2>6, <2>7 DEF FirstMatch
  <2>5. ASSUME NEW i, FirstMatch(list, n, i) PROVE i = Min(I)
    <3>1. i \in I
      BY <1>1, <2>5, <2>6 DEF FirstMatch
    <3>2. ~(Min(I) < i) /\ Min(I) <= i
      BY <1>1, <2>2, <2>5, <3>1 DEF FirstMatch
    <3> QED
      BY <2>2, <3>1, <3>2
  <2> QED
    BY <2>3, <2>4, <2>5
<1> QED
  BY <1>3, <1>4

\* The contents read through the list.
LEMMA ContentIsContentOf ==
    /\ Content = [n \in Name |-> ContentOf(nodes, n)]
    /\ Content' = [n \in Name |-> ContentOf(nodes', n)]
<1>1. \A n : vfs_open(n) = Found(nodes, n) /\ vfs_open(n)' = Found(nodes', n)
  BY DEF vfs_open, Found, SelectInSeq
<1>2. Content = [n \in Name |-> IF vfs_open(n) = 0 THEN NoFile ELSE nodes[vfs_open(n)].data]
  BY DEF Content
<1>3. Content' = [n \in Name |-> IF vfs_open(n)' = 0 THEN NoFile ELSE nodes'[vfs_open(n)'].data]
  BY DEF Content
<1> QED
  BY <1>1, <1>2, <1>3 DEF ContentOf

LEMMA ContentType ==
    ASSUME NEW list \in Nodes, NEW n
    PROVE  /\ Found(list, n) = 0 => ContentOf(list, n) = NoFile
           /\ Found(list, n) # 0 => /\ Found(list, n) \in DOMAIN list
                                    /\ ContentOf(list, n) = list[Found(list, n)].data
                                    /\ ContentOf(list, n) \in Seq(Nat)
                                    /\ ContentOf(list, n) # NoFile
<1>1. CASE Found(list, n) = 0
  BY <1>1 DEF ContentOf
<1>2. CASE Found(list, n) # 0
  <2>1. Found(list, n) \in DOMAIN list
    BY <1>2, FoundIsFirst DEF FirstMatch
  <2>2. list[Found(list, n)] \in vfs_node_t
    BY <2>1, SeqIsFunction DEF Nodes
  <2>3. ContentOf(list, n) = list[Found(list, n)].data /\ ContentOf(list, n) \in Seq(Nat)
    BY <1>2, <2>2 DEF ContentOf, vfs_node_t
  <2>4. ASSUME NEW s \in Seq(Nat) PROVE s # <<-1>>
    <3>1. s = <<-1>> => s[1] = -1 /\ Len(s) = 1
      OBVIOUS
    <3> QED
      BY <3>1
  <2> QED
    BY <1>2, <2>1, <2>3, <2>4 DEF NoFile
<1> QED
  BY <1>1, <1>2

\* Names that lead to the same node are alike.
LEMMA MatchesAlike ==
    ASSUME NEW s, NEW n \in Name, NEW m \in Name, Matches(s, n), Matches(s, m)
    PROVE  m \in Alike[n]
<1>1. n.base = m.base /\ n.dot \in BOOLEAN /\ m.dot \in BOOLEAN
  BY DEF Matches, Name
<1>2. CASE n.dot = m.dot
  <2>1. n = m
    BY <1>1, <1>2 DEF Name
  <2> QED
    BY <2>1 DEF Alike
<1>3. CASE n.dot # m.dot
  <2>1. m = [n EXCEPT !.dot = ~@]
    BY <1>1, <1>3 DEF Name
  <2> QED
    BY <2>1 DEF Alike
<1> QED
  BY <1>2, <1>3

\* A node pushed to the front takes over its name, and no name that does not match it.
LEMMA PushedContent ==
    ASSUME NEW list \in Nodes, NEW node \in vfs_node_t, NEW n,
           NEW longer, longer = <<node>> \o list
    PROVE  /\ Matches(node.name, n) => ContentOf(longer, n) = node.data
           /\ ~Matches(node.name, n) => ContentOf(longer, n) = ContentOf(list, n)
<1>1. /\ Len(list) \in Nat /\ DOMAIN list = 1 .. Len(list)
      /\ longer \in Nodes /\ DOMAIN longer = 1 .. Len(list) + 1
      /\ longer[1] = node /\ \A i \in 2 .. Len(list) + 1 : longer[i] = list[i - 1]
  <2>1. <<node>> \in Nodes /\ Len(<<node>>) = 1 /\ <<node>>[1] = node
    BY DEF Nodes
  <2> QED
    BY <2>1 DEF Nodes
<1>2. ASSUME Matches(node.name, n) PROVE ContentOf(longer, n) = node.data
  <2>1. FirstMatch(longer, n, 1)
    BY <1>1, <1>2 DEF FirstMatch
  <2>2. Found(longer, n) = 1
    BY <1>1, <2>1, FoundIsFirst
  <2> QED
    BY <1>1, <2>2 DEF ContentOf
<1>3. ASSUME ~Matches(node.name, n) PROVE ContentOf(longer, n) = ContentOf(list, n)
  <2> DEFINE i == Found(list, n)
  <2>1. FirstMatch(list, n, i)
    BY FoundIsFirst
  <2> HIDE DEF i
  <2>2. CASE i = 0
    <3>1. \A k \in DOMAIN longer : ~Matches(longer[k].name, n)
      <4> SUFFICES ASSUME NEW k \in DOMAIN longer PROVE ~Matches(longer[k].name, n)
        OBVIOUS
      <4>1. CASE k = 1
        BY <1>1, <1>3, <4>1
      <4>2. CASE k # 1
        <5>1. k - 1 \in DOMAIN list /\ longer[k] = list[k - 1]
          BY <1>1, <4>2
        <5> QED
          BY <1>1, <2>1, <2>2, <5>1 DEF FirstMatch
      <4> QED
        BY <4>1, <4>2
    <3>2. Found(longer, n) = 0
      BY <1>1, <3>1, FoundIsFirst DEF FirstMatch
    <3> QED
      BY <2>2, <3>2 DEF ContentOf, i
  <2>3. CASE i # 0
    <3>1. i \in 1 .. Len(list) /\ Matches(list[i].name, n)
          /\ \A k \in DOMAIN list : k < i => ~Matches(list[k].name, n)
      BY <1>1, <2>1, <2>3 DEF FirstMatch
    <3>2. \A k \in DOMAIN longer : k < i + 1 => ~Matches(longer[k].name, n)
      <4> SUFFICES ASSUME NEW k \in DOMAIN longer, k < i + 1 PROVE ~Matches(longer[k].name, n)
        OBVIOUS
      <4>1. CASE k = 1
        BY <1>1, <1>3, <4>1
      <4>2. CASE k # 1
        <5>1. k - 1 \in DOMAIN list /\ k - 1 < i /\ longer[k] = list[k - 1]
          BY <1>1, <3>1, <4>2
        <5> QED
          BY <3>1, <5>1
      <4> QED
        BY <4>1, <4>2
    <3>3. i + 1 \in DOMAIN longer /\ longer[i + 1] = list[i]
      BY <1>1, <3>1
    <3>4. FirstMatch(longer, n, i + 1)
      BY <3>1, <3>2, <3>3 DEF FirstMatch
    <3>5. Found(longer, n) = i + 1 /\ i + 1 # 0
      BY <1>1, <3>1, <3>4, FoundIsFirst
    <3> QED
      BY <2>3, <3>3, <3>5 DEF ContentOf, i
  <2> QED
    BY <2>2, <2>3
<1> QED
  BY <1>2, <1>3

\* Pushing a node is creating a file,
LEMMA PushCreates ==
    ASSUME VfsInv, NEW node \in vfs_node_t,
           nodes' = <<node>> \o nodes, created' = Append(created, node.name)
    PROVE  Abs!Create
<1>1. nodes \in Nodes /\ created \in Seq(Name) /\ node.name \in Name /\ node.data \in Seq(Nat)
  BY DEF VfsInv, TypeOK, Nodes, vfs_node_t
<1>2. Len(created') = Len(created) + 1
  BY <1>1
<1>3. /\ Content = [m \in Name |-> ContentOf(nodes, m)]
      /\ Content' = [m \in Name |-> ContentOf(nodes', m)]
  BY ContentIsContentOf
<1>4. \A m \in Name : /\ Matches(node.name, m) => Content'[m] = node.data
                      /\ ~Matches(node.name, m) => Content'[m] = Content[m]
  <2>1. nodes' = <<node>> \o nodes
    OBVIOUS
  <2>2. \A m : /\ Matches(node.name, m) => ContentOf(nodes', m) = node.data
               /\ ~Matches(node.name, m) => ContentOf(nodes', m) = ContentOf(nodes, m)
    BY <1>1, <2>1, PushedContent
  <2> QED
    BY <1>3, <2>2
<1>5. Matches(node.name, node.name)
  BY DEF Matches
<1>6. Content'[node.name] # NoFile
  <2>1. node.data # <<-1>>
    <3>1. node.data = <<-1>> => node.data[1] = -1 /\ Len(node.data) = 1
      OBVIOUS
    <3> QED
      BY <1>1, <3>1
  <2> QED
    BY <1>1, <1>4, <1>5, <2>1 DEF NoFile
<1>7. \A m \in Name : \/ Content'[m] = Content[m]
                      \/ m \in Alike[node.name] /\ Content'[m] = Content'[node.name]
  BY <1>1, <1>4, <1>5, MatchesAlike
<1> QED
  BY <1>1, <1>2, <1>6, <1>7 DEF Abs!Create

\* and vfs_write is writing to one.
LEMMA WriteWrites ==
    ASSUME KeysDuringBoot = FALSE, VfsInv, NEW name \in Name, NEW text \in Texts, vfs_write(name, text)
    PROVE  Abs!Write
<1> DEFINE k == Found(nodes, name)
           data == Overwritten(nodes[k].data, text)
<1>1. nodes \in Nodes /\ nodes' \in Nodes /\ text \in Seq(Nat)
  BY VfsAssumption, WriteKeepsFiles DEF VfsInv, TypeOK, Nodes
<1>2. /\ k # 0 /\ nodes' = [nodes EXCEPT ![k] = Node(nodes[k].name, nodes[k].dir, data)]
      /\ created' = created
  BY DEF vfs_write, vfs_open, Found
<1>3. k \in DOMAIN nodes /\ Matches(nodes[k].name, name)
  BY <1>1, <1>2, FoundIsFirst DEF FirstMatch
<1> HIDE DEF k
<1>4. /\ DOMAIN nodes' = DOMAIN nodes /\ nodes'[k].data = data /\ nodes'[k].name = nodes[k].name
      /\ \A i \in DOMAIN nodes \ {k} : nodes'[i] = nodes[i]
  <2>1. nodes \in [1 .. Len(nodes) -> vfs_node_t]
    BY <1>1, SeqIsFunction DEF Nodes
  <2> QED
    BY <1>2, <1>3, <2>1 DEF Node
<1>5. data \in Seq(Nat) /\ Len(data) = Len(nodes[k].data)
  <2>1. nodes[k].data \in Seq(Nat)
    <3>1. nodes[k] \in vfs_node_t
      BY <1>1, <1>3, SeqIsFunction DEF Nodes
    <3> QED
      BY <3>1 DEF vfs_node_t
  <2>2. data \in Seq(Nat)
    BY <1>1, <2>1, OverwrittenType
  <2>3. DOMAIN data = DOMAIN nodes[k].data
    BY DEF Overwritten
  <2> QED
    BY <2>1, <2>2, <2>3
<1> HIDE DEF data
<1>6. \A m : Found(nodes', m) = Found(nodes, m)
  <2> SUFFICES ASSUME NEW m PROVE Found(nodes', m) = Found(nodes, m)
    OBVIOUS
  <2>1. FirstMatch(nodes, m, Found(nodes, m))
    BY <1>1, FoundIsFirst
  <2>2. \A i \in DOMAIN nodes : nodes'[i].name = nodes[i].name
    BY <1>4
  <2>3. FirstMatch(nodes', m, Found(nodes, m))
    BY <1>4, <2>1, <2>2 DEF FirstMatch
  <2> QED
    BY <1>1, <2>3, FoundIsFirst
<1>7. /\ Content = [m \in Name |-> ContentOf(nodes, m)]
      /\ Content' = [m \in Name |-> ContentOf(nodes', m)]
  BY ContentIsContentOf
<1>8. ASSUME NEW m \in Name
      PROVE  /\ Found(nodes, m) = k => /\ Content[m] = nodes[k].data /\ Content'[m] = data
                                       /\ m \in Alike[name]
             /\ Found(nodes, m) # k => Content'[m] = Content[m]
  <2>1. ASSUME Found(nodes, m) = k
        PROVE  Content[m] = nodes[k].data /\ Content'[m] = data /\ m \in Alike[name]
    <3>1. Matches(nodes[k].name, m)
      BY <1>1, <1>2, <2>1, FoundIsFirst DEF FirstMatch
    <3>2. m \in Alike[name]
      BY <1>3, <3>1, MatchesAlike
    <3> QED
      BY <1>2, <1>4, <1>6, <1>7, <2>1, <3>2 DEF ContentOf
  <2>2. ASSUME Found(nodes, m) # k PROVE Content'[m] = Content[m]
    <3>1. Found(nodes, m) = 0 \/ Found(nodes, m) \in DOMAIN nodes \ {k}
      BY <1>1, <2>2, FoundIsFirst DEF FirstMatch
    <3> QED
      BY <1>4, <1>6, <1>7, <3>1 DEF ContentOf
  <2> QED
    BY <2>1, <2>2
<1>9. /\ Content[name] = nodes[k].data /\ Content'[name] = data
      /\ \A m \in Name : \/ Content'[m] = Content[m]
                         \/ m \in Alike[name] /\ Content[m] = Content[name] /\ Content'[m] = Content'[name]
  BY <1>8 DEF k
<1>10. nodes[k].data # NoFile /\ data # NoFile
  <2>1. ContentOf(nodes, name) = nodes[k].data /\ ContentOf(nodes', name) = data
    BY <1>7, <1>9
  <2>2. Found(nodes', name) # 0
    BY <1>2, <1>6 DEF k
  <2> QED
    BY <1>1, <1>2, <2>1, <2>2, ContentType DEF k
<1> QED
  BY <1>2, <1>5, <1>9, <1>10 DEF Abs!Write

(* The list of nodes implements a map from names to contents, for every archive, any number of    *)
(* files and names that hide one another: mount and touch give one name, and names that differ by  *)
(* a leading ./, a new content, a write replaces one content by another as long, and no name ever  *)
(* loses its file.                                                                                *)
THEOREM MapImplemented == KeysDuringBoot = FALSE => (Spec => ImplementsFileStore)
<1> SUFFICES ASSUME KeysDuringBoot = FALSE PROVE Spec => ImplementsFileStore
  OBVIOUS
<1>1. Init => Abs!AbsInit
  <2> SUFFICES ASSUME Init PROVE Abs!AbsInit
    OBVIOUS
  <2>1. nodes = <<>> /\ nodes \in Nodes /\ Len(created) = 0
    BY DEF Init, Nodes
  <2>2. \A n \in Name : ContentOf(nodes, n) = NoFile
    <3>1. \A n \in Name : Found(nodes, n) = 0
      BY <2>1, FoundIsFirst DEF FirstMatch
    <3> QED
      BY <3>1 DEF ContentOf
  <2> QED
    BY <2>1, <2>2, ContentIsContentOf DEF Abs!AbsInit
<1>2. VfsInv /\ [Next]_vars => [Abs!Create \/ Abs!Write]_<<Content, Len(created)>>
  <2> SUFFICES ASSUME VfsInv, [Next]_vars
               PROVE  \/ Abs!Create \/ Abs!Write
                      \/ Content' = Content /\ Len(created)' = Len(created)
    OBVIOUS
  <2>1. ASSUME UNCHANGED <<nodes, created>> PROVE Content' = Content /\ Len(created)' = Len(created)
    BY <2>1, ContentIsContentOf
  <2>2. CASE MountReads
    BY <2>1, <2>2 DEF MountReads
  <2>3. CASE MountLinks
    <3>1. ptr \in Nat /\ ptr < Len(Archive) /\ link[1] = nodes
      BY <2>3, VfsAssumption DEF VfsInv, TypeOK, ReadIsCurrent, MountLinks, NotRead
    <3>2. Archive[ptr + 1] \in Header
      BY <3>1, VfsAssumption
    <3>3. PICK name \in StoredName(Archive[ptr + 1]) :
             /\ nodes' = <<Node(name, Archive[ptr + 1].dir, Archive[ptr + 1].data)>> \o nodes
             /\ created' = Append(created, name)
      BY <2>3, <3>1 DEF MountLinks
    <3>4. name \in Name
      BY <3>2, <3>3, StoredNameIsName
    <3>5. PICK node : node = Node(name, Archive[ptr + 1].dir, Archive[ptr + 1].data)
      OBVIOUS
    <3>6. node \in vfs_node_t /\ node.name = name
      BY <3>2, <3>4, <3>5 DEF Node, Header, vfs_node_t
    <3> QED
      BY <3>3, <3>5, <3>6, PushCreates
  <2>4. ASSUME NEW name \in Name, NEW bytes \in Sizes, vfs_touch(name, bytes) PROVE Abs!Create
    <3>1. PICK node : node = Node(name, FALSE, [i \in 1 .. bytes |-> 0])
      OBVIOUS
    <3>2. node \in vfs_node_t /\ node.name = name
      <4>1. [i \in 1 .. bytes |-> 0] \in Seq(Nat)
        BY VfsAssumption
      <4> QED
        BY <3>1, <4>1 DEF Node, vfs_node_t
    <3> QED
      BY <2>4, <3>1, <3>2, PushCreates DEF vfs_touch
  <2>5. ASSUME NEW name \in Name, NEW text \in Texts, vfs_write(name, text) PROVE Abs!Write
    BY <2>5, WriteWrites
  <2>6. CASE UNCHANGED vars
    BY <2>1, <2>6 DEF vars
  <2> QED
    BY <2>2, <2>3, <2>4, <2>5, <2>6 DEF Next
<1> QED
  BY <1>1, <1>2, VfsInvariant, PTL DEF Spec, ImplementsFileStore, Abs!AbsSpec

----
\* The shell.

IInv == VfsInv /\ ShellTypeOK /\ LineHasItsBlock /\ HeapBalanced /\ PendingCountIsAhead

(* An int read from a line is one an int can hold. *)
LEMMA WrappedIsInt ==
    ASSUME NEW n \in Nat, IntBound \in Nat \ {0}
    PROVE  Wrapped(n) \in -IntBound .. IntBound - 1
<1>1. (n + IntBound) % (2 * IntBound) \in 0 .. 2 * IntBound - 1
  OBVIOUS
<1> QED
  BY <1>1 DEF Wrapped

(* The int behind size is set up by shell_input before any command reads it. *)
LEMMA ProvidedIsInt ==
    ASSUME ShellTypeOK
    PROVE  /\ IntBound \in Nat
           /\ Provided \in -IntBound .. IntBound - 1
BY ShellAssumption DEF ShellTypeOK, Provided, NoBlock

(* Which blocks exist, in plain numbers. *)
LEMMA Balance ==
    ASSUME IInv
    PROVE  /\ blocks \in Nat /\ ptr \in Nat /\ Len(nodes) \in Nat /\ Len(nodes) >= ptr
           /\ buffer_idx \in 0 .. MaxCommandLen - 1 /\ (buffer_idx > 0 => cmd)
           /\ cmd \in BOOLEAN /\ waiting \in BOOLEAN /\ halted \in BOOLEAN
           /\ distance \in -1 .. IntBound - 1
           /\ waiting <=> distance > 0
           /\ One(cmd) \in {0, 1} /\ One(size # NoBlock) \in {0, 1} /\ One(link # NotRead) \in {0, 1}
           /\ One(~cmd) = 1 - One(cmd) /\ One(size = NoBlock) = 1 - One(size # NoBlock)
           /\ blocks = One(cmd) + One(size # NoBlock) + One(link # NotRead)
                       + ptr + 2 * (Len(nodes) - ptr)
<1>1. ptr \in Nat /\ Len(nodes) \in Nat /\ Len(nodes) >= ptr
  BY VfsAssumption DEF IInv, VfsInv, TypeOK, MountedAreListed
<1>2. buffer_idx \in 0 .. MaxCommandLen - 1 /\ (buffer_idx > 0 => cmd)
  BY ShellAssumption DEF IInv, ShellTypeOK, LineHasItsBlock
<1>3. /\ cmd \in BOOLEAN /\ waiting \in BOOLEAN /\ halted \in BOOLEAN /\ blocks \in Nat
      /\ distance \in -1 .. IntBound - 1
      /\ waiting <=> distance > 0
  BY DEF IInv, ShellTypeOK, PendingCountIsAhead
<1>4. /\ One(cmd) \in {0, 1} /\ One(size # NoBlock) \in {0, 1} /\ One(link # NotRead) \in {0, 1}
      /\ One(~cmd) = 1 - One(cmd) /\ One(size = NoBlock) = 1 - One(size # NoBlock)
  BY DEF One
<1>5. blocks = One(cmd) + One(size # NoBlock) + One(link # NotRead) + ptr + 2 * (Len(nodes) - ptr)
  BY DEF IInv, HeapBalanced
<1> QED
  BY <1>1, <1>2, <1>3, <1>4, <1>5

(* The files are untouched. *)
LEMMA FilesUntouched ==
    ASSUME VfsInv, UNCHANGED vars
    PROVE  VfsInv'
BY DEF vars, VfsInv, TypeOK, ReadIsCurrent, MountedAreListed, NothingIsLost, NotRead

(* The part of the invariant a key press that leaves the files alone can disturb. *)
LEMMA LineStep ==
    ASSUME IInv, UNCHANGED vars,
           size' \in -IntBound .. IntBound - 1,
           cmd' \in BOOLEAN, buffer_idx' \in 0 .. MaxCommandLen - 1, buffer_idx' > 0 => cmd',
           blocks' = blocks + One(cmd') - One(cmd) + One(size = NoBlock),
           distance' \in -1 .. IntBound - 1, waiting' \in BOOLEAN, waiting' <=> distance' > 0,
           halted' \in BOOLEAN
    PROVE  IInv'
<1>1. IntBound \in Nat /\ MaxCommandLen \in Nat
  BY ShellAssumption
<1>2. VfsInv'
  BY FilesUntouched DEF IInv
<1>3. size' \in -IntBound .. IntBound /\ size' # NoBlock
  BY <1>1 DEF NoBlock
<1>4. One(cmd') \in {0, 1} /\ One((size # NoBlock)') = 1
  BY <1>3 DEF One
<1>5. One((link # NotRead)') = One(link # NotRead)
  BY DEF vars, One, NotRead
<1>6. /\ blocks' \in Nat
      /\ blocks' = One(cmd') + 1 + One(link # NotRead) + ptr + 2 * (Len(nodes) - ptr)
  <2> DEFINE a == One(cmd)
             b == One(size # NoBlock)
             l == One(link # NotRead)
             z == One(cmd')
             n == One(size = NoBlock)
             k == Len(nodes)
  <2>1. /\ blocks \in Nat /\ ptr \in Nat /\ k \in Nat /\ k >= ptr
        /\ a \in {0, 1} /\ b \in {0, 1} /\ l \in {0, 1} /\ n = 1 - b
        /\ blocks = a + b + l + ptr + 2 * (k - ptr)
    BY Balance
  <2>2. z \in {0, 1} /\ blocks' = blocks + z - a + n
    BY <1>4
  <2> HIDE DEF a, b, l, z, n, k
  <2>3. blocks' \in Nat /\ blocks' = z + 1 + l + ptr + 2 * (k - ptr)
    BY <2>1, <2>2
  <2> QED
    BY <2>3 DEF l, z, k
<1>7. HeapBalanced'
  <2>1. blocks' = One(cmd') + 1 + One(link # NotRead) + ptr + 2 * (Len(nodes) - ptr)
    BY <1>6
  <2> QED
    BY <1>4, <1>5, <2>1 DEF HeapBalanced, vars
<1>8. ShellTypeOK'
  BY <1>1, <1>3, <1>6 DEF ShellTypeOK
<1>9. LineHasItsBlock'
  BY <1>1 DEF LineHasItsBlock
<1>10. PendingCountIsAhead'
  BY DEF PendingCountIsAhead
<1> QED
  BY <1>2, <1>7, <1>8, <1>9, <1>10 DEF IInv

LEMMA EditStep ==
    ASSUME IInv, NEW idx \in 0 .. MaxCommandLen - 1, Edit(idx)
    PROVE  IInv'
<1>1. size' \in -IntBound .. IntBound - 1
  BY ProvidedIsInt DEF Edit, IInv
<1>2. blocks' = blocks + One(cmd') - One(cmd) + One(size = NoBlock)
  <2>1. One(cmd') = 1
    BY DEF Edit, One
  <2> QED
    BY <2>1, Balance DEF Edit
<1>3. distance' = distance /\ waiting' = waiting /\ halted' = halted /\ UNCHANGED vars
  BY DEF Edit
<1>4. cmd' = TRUE /\ buffer_idx' = idx
  BY DEF Edit
<1> QED
  BY <1>1, <1>2, <1>3, <1>4, Balance, LineStep

(* A command that leaves files and blocks as they were, and its Enter. *)
LEMMA EnterStep ==
    ASSUME IInv, UNCHANGED vars, FinishLine(0),
           size' \in -IntBound .. IntBound - 1,
           distance' \in -1 .. IntBound - 1, waiting' \in BOOLEAN, waiting' <=> distance' > 0,
           halted' = halted
    PROVE  IInv'
<1>1. cmd' = FALSE /\ buffer_idx' = 0
  BY DEF FinishLine
<1>2. blocks' = blocks + One(cmd') - One(cmd) + One(size = NoBlock)
  <2>1. One(cmd') = 0
    BY <1>1 DEF One
  <2> QED
    BY <2>1, Balance DEF FinishLine
<1>3. buffer_idx' \in 0 .. MaxCommandLen - 1 /\ ~(buffer_idx' > 0)
  BY <1>1, ShellAssumption
<1>4. cmd' \in BOOLEAN
  BY <1>1
<1>5. halted' \in BOOLEAN
  BY Balance
<1> QED
  BY <1>2, <1>3, <1>4, <1>5, LineStep

LEMMA PrintsStep ==
    ASSUME IInv, Prints
    PROVE  IInv'
<1>1. size' \in -IntBound .. IntBound - 1
  BY ProvidedIsInt DEF Prints, IInv
<1>2. FinishLine(0) /\ UNCHANGED <<vars, distance, waiting, halted>>
  BY DEF Prints
<1> QED
  BY <1>1, <1>2, Balance, EnterStep

LEMMA CountStep ==
    ASSUME IInv, NEW number \in Numbers, Count(number)
    PROVE  IInv'
<1>1. size' \in -IntBound .. IntBound - 1
  BY ProvidedIsInt DEF Count, IInv
<1>2. distance' \in -1 .. IntBound - 1 /\ distance' > 0 /\ waiting' = TRUE
  <2>1. number \in Nat /\ IntBound \in Nat \ {0}
    BY ShellAssumption
  <2>2. Wrapped(number) \in -IntBound .. IntBound - 1
    BY <2>1, WrappedIsInt
  <2> QED
    BY <2>1, <2>2 DEF Count
<1>3. FinishLine(0) /\ UNCHANGED <<vars, halted>>
  BY DEF Count
<1> QED
  BY <1>1, <1>2, <1>3, EnterStep

LEMMA SizeStep ==
    ASSUME IInv, NEW number \in Numbers, Size(number)
    PROVE  IInv'
<1>1. size' \in -IntBound .. IntBound - 1
  <2>1. number \in Nat /\ IntBound \in Nat \ {0}
    BY ShellAssumption
  <2>2. Wrapped(number) \in -IntBound .. IntBound - 1
    BY <2>1, WrappedIsInt
  <2> QED
    BY <2>1, <2>2 DEF Size
<1>2. FinishLine(0) /\ UNCHANGED <<vars, distance, waiting, halted>>
  BY DEF Size
<1> QED
  BY <1>1, <1>2, Balance, EnterStep

LEMMA FaultsStep ==
    ASSUME IInv, Faults
    PROVE  IInv'
<1>1. VfsInv'
  BY FilesUntouched DEF Faults, IInv
<1> QED
  BY <1>1 DEF Faults, vars, IInv, ShellTypeOK, LineHasItsBlock, HeapBalanced, PendingCountIsAhead,
              One, NotRead, NoBlock

LEMMA TimerStep ==
    ASSUME IInv, timer_handler_c
    PROVE  IInv'
<1>1. distance' \in -1 .. IntBound - 1 /\ waiting' \in BOOLEAN
  BY Balance, ShellAssumption DEF timer_handler_c
<1>2. waiting' <=> distance' > 0
  BY Balance, ShellAssumption DEF timer_handler_c
<1>3. VfsInv'
  BY FilesUntouched DEF timer_handler_c, IInv
<1> QED
  BY <1>1, <1>2, <1>3 DEF timer_handler_c, vars, IInv, ShellTypeOK, LineHasItsBlock, HeapBalanced,
                          PendingCountIsAhead, One, NotRead, NoBlock

LEMMA ReadStep ==
    ASSUME IInv, NEW name \in Name, Read(name)
    PROVE  IInv'
BY PrintsStep, FaultsStep DEF Read

(* A command that may add files: the heap has two blocks more for each, the node's and its data's. *)
LEMMA FilesStep ==
    ASSUME IInv, VfsInv', ptr' = ptr, link' = link, NEW taken \in {0, 2},
           taken = 2 * (Len(nodes') - Len(nodes)),
           FinishLine(taken), size' \in -IntBound .. IntBound - 1,
           UNCHANGED <<distance, waiting, halted>>
    PROVE  IInv'
<1>1. IntBound \in Nat /\ MaxCommandLen \in Nat \ {0, 1}
  BY ShellAssumption
<1>2. cmd' = FALSE /\ buffer_idx' = 0 /\ One(cmd') = 0
  BY DEF FinishLine, One
<1>3. size' \in -IntBound .. IntBound /\ size' # NoBlock /\ One((size # NoBlock)') = 1
  BY <1>1 DEF NoBlock, One
<1>4. One((link # NotRead)') = One(link # NotRead)
  BY DEF One, NotRead
<1>5. Len(nodes') \in Nat
  BY DEF VfsInv, TypeOK
<1>6. blocks' \in Nat /\ blocks' = 0 + 1 + One(link # NotRead) + ptr + 2 * (Len(nodes') - ptr)
  <2> DEFINE a == One(cmd)
             b == One(size # NoBlock)
             l == One(link # NotRead)
             n == One(size = NoBlock)
             k == Len(nodes)
             j == Len(nodes')
  <2>1. /\ blocks \in Nat /\ ptr \in Nat /\ k \in Nat /\ k >= ptr
        /\ a \in {0, 1} /\ b \in {0, 1} /\ l \in {0, 1} /\ n = 1 - b
        /\ blocks = a + b + l + ptr + 2 * (k - ptr)
    BY Balance
  <2>2. blocks' = blocks - a + n + taken /\ taken = 2 * (j - k) /\ j \in Nat
    BY <1>5 DEF FinishLine
  <2> HIDE DEF a, b, l, n, k, j
  <2>3. blocks' \in Nat /\ blocks' = 0 + 1 + l + ptr + 2 * (j - ptr)
    BY <2>1, <2>2
  <2> QED
    BY <2>3 DEF l, j
<1>7. HeapBalanced'
  <2>1. ptr' = ptr /\ blocks' = 0 + 1 + One(link # NotRead) + ptr + 2 * (Len(nodes') - ptr)
    BY <1>6
  <2> QED
    BY <1>2, <1>3, <1>4, <2>1 DEF HeapBalanced
<1>8. ShellTypeOK'
  <2>1. distance' \in -1 .. IntBound - 1 /\ waiting' \in BOOLEAN /\ halted' \in BOOLEAN
    BY Balance
  <2>2. cmd' \in BOOLEAN /\ buffer_idx' \in 0 .. MaxCommandLen
    <3>1. cmd' = FALSE /\ buffer_idx' = 0
      BY <1>2
    <3>2. cmd' \in BOOLEAN
      BY <3>1
    <3>3. buffer_idx' \in 0 .. MaxCommandLen
      BY <1>1, <3>1
    <3> QED
      BY <3>2, <3>3
  <2> QED
    BY <1>3, <1>6, <2>1, <2>2 DEF ShellTypeOK
<1>9. LineHasItsBlock' /\ PendingCountIsAhead'
  BY <1>1, <1>2, Balance DEF LineHasItsBlock, PendingCountIsAhead
<1> QED
  BY <1>7, <1>8, <1>9 DEF IInv

LEMMA TouchStep ==
    ASSUME KeysDuringBoot = FALSE, IInv, NEW name \in Name, Touch(name)
    PROVE  IInv'
<1>1. CASE Faults
  BY <1>1, FaultsStep
<1>2. ASSUME Provided \in 0 .. LargestBucket, vfs_touch(name, Provided), size' = Provided,
             FinishLine(2), UNCHANGED <<distance, waiting, halted>>
      PROVE  IInv'
  <2>1. Provided \in Nat /\ Provided \in -IntBound .. IntBound - 1
    BY <1>2, ProvidedIsInt, ShellAssumption DEF IInv
  <2>2. VfsInv' /\ Len(nodes') = Len(nodes) + 1
    BY <1>2, <2>1, TouchKeepsFiles DEF IInv
  <2>3. ptr' = ptr /\ link' = link
    BY <1>2 DEF vfs_touch
  <2>4. 2 = 2 * (Len(nodes') - Len(nodes))
    BY <2>2, Balance
  <2> QED
    BY <1>2, <2>1, <2>2, <2>3, <2>4, FilesStep
<1> QED
  BY <1>1, <1>2 DEF Touch

LEMMA WriteStep ==
    ASSUME KeysDuringBoot = FALSE, IInv, NEW name \in Name, NEW text \in Texts, Write(name, text)
    PROVE  IInv'
<1>1. size' \in -IntBound .. IntBound - 1
  BY ProvidedIsInt DEF Write, IInv
<1>2. VfsInv' /\ Len(nodes') = Len(nodes)
  BY WriteKeepsFiles DEF Write, IInv
<1>3. ptr' = ptr /\ link' = link
  BY DEF Write, vfs_write
<1>4. 0 = 2 * (Len(nodes') - Len(nodes))
  BY <1>2, Balance
<1>5. FinishLine(0) /\ UNCHANGED <<distance, waiting, halted>>
  BY DEF Write
<1> QED
  BY <1>1, <1>2, <1>3, <1>4, <1>5, FilesStep

(* The mount loop takes one block per header, before the header counts as mounted. *)
LEMMA MountStep ==
    ASSUME IInv, Mount
    PROVE  IInv'
<1>1. UNCHANGED <<cmd, buffer_idx, size, distance, waiting, halted>>
  BY DEF Mount
<1>2. /\ VfsInv' /\ blocks' \in Nat
      /\ One((link # NotRead)') + ptr' + 2 * (Len(nodes') - ptr') + blocks
         = One(link # NotRead) + ptr + 2 * (Len(nodes) - ptr) + blocks'
  <2>1. CASE MountReads /\ blocks' = blocks + 1
    <3>1. One((link # NotRead)') = 1 /\ One(link # NotRead) = 0 /\ ptr' = ptr /\ nodes' = nodes
      BY <2>1 DEF MountReads, One, NotRead
    <3>2. VfsInv'
      BY <2>1, MountReadsStep DEF IInv
    <3>3. blocks \in Nat /\ ptr \in Nat /\ Len(nodes) \in Nat
      BY Balance
    <3> QED
      BY <2>1, <3>1, <3>2, <3>3
  <2>2. CASE MountLinks /\ UNCHANGED blocks
    <3>1. One((link # NotRead)') = 0 /\ One(link # NotRead) = 1 /\ ptr' = ptr + 1
      BY <2>2 DEF MountLinks, One, NotRead
    <3>2. VfsInv' /\ Len(nodes') = Len(nodes) + 1
      BY <2>2, MountLinksStep DEF IInv
    <3>3. blocks \in Nat /\ ptr \in Nat /\ Len(nodes) \in Nat
      BY Balance
    <3> QED
      BY <2>2, <3>1, <3>2, <3>3
  <2> QED
    BY <2>1, <2>2 DEF Mount
<1>3. HeapBalanced'
  <2> DEFINE c == One(cmd)
             d == One(size # NoBlock)
             l == One(link # NotRead)
             m == One((link # NotRead)')
             k == Len(nodes)
             j == Len(nodes')
             p == ptr'
             x == 2 * (k - ptr)
             y == 2 * (j - p)
  <2>1. /\ c \in Nat /\ d \in Nat /\ l \in Nat /\ blocks \in Nat /\ ptr \in Nat /\ x \in Int
        /\ blocks = c + d + l + ptr + x
    <3>1. /\ c \in {0, 1} /\ d \in {0, 1} /\ l \in {0, 1} /\ blocks \in Nat /\ ptr \in Nat /\ k \in Nat
          /\ blocks = c + d + l + ptr + 2 * (k - ptr)
      BY Balance
    <3> HIDE DEF c, d, l, k
    <3> QED
      BY <3>1
  <2>2. m \in Nat /\ p \in Nat /\ y \in Int
    BY <1>2, VfsAssumption DEF One, VfsInv, TypeOK
  <2>3. blocks' \in Nat /\ m + p + y + blocks = l + ptr + x + blocks'
    BY <1>2
  <2> HIDE DEF c, d, l, m, k, j, p, x, y
  <2>4. blocks' = c + d + m + p + y
    <3> DEFINE was == blocks
               now == blocks'
               at == ptr
    <3>1. /\ c \in Nat /\ d \in Nat /\ l \in Nat /\ was \in Nat /\ at \in Nat /\ x \in Int
          /\ m \in Nat /\ p \in Nat /\ y \in Int /\ now \in Nat
          /\ was = c + d + l + at + x
          /\ m + p + y + was = l + at + x + now
      BY <2>1, <2>2, <2>3
    <3> HIDE DEF was, now, at
    <3>2. now = c + d + m + p + y
      BY <3>1
    <3> QED
      BY <3>2 DEF now
  <2>5. One(cmd') = c /\ One((size # NoBlock)') = d
    BY <1>1 DEF c, d, One, NoBlock
  <2> QED
    BY <2>4, <2>5 DEF HeapBalanced, m, j, p, y
<1>4. ShellTypeOK' /\ LineHasItsBlock' /\ PendingCountIsAhead'
  BY <1>1, <1>2 DEF IInv, ShellTypeOK, LineHasItsBlock, PendingCountIsAhead
<1> QED
  BY <1>2, <1>3, <1>4 DEF IInv

LEMMA IInvInit ==
    ASSUME ShellInit
    PROVE  IInv
<1>1. VfsInv
  BY VfsInvInit DEF ShellInit
<1>2. IntBound \in Nat /\ MaxCommandLen \in Nat \ {0, 1} /\ IntBound - 1 >= 0
  BY ShellAssumption
<1>3. ShellTypeOK /\ LineHasItsBlock /\ PendingCountIsAhead
  <2>1. /\ cmd = FALSE /\ buffer_idx = 0 /\ size = IntBound /\ blocks = 0
        /\ distance = 0 /\ waiting = FALSE /\ halted = FALSE
    BY DEF ShellInit, NoBlock
  <2>2. cmd \in BOOLEAN /\ waiting \in BOOLEAN /\ halted \in BOOLEAN
    BY <2>1
  <2>3. buffer_idx \in 0 .. MaxCommandLen /\ size \in -IntBound .. IntBound /\ blocks \in Nat
        /\ distance \in -1 .. IntBound - 1
    BY <1>2, <2>1
  <2>4. ShellTypeOK
    BY <2>2, <2>3 DEF ShellTypeOK
  <2> QED
    BY <1>2, <2>1, <2>4 DEF LineHasItsBlock, PendingCountIsAhead
<1>4. HeapBalanced
  <2>1. One(cmd) = 0 /\ One(size # NoBlock) = 0 /\ One(link # NotRead) = 0
    BY DEF ShellInit, Init, One
  <2>2. ptr = 0 /\ Len(nodes) = 0 /\ blocks = 0
    BY DEF ShellInit, Init
  <2> QED
    BY <2>1, <2>2 DEF HeapBalanced
<1> QED
  BY <1>1, <1>3, <1>4 DEF IInv

LEMMA IInvNext ==
    ASSUME KeysDuringBoot = FALSE, IInv, [ShellNext]_allVars
    PROVE  IInv'
<1>1. CASE Mount
  BY <1>1, MountStep
<1>2. CASE timer_handler_c
  BY <1>2, TimerStep
<1>3. CASE TypeChar
  <2>1. MaxCommandLen \in Nat \ {0, 1} /\ buffer_idx \in 0 .. MaxCommandLen - 1
    <3>1. MaxCommandLen \in Nat \ {0, 1}
      BY ShellAssumption
    <3>2. buffer_idx \in 0 .. MaxCommandLen - 1
      BY Balance
    <3> QED
      BY <3>1, <3>2
  <2>2. (IF buffer_idx < MaxCommandLen - 1 THEN buffer_idx + 1 ELSE buffer_idx) \in 0 .. MaxCommandLen - 1
    BY <2>1
  <2> QED
    BY <1>3, <2>2, EditStep DEF TypeChar
<1>4. CASE Backspace
  <2>1. MaxCommandLen \in Nat \ {0, 1} /\ buffer_idx \in 0 .. MaxCommandLen - 1
    <3>1. MaxCommandLen \in Nat \ {0, 1}
      BY ShellAssumption
    <3>2. buffer_idx \in 0 .. MaxCommandLen - 1
      BY Balance
    <3> QED
      BY <3>1, <3>2
  <2>2. (IF buffer_idx > 0 THEN buffer_idx - 1 ELSE buffer_idx) \in 0 .. MaxCommandLen - 1
    BY <2>1
  <2> QED
    BY <1>4, <2>2, EditStep DEF Backspace
<1>5. CASE Prints
  BY <1>5, PrintsStep
<1>6. CASE \E name \in Name : Read(name) \/ Touch(name)
  BY <1>6, ReadStep, TouchStep
<1>7. CASE \E name \in Name, text \in Texts : Write(name, text)
  BY <1>7, WriteStep
<1>8. CASE \E number \in Numbers : Count(number) \/ Size(number)
  BY <1>8, CountStep, SizeStep
<1>9. CASE UNCHANGED allVars
  <2>1. VfsInv'
    BY <1>9, FilesUntouched DEF allVars, IInv
  <2> QED
    BY <1>9, <2>1 DEF allVars, shellVars, vars, IInv, ShellTypeOK, LineHasItsBlock, HeapBalanced,
                      PendingCountIsAhead, One, NotRead, NoBlock
<1> QED
  BY <1>1, <1>2, <1>3, <1>4, <1>5, <1>6, <1>7, <1>8, <1>9 DEF ShellNext

LEMMA ShellInvariant == KeysDuringBoot = FALSE => (ShellSpec => []IInv)
<1> SUFFICES ASSUME KeysDuringBoot = FALSE PROVE ShellSpec => []IInv
  OBVIOUS
<1>1. ShellInit => IInv
  BY IInvInit
<1>2. IInv /\ [ShellNext]_allVars => IInv'
  BY IInvNext
<1> QED
  BY <1>1, <1>2, PTL DEF ShellSpec

(* Line, size, heap and counter of the shell keep their types. *)
THEOREM ShellTypeCorrect == KeysDuringBoot = FALSE => (ShellSpec => []ShellTypeOK)
<1>1. IInv => ShellTypeOK
  BY DEF IInv
<1> QED
  BY <1>1, ShellInvariant, PTL

(* shell_input never writes behind the line's block, whatever is typed. *)
THEOREM LineFits == KeysDuringBoot = FALSE => (ShellSpec => []LineHasItsBlock)
<1>1. IInv => LineHasItsBlock
  BY DEF IInv
<1> QED
  BY <1>1, ShellInvariant, PTL

(* No command leaks a block of the heap or frees one twice. *)
THEOREM NoLeaks == KeysDuringBoot = FALSE => (ShellSpec => []HeapBalanced)
<1>1. IInv => HeapBalanced
  BY DEF IInv
<1> QED
  BY <1>1, ShellInvariant, PTL

(* timer_handler_c cannot have passed a target that execute_command announced. *)
THEOREM CountsAreAhead == KeysDuringBoot = FALSE => (ShellSpec => []PendingCountIsAhead)
<1>1. IInv => PendingCountIsAhead
  BY DEF IInv
<1> QED
  BY <1>1, ShellInvariant, PTL
====
