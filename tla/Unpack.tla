------------------------------- MODULE Unpack -------------------------------
(***************************************************************************)
(* The laying of image layers over a root file system (src/oci/unpack.rs): *)
(* entries of an archive are applied one after the other, an opaque marker *)
(* takes effect where it stands, plain whiteouts at the end of the layer.  *)
(* What comes out is compared with a definition of the union of layers     *)
(* that knows no order.                                                    *)
(***************************************************************************)
EXTENDS Naturals, FiniteSets, Sequences

CONSTANTS
  Paths,       \* paths below the root
  Up,          \* Up[p]: the parent of p, or Top
  Top,
  MaxEntries,  \* bound: entries of a layer
  MaxLayers    \* bound: layers of an image

ASSUME UnpackAssumption ==
  /\ Top \notin Paths /\ Up \in [Paths -> Paths \cup {Top}]
  /\ MaxEntries \in Nat /\ MaxLayers \in Nat

VARIABLES
  tree,        \* tree[p]: what is at p: nothing, a directory, a file or a link
  below,       \* the tree before the layer
  entries,     \* the entries of the layer, as far as they are applied
  whiteouts,   \* pending_whiteouts
  layer,       \* the number of the layer
  unpacked     \* "busy", "done" or "rejected"

unpackVars == <<tree, below, entries, whiteouts, layer, unpacked>>

Absent == [kind |-> "none", from |-> 0]
Dir == [kind |-> "dir", from |-> 0]
Kinds == {"dir", "file", "link"}
Marks == {"whiteout", "opaque"}
Entry == [kind : Kinds \cup Marks, path : Paths]

Empty == [p \in Paths |-> Absent]

UnpackInit ==
  /\ tree = Empty /\ below = Empty /\ entries = <<>> /\ whiteouts = {}
  /\ layer = 1 /\ unpacked = "busy"

(* The paths above p: its parent and the parents of what is above it. *)
Closed(s) == \A p \in s : Up[p] \in s \cup {Top}
Ancestors == [p \in Paths |->
  {q \in Paths : \A s \in SUBSET Paths : Closed(s) /\ Up[p] \in s \cup {Top} => q \in s}]

(* No path is above itself. *)
ASSUME PathsAssumption == \A p \in Paths : p \notin Ancestors[p]

Under(p) == {q \in Paths : p \in Ancestors[q]}
Exists(p) == tree[p].kind # "none"
IsDir(p) == tree[p].kind = "dir"
BehindLink(p) == \E q \in Ancestors[p] : tree[q].kind = "link"

Raze(t, ps) == [p \in Paths |-> IF p \in ps THEN Absent ELSE t[p]]

Reject == unpacked' = "rejected" /\ UNCHANGED tree

(* The prefix of a path is walked from the top: a link or a file on the way *)
(* is an error, and what is missing is made.                                *)
create_dir_all_no_symlink_Follow(ps) == \A q \in ps : tree[q].kind # "file"

create_dir_all_no_symlink(ps) == \A q \in ps : ~Exists(q) \/ IsDir(q)

WithDirs(ps) == [p \in Paths |-> IF p \in ps /\ ~Exists(p) THEN Dir ELSE tree[p]]

ensure_existing_dir_no_symlink(p) == \A q \in {p} \cup Ancestors[p] : IsDir(q)

(* A directory of an earlier layer stays, with what is in it. *)
ApplyDir(p) ==
  LET ps == {p} \cup Ancestors[p] IN
  IF create_dir_all_no_symlink(ps) THEN tree' = WithDirs(ps) /\ UNCHANGED unpacked ELSE Reject

(* A link replaces whatever is there, a directory with all its contents. *)
ApplySymlink(p) ==
  IF create_dir_all_no_symlink(Ancestors[p])
  THEN /\ tree' = [Raze(WithDirs(Ancestors[p]), Under(p)) EXCEPT ![p] =
                     [kind |-> "link", from |-> layer]]
       /\ UNCHANGED unpacked
  ELSE Reject

(* A file replaces a file or a link, and fails on a directory. *)
ApplyFile(p) ==
  IF create_dir_all_no_symlink(Ancestors[p]) /\ ~IsDir(p)
  THEN /\ tree' = [WithDirs(Ancestors[p]) EXCEPT ![p] = [kind |-> "file", from |-> layer]]
       /\ UNCHANGED unpacked
  ELSE Reject

(* A directory is looked at through links, at p and above it: one that is   *)
(* not there counts as missing, one that is there through a link is refused.*)
OnDirectory(p, effect) ==
  \/ ensure_existing_dir_no_symlink(p) /\ effect /\ UNCHANGED unpacked
  \/ ~ensure_existing_dir_no_symlink(p) /\ (Exists(p) \/ BehindLink(p)) /\ Reject
  \/ (~Exists(p) \/ tree[p].kind = "link") /\ UNCHANGED <<tree, unpacked>>

(* The marker of an opaque directory empties it at once, also of what this  *)
(* layer has put there.                                                     *)
ApplyOpaque_Skipped(p) == OnDirectory(p, UNCHANGED tree)

ApplyOpaque(p) == OnDirectory(p, tree' = Raze(tree, Under(p)))

(* A whiteout is remembered if there is something to remove now. *)
ApplyWhiteout(p) ==
  /\ IF Up[p] = Top THEN UNCHANGED <<tree, unpacked>> ELSE OnDirectory(Up[p], UNCHANGED tree)
  /\ whiteouts' = IF Exists(p) /\ unpacked' = "busy" THEN whiteouts \cup {p} ELSE whiteouts

(* An entry behind a link that leads out of the tree is refused. *)
safe_join(p) == IF BehindLink(p) THEN BOOLEAN ELSE {TRUE}

Apply(e) ==
  \/ e.kind = "dir" /\ ApplyDir(e.path) /\ UNCHANGED whiteouts
  \/ e.kind = "link" /\ ApplySymlink(e.path) /\ UNCHANGED whiteouts
  \/ e.kind = "file" /\ ApplyFile(e.path) /\ UNCHANGED whiteouts
  \/ e.kind = "opaque" /\ ApplyOpaque(e.path) /\ UNCHANGED whiteouts
  \/ e.kind = "whiteout" /\ ApplyWhiteout(e.path)

apply_layer(e) ==
  /\ unpacked = "busy" /\ Len(entries) < MaxEntries
  /\ entries' = Append(entries, e)
  /\ \E inside \in safe_join(e.path) :
       IF inside THEN Apply(e) ELSE Reject /\ UNCHANGED whiteouts
  /\ UNCHANGED <<below, layer>>

(* The end of the archive: the whiteouts are carried out by their names,    *)
(* and the next layer is opened, or there is none.  A name behind a link    *)
(* that came after the whiteout is whatever the link leads to: something    *)
(* else in the tree, or nothing of it (Top).                                *)
WithContents(ps) == ps \cup UNION {Under(p) : p \in ps}

EndLayer ==
  /\ unpacked = "busy" /\ whiteouts' = {}
  /\ \E at \in [whiteouts -> Paths \cup {Top}] :
       /\ \A p \in whiteouts : BehindLink(p) \/ at[p] = p
       /\ tree' = Raze(tree, WithContents({at[p] : p \in whiteouts} \ {Top}))
  /\ \/ /\ layer < MaxLayers /\ layer' = layer + 1 /\ entries' = <<>>
        /\ below' = tree' /\ UNCHANGED unpacked
     \/ /\ unpacked' = "done" /\ UNCHANGED <<below, entries, layer>>

UnpackNext == (\E e \in Entry : apply_layer(e)) \/ EndLayer

UnpackSpec == UnpackInit /\ [][UnpackNext]_unpackVars

-----------------------------------------------------------------------------
(* The reference: what the layer means, from the set of its entries. *)
Named(k) == {entries[i].path : i \in {j \in DOMAIN entries : entries[j].kind \in k}}

(* A layer that a builder may write: no path twice, nothing both added and  *)
(* taken away, nothing below a file or a link, markers before the contents. *)
Tidy ==
  /\ \A i, j \in DOMAIN entries :
       i # j /\ entries[i].path = entries[j].path =>
         {entries[i].kind, entries[j].kind} = {"dir", "opaque"}
  /\ \A p \in Named({"file", "link", "whiteout"}) : Under(p) \cap Named(Kinds \cup Marks) = {}
  /\ \A i, j \in DOMAIN entries :
       i < j /\ entries[j].kind = "opaque" => entries[i].path \notin Under(entries[j].path)

Hidden(p) ==
  \/ p \in Named({"whiteout"})
  \/ Ancestors[p] \cap Named({"whiteout", "opaque", "file", "link"}) # {}

Union == [p \in Paths |->
  CASE p \in Named({"file"}) -> [kind |-> "file", from |-> layer]
    [] p \in Named({"link"}) -> [kind |-> "link", from |-> layer]
    [] p \in Named({"dir"}) \/ Under(p) \cap Named(Kinds) # {} -> Dir
    [] OTHER -> IF Hidden(p) THEN Absent ELSE below[p]]

(* A layer that was applied without an error and is one a builder may write *)
(* leaves the union of itself and the tree below, although the code works   *)
(* entry by entry, removes at three different times and replaces in place.  *)
TreeIsUnion == unpacked = "done" /\ Tidy => tree = Union

(* No sequence of layers puts anything below a file or a link: nothing is   *)
(* ever written through a link that an earlier entry made.  Nor does a      *)
(* whiteout lead through one -- unless the link came after it, in the same  *)
(* layer (apply_layer, create_dir_all_no_symlink).                          *)
EntryAt(i, k, p) == entries[i] = [kind |-> k, path |-> p]
LinkIsLater(p) ==
  \A q \in Ancestors[p] : tree[q].kind = "link" =>
    \E i, j \in DOMAIN entries : i < j /\ EntryAt(i, "whiteout", p) /\ EntryAt(j, "link", q)
NothingBehindLinks ==
  /\ \A p \in Paths : Exists(p) /\ Up[p] # Top => IsDir(Up[p])
  /\ \A p \in whiteouts : LinkIsLater(p)

(* What a test says of whiteouts, for the check that shows otherwise:       *)
(* "whiteout parents must not follow symlink prefixes".                     *)
WhiteoutsFollowNoLink == \A p \in whiteouts : ~BehindLink(p)
=============================================================================
