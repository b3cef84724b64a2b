------------------------------ MODULE Registry ------------------------------
(***************************************************************************)
(* The hosted OCI registry: the handlers of src/registry/api_v2.rs, each   *)
(* split where another request or a sweep can run, the content-addressed   *)
(* store of src/registry/storage.rs, the rows of src/registry/repo.rs and  *)
(* the garbage collector of src/registry/gc.rs, which runs beside them on  *)
(* a timer and on demand.                                                  *)
(*                                                                         *)
(* A digest stands for its content.  A file is fresh or, once the grace    *)
(* period has passed since it was last written, old.                       *)
(***************************************************************************)
EXTENDS Naturals, FiniteSets

CONSTANTS
  Repos,
  Blobs,        \* digests of configs and layers
  Manifests,    \* digests of manifests
  Refs,         \* Refs[m]: the digests the body of m names
  EmptyBlob,    \* the digest of the empty content, in Blobs or not
  Uploads,      \* identities of upload sessions
  Clients,      \* requests served at the same time
  Sweepers,     \* sweeps under way at the same time
  MaxCrashes,   \* bound on restarts
  None

Digests == Blobs \cup Manifests

(* put_content stages a manifest in a sibling of its file. *)
Tmp(m) == <<m, "tmp">>
Tmps == {Tmp(m) : m \in Manifests}

ASSUME RegistryAssumption ==
  /\ Refs \in [Manifests -> SUBSET Digests]
  /\ Blobs \cap Manifests = {} /\ Digests \cap Uploads = {} /\ Digests \cap Tmps = {}
  /\ None \notin Digests \cup Repos \cup Uploads /\ Repos \cap {"new", "gone"} = {}
  /\ MaxCrashes \in Nat

VARIABLES
  \* SQLite
  brows,    \* hosted_blobs: <<repository, digest>>
  mrows,    \* hosted_manifests
  tag,      \* tag[r]: what the repository's tag points at
  session,  \* session[u]: "new", the repository of the upload row, or "gone"
  \* files
  disk,     \* files of the store: digests, and staged files left by a crash
  bad,      \* those whose content is not the digest's
  dirs,     \* upload directories
  data,     \* data[u]: the bytes received: "none", a digest's content, "part"
  old,      \* files not written within the grace period
  \* requests and sweeps
  req,      \* req[c]: where request c is, and what it is about
  gc,       \* gc[g]: where sweep g is
  \* history and bounds
  raced,    \* steps overlapped that nothing in the code keeps apart
  crashes

rows == <<brows, mrows, tag, session>>
files == <<disk, bad, dirs, data, old>>
vars == <<rows, files, req, gc, raced, crashes>>

IdleReq == [pc |-> "idle", repo |-> None, dig |-> None, up |-> None]
IdleGc == [pc |-> "idle", roots |-> {}, todo |-> {}, referenced |-> {},
           doomed |-> {}, cur |-> None]

Init ==
  /\ brows = {} /\ mrows = {}
  /\ tag = [r \in Repos |-> None]
  /\ session = [u \in Uploads |-> "new"]
  /\ disk = {} /\ bad = {} /\ dirs = {} /\ old = {}
  /\ data = [u \in Uploads |-> "none"]
  /\ req = [c \in Clients |-> IdleReq]
  /\ gc = [g \in Sweepers |-> IdleGc]
  /\ raced = FALSE /\ crashes = 0

Goto(c, p) == req' = [req EXCEPT ![c].pc = p]
Done(c) == req' = [req EXCEPT ![c] = IdleReq]
Begin(c, p, r, d, u) ==
  /\ req[c].pc = "idle"
  /\ req' = [req EXCEPT ![c] = [pc |-> p, repo |-> r, dig |-> d, up |-> u]]

(* What sets raced: a sweep overlaps a push, two requests use an upload    *)
(* session, a manifest is deleted between its row and its tag.             *)
Sweeping == \E g \in Sweepers : gc[g].pc # "idle"
Using(u) == \E c \in Clients : req[c].up = u
MayRace(b) == raced' = (raced \/ b)

-----------------------------------------------------------------------------
(* Uploads *)
create_upload(r, u) ==
  /\ session[u] = "new"
  /\ session' = [session EXCEPT ![u] = r]
  /\ dirs' = dirs \cup {u}

start_upload(r, u) ==
  /\ create_upload(r, u)
  /\ UNCHANGED <<brows, mrows, tag, disk, bad, data, old, req, gc, raced, crashes>>

(* The row of an upload names its repository. *)
upload(u) == session[u] \in Repos

(* The body is appended: the data is now some blob's, or a part of one. *)
stream_to_upload(u) ==
  /\ \E content \in (Blobs \ {EmptyBlob}) \cup {"part"} : data' = [data EXCEPT ![u] = content]
  /\ old' = old \ {u}

(* patch_upload, and the body of a commit. *)
patch_upload(u) ==
  /\ upload(u) /\ u \in dirs
  /\ stream_to_upload(u)
  /\ MayRace(Using(u))
  /\ UNCHANGED <<rows, disk, bad, dirs, req, gc, crashes>>

CommitBegin(c, u, d) ==
  /\ upload(u)
  /\ Begin(c, "hash", session[u], d, u)
  /\ MayRace(Sweeping \/ Using(u))
  /\ UNCHANGED <<rows, files, gc, crashes>>

(* A request that creates the session, streams the body and commits it. *)
commit_single_shot(c, r, u, d) ==
  /\ create_upload(r, u) /\ stream_to_upload(u)
  /\ Begin(c, "hash", r, d, u)
  /\ MayRace(Sweeping)
  /\ UNCHANGED <<brows, mrows, tag, disk, bad, gc, crashes>>

(* No data file counts as empty. *)
hash_upload(u) == IF data[u] = "none" THEN EmptyBlob ELSE data[u]

delete_upload(u) ==
  /\ dirs' = dirs \ {u}
  /\ data' = [data EXCEPT ![u] = "none"]
  /\ session' = [session EXCEPT ![u] = "gone"]

CommitHash(c) ==
  /\ req[c].pc = "hash"
  /\ \/ /\ hash_upload(req[c].up) = req[c].dig
        /\ Goto(c, "rename")
        /\ UNCHANGED <<dirs, data, session>>
     \/ delete_upload(req[c].up) /\ Done(c)   \* wrong digest, or the stream failed
  /\ UNCHANGED <<brows, mrows, tag, disk, bad, old, gc, raced, crashes>>

(* commit_blob moves the data file, with its age, or writes an empty one. *)
commit_blob(c) ==
  LET u == req[c].up
      d == req[c].dig
  IN /\ req[c].pc = "rename"
     /\ disk' = disk \cup {d}
     /\ bad' = IF hash_upload(u) = d THEN bad \ {d} ELSE bad \cup {d}
     /\ old' = IF data[u] # "none" /\ u \in old THEN (old \ {u}) \cup {d} ELSE old \ {u, d}
     /\ dirs' = dirs \ {u}
     /\ data' = [data EXCEPT ![u] = "none"]
     /\ Goto(c, "row")
     /\ UNCHANGED <<rows, gc, raced, crashes>>

put_blob(r, d) == brows' = brows \cup {<<r, d>>}

CommitRow(c) ==
  /\ req[c].pc = "row"
  /\ put_blob(req[c].repo, req[c].dig)
  /\ session' = [session EXCEPT ![req[c].up] = "gone"]
  /\ Done(c)
  /\ UNCHANGED <<mrows, tag, files, gc, raced, crashes>>

has_blob(r, d) == <<r, d>> \in brows

(* A mount from another repository: its row and the file, then a new row. *)
MountBegin(c, from, to, d) ==
  /\ has_blob(from, d) /\ d \in disk
  /\ Begin(c, "mount", to, d, None)
  /\ MayRace(Sweeping)
  /\ UNCHANGED <<rows, files, gc, crashes>>

MountRow(c) ==
  /\ req[c].pc = "mount"
  /\ put_blob(req[c].repo, req[c].dig)
  /\ Done(c)
  /\ UNCHANGED <<mrows, tag, session, files, gc, raced, crashes>>

-----------------------------------------------------------------------------
(* Manifests *)
parse_referenced_digests(m) == Refs[m]
manifest(r, m) == <<r, m>> \in mrows

PutCheck_Unchecked(c, r, m) ==
  /\ Begin(c, "content", r, m, None)
  /\ MayRace(Sweeping)
  /\ UNCHANGED <<rows, files, gc, crashes>>
PutCheck(c, r, m) ==
  /\ \A d \in parse_referenced_digests(m) : has_blob(r, d) \/ manifest(r, d)
  /\ Begin(c, "content", r, m, None)
  /\ MayRace(Sweeping)
  /\ UNCHANGED <<rows, files, gc, crashes>>

put_content(c) ==
  /\ req[c].pc = "content"
  /\ disk' = (disk \cup {req[c].dig}) \ {Tmp(req[c].dig)}
  /\ bad' = bad \ {req[c].dig}
  /\ old' = old \ {req[c].dig, Tmp(req[c].dig)}
  /\ Goto(c, "manifest")
  /\ UNCHANGED <<rows, dirs, data, gc, raced, crashes>>

put_manifest(c) ==
  /\ req[c].pc = "manifest"
  /\ mrows' = mrows \cup {<<req[c].repo, req[c].dig>>}
  /\ Goto(c, "tag") \/ Done(c)       \* a tag, or a digest reference
  /\ UNCHANGED <<brows, tag, session, files, gc, raced, crashes>>

put_tag(c) ==
  /\ req[c].pc = "tag"
  /\ tag' = [tag EXCEPT ![req[c].repo] = req[c].dig]
  /\ Done(c)
  /\ UNCHANGED <<brows, mrows, session, files, gc, raced, crashes>>

delete_manifest(r, m) ==
  /\ <<r, m>> \in mrows
  /\ mrows' = mrows \ {<<r, m>>}
  /\ tag' = [tag EXCEPT ![r] = IF @ = m THEN None ELSE @]
  /\ MayRace(\E c \in Clients : req[c].pc = "tag" /\ req[c].repo = r)
  /\ UNCHANGED <<brows, session, files, req, gc, crashes>>

delete_tag(r) ==
  /\ tag[r] # None
  /\ tag' = [tag EXCEPT ![r] = None]
  /\ UNCHANGED <<brows, mrows, session, files, req, gc, raced, crashes>>

(* DELETE of a reference: a digest, or a tag. *)
DeleteReference(r) == (\E m \in Manifests : delete_manifest(r, m)) \/ delete_tag(r)

delete_blob(r, d) ==
  /\ <<r, d>> \in brows
  /\ brows' = brows \ {<<r, d>>}
  /\ UNCHANGED <<mrows, tag, session, files, req, gc, raced, crashes>>

Request(c) ==
  \/ \E u \in Uploads, d \in Blobs :
       CommitBegin(c, u, d) \/ \E r \in Repos : commit_single_shot(c, r, u, d)
  \/ \E from, to \in Repos, d \in Blobs : from # to /\ MountBegin(c, from, to, d)
  \/ \E r \in Repos, m \in Manifests : PutCheck(c, r, m)
  \/ CommitHash(c) \/ commit_blob(c) \/ CommitRow(c) \/ MountRow(c)
  \/ put_content(c) \/ put_manifest(c) \/ put_tag(c)

-----------------------------------------------------------------------------
(* sweep_once *)
GcEnd(g) == gc' = [gc EXCEPT ![g] = IdleGc]

GcStart(g) ==
  /\ gc[g].pc = "idle"
  /\ LET roots == {m \in Manifests : \E r \in Repos : <<r, m>> \in mrows}
     IN gc' = [gc EXCEPT ![g] = [IdleGc EXCEPT !.pc = "mark", !.roots = roots, !.todo = roots]]
  /\ MayRace(Sweeping \/ \E c \in Clients : req[c].pc # "idle")
  /\ UNCHANGED <<rows, files, req, crashes>>

read_manifest_body(m) == m \in disk

(* One manifest off the queue.  A digest that is already in the referenced *)
(* set is not walked, and a sub-manifest enters the set before the queue.  *)
GcMark_SkipUnreadable(g) ==
  \E m \in gc[g].todo :
    /\ gc[g].pc = "mark"
    /\ gc' = [gc EXCEPT ![g].todo = @ \ {m},
                        ![g].referenced = @ \cup {m} \cup (IF m \in disk THEN Refs[m] ELSE {})]
    /\ UNCHANGED <<rows, files, req, raced, crashes>>
GcMark(g) ==
  \E m \in gc[g].todo :
    /\ gc[g].pc = "mark"
    /\ \/ /\ m \in gc[g].referenced
          /\ gc' = [gc EXCEPT ![g].todo = @ \ {m}]
       \/ /\ m \notin gc[g].referenced /\ read_manifest_body(m)
          /\ gc' = [gc EXCEPT ![g].todo = (@ \ {m}) \cup (parse_referenced_digests(m) \cap Manifests),
                              ![g].referenced = @ \cup {m} \cup parse_referenced_digests(m)]
       \/ /\ m \notin gc[g].referenced /\ ~read_manifest_body(m)   \* the sweep gives up
          /\ GcEnd(g)
    /\ UNCHANGED <<rows, files, req, raced, crashes>>

(* list_blobs against the cutoff *)
GcList(g) ==
  /\ gc[g].pc = "mark" /\ gc[g].todo = {}
  /\ gc' = [gc EXCEPT ![g].pc = "sweep", ![g].doomed = (disk \ gc[g].referenced) \cap old]
  /\ UNCHANGED <<rows, files, req, raced, crashes>>

(* delete_blob; the name of a staged file is no digest, and its error ends *)
(* the sweep.                                                              *)
GcFile(g) ==
  \E d \in gc[g].doomed :
    /\ gc[g].pc = "sweep"
    /\ \/ /\ d \in Digests
          /\ disk' = disk \ {d} /\ bad' = bad \ {d} /\ old' = old \ {d}
          /\ gc' = [gc EXCEPT ![g].pc = "rows", ![g].cur = d, ![g].doomed = @ \ {d}]
       \/ /\ d \in Tmps
          /\ GcEnd(g)
          /\ UNCHANGED <<disk, bad, old>>
    /\ UNCHANGED <<rows, dirs, data, req, raced, crashes>>

GcRows(g) ==
  /\ gc[g].pc = "rows"
  /\ brows' = {b \in brows : b[2] # gc[g].cur}
  /\ gc' = [gc EXCEPT ![g].pc = "sweep", ![g].cur = None]
  /\ UNCHANGED <<mrows, tag, session, files, req, raced, crashes>>

GcFinish(g) ==
  /\ gc[g].pc = "sweep" /\ gc[g].doomed = {}
  /\ GcEnd(g)
  /\ UNCHANGED <<rows, files, req, raced, crashes>>

Sweep(g) == GcStart(g) \/ GcMark(g) \/ GcList(g) \/ GcFile(g) \/ GcRows(g) \/ GcFinish(g)

-----------------------------------------------------------------------------
(* The grace period of a file ends. *)
Age(f) ==
  /\ f \in disk \cup {u \in Uploads : data[u] # "none"}
  /\ f \notin old
  /\ old' = old \cup {f}
  /\ UNCHANGED <<rows, disk, bad, dirs, data, req, gc, raced, crashes>>

(* The daemon dies and comes back: rows and files are as they were. *)
Staged == {Tmp(req[c].dig) : c \in {x \in Clients : req[x].pc = "content"}}
Reboot ==
  /\ crashes < MaxCrashes
  /\ crashes' = crashes + 1
  /\ req' = [c \in Clients |-> IdleReq]
  /\ gc' = [g \in Sweepers |-> IdleGc]
  /\ \E left \in SUBSET Staged : disk' = disk \cup left /\ old' = old \ left
  /\ MayRace(\E g \in Sweepers : gc[g].pc = "rows")
  /\ UNCHANGED <<rows, bad, dirs, data>>

Next ==
  \/ \E r \in Repos, u \in Uploads : start_upload(r, u)
  \/ \E u \in Uploads : patch_upload(u)
  \/ \E c \in Clients : Request(c)
  \/ \E r \in Repos : DeleteReference(r)
  \/ \E r \in Repos, d \in Blobs : delete_blob(r, d)
  \/ \E g \in Sweepers : Sweep(g)
  \/ \E f \in Digests \cup Tmps \cup Uploads : Age(f)
  \/ Reboot

Spec == Init /\ [][Next]_vars

-----------------------------------------------------------------------------
(* What a pull of m needs: two levels suffice for an index of images. *)
Needs(m) == {m} \cup Refs[m] \cup UNION {Refs[s] : s \in Refs[m] \cap Manifests}

(* gc.rs sweep_once: a sweep deletes nothing that a manifest recorded when *)
(* it began needs, whatever is pushed, deleted or restarted meanwhile.     *)
SweepSpares ==
  [][\A g \in Sweepers : gc[g].pc = "sweep" /\ gc'[g].pc = "rows"
       => \A m \in gc[g].roots : gc'[g].cur \notin Needs(m)]_vars

(* put_manifest's referential integrity and the order of sweep_once: a     *)
(* recorded manifest can be pulled, with everything it needs, however      *)
(* blobs age, are deleted and swept between the requests of a push --      *)
(* unless a sweep overlapped a push, or a crash fell between a file and    *)
(* its rows.                                                               *)
Pullable == ~raced => \A p \in mrows : Needs(p[2]) \subseteq disk

(* delete_manifest: a tag points at a recorded manifest, unless that was   *)
(* deleted while the tag was being put.                                    *)
TagsResolve == ~raced => \A r \in Repos : tag[r] # None => <<r, tag[r]>> \in mrows

(* commit_upload: a file under a digest has that digest's content, unless  *)
(* two requests used one upload session at a time.                         *)
ContentAddressed == ~raced => bad = {}
=============================================================================
