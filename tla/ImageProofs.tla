---------------------------- MODULE ImageProofs -----------------------------
(* What the ways of an image guarantee for any images, clients and          *)
(* deployments: the hosted registry it is pushed to, the layer cache and    *)
(* the bundles it is pulled into, and the unpacking of its layers.          *)
EXTENDS Artifacts, Registry, Unpack, FiniteSetTheorems, TLAPS

(* Types: where a request and a sweep can be, and what they are about. *)
ReqPcs == {"idle", "hash", "rename", "row", "mount", "content", "manifest", "tag"}
GcPcs == {"idle", "mark", "sweep", "rows"}
ReqType == [pc : ReqPcs, repo : Repos \cup {None}, dig : Digests \cup {None},
            up : Uploads \cup {None}]
GcType == [pc : GcPcs, roots : SUBSET Manifests, todo : SUBSET Manifests,
           referenced : SUBSET Digests, doomed : SUBSET (Digests \cup Tmps),
           cur : Digests \cup {None}]

(* A request is about what its place needs. *)
About(q) ==
  /\ q.pc \in {"hash", "rename", "row"} => q.repo \in Repos /\ q.dig \in Blobs /\ q.up \in Uploads
  /\ q.pc = "mount" => q.repo \in Repos /\ q.dig \in Blobs
  /\ q.pc \in {"content", "manifest", "tag"} => q.repo \in Repos /\ q.dig \in Manifests
  /\ q.pc \notin {"hash", "rename", "row"} => q.up = None

(* Types of the registry. *)
RegistryTypeOK ==
  /\ req \in [Clients -> ReqType] /\ (\A c \in Clients : About(req[c]))
  /\ gc \in [Sweepers -> GcType]
  /\ brows \subseteq Repos \X Blobs /\ mrows \subseteq Repos \X Manifests
  /\ tag \in [Repos -> Manifests \cup {None}]
  /\ session \in [Uploads -> Repos \cup {"new", "gone"}]
  /\ DOMAIN data = Uploads
  /\ disk \subseteq Digests \cup Tmps /\ raced \in BOOLEAN

(* No index: every manifest names blobs only.  Indexes are a case of their  *)
(* own, in which a sweep removes what is still needed (run registry_index). *)
Flat == \A m \in Manifests : Refs[m] \subseteq Blobs

(* A mark phase has what it has taken off the queue in its set, with all it *)
(* names; a sweep has nothing queued, and dooms nothing of the set.         *)
Walked(s) ==
  /\ s.pc # "idle" => s.roots \ s.todo \subseteq s.referenced
  /\ \A m \in s.referenced \cap Manifests : Refs[m] \subseteq s.referenced
  /\ s.pc \in {"sweep", "rows"} => s.todo = {} /\ s.doomed \cap s.referenced = {}

(* The invariant of the sweeps. *)
MarkInv == RegistryTypeOK /\ \A g \in Sweepers : Walked(gc[g])

(* Unless the store was raced, a sweep runs while no request does, alone,   *)
(* and knows every recorded manifest.                                       *)
Quiet(g) ==
  gc[g].pc # "idle" =>
    /\ \A c \in Clients : req[c].pc = "idle"
    /\ \A h \in Sweepers : gc[h].pc # "idle" => h = g
    /\ \A p \in mrows : p[2] \in gc[g].roots

(* What request q rests on, in store ds with the manifest rows ms: the file *)
(* is there before its row is written, what the manifest names before the   *)
(* manifest, and its row before the tag.                                    *)
Ready(q, ds, ms) ==
  /\ q.pc \in {"row", "mount"} => q.dig \in ds
  /\ q.pc \in {"content", "manifest"} => Refs[q.dig] \subseteq ds
  /\ q.pc = "manifest" => q.dig \in ds
  /\ q.pc = "tag" => <<q.repo, q.dig>> \in ms

(* The inductive invariant of the store. *)
StoreInv ==
  ~raced =>
    /\ \A g \in Sweepers : Quiet(g)
    /\ \A c \in Clients : Ready(req[c], disk, mrows)
    /\ \A b \in brows : b[2] \in disk \/ \E g \in Sweepers : gc[g].pc = "rows" /\ gc[g].cur = b[2]
    /\ \A p \in mrows : {p[2]} \cup Refs[p[2]] \subseteq disk
    /\ \A r \in Repos : tag[r] # None => <<r, tag[r]>> \in mrows

(* The three parts of the types. *)
ReqTyped == req \in [Clients -> ReqType] /\ \A c \in Clients : About(req[c])
(* One request changes ... *)
LEMMA ReqSet ==
  ASSUME ReqTyped, NEW c \in Clients, NEW q \in ReqType, About(q), req' = [req EXCEPT ![c] = q]
  PROVE  ReqTyped'
  BY DEF ReqTyped

(* (an idle request and an idle sweep are well typed) *)
LEMMA IdleTyped == IdleReq \in ReqType /\ About(IdleReq) /\ IdleGc \in GcType
  BY DEF IdleReq, ReqType, ReqPcs, About, IdleGc, GcType, GcPcs

(* ... it ends ... *)
LEMMA ReqDone ==
  ASSUME ReqTyped, NEW c \in Clients, Done(c)
  PROVE  ReqTyped'
  BY IdleTyped, ReqSet DEF Done

(* ... begins ... *)
LEMMA ReqBegin ==
  ASSUME ReqTyped, NEW c \in Clients, NEW p, NEW r, NEW d, NEW u, Begin(c, p, r, d, u),
         \/ p = "hash" /\ r \in Repos /\ d \in Blobs /\ u \in Uploads
         \/ p = "mount" /\ r \in Repos /\ d \in Blobs /\ u = None
         \/ p = "content" /\ r \in Repos /\ d \in Manifests /\ u = None
  PROVE  ReqTyped'
  <1>1. PICK q : q = [pc |-> p, repo |-> r, dig |-> d, up |-> u] OBVIOUS
  <1>2. q \in ReqType /\ About(q) BY <1>1 DEF ReqType, ReqPcs, About, Digests
  <1>3. req' = [req EXCEPT ![c] = q] BY <1>1 DEF Begin
  <1> QED BY <1>2, <1>3, ReqSet

(* ... or moves on. *)
LEMMA ReqGoto ==
  ASSUME ReqTyped, NEW c \in Clients, NEW p, Goto(c, p),
         \/ req[c].pc = "hash" /\ p = "rename"
         \/ req[c].pc = "rename" /\ p = "row"
         \/ req[c].pc = "content" /\ p = "manifest"
         \/ req[c].pc = "manifest" /\ p = "tag"
  PROVE  ReqTyped'
  <1>1. PICK q : q = [req[c] EXCEPT !.pc = p] OBVIOUS
  <1>2. req[c] \in ReqType /\ About(req[c]) BY DEF ReqTyped
  <1>3. q \in ReqType /\ About(q) BY <1>1, <1>2 DEF ReqType, ReqPcs, About
  <1>4. req' = [req EXCEPT ![c] = q] BY <1>1 DEF Goto
  <1> QED BY <1>3, <1>4, ReqSet

(* One sweep changes. *)
GcTyped == gc \in [Sweepers -> GcType]
(* One sweep changes. *)
LEMMA GcSet ==
  ASSUME GcTyped, NEW g \in Sweepers, NEW s \in GcType, gc' = [gc EXCEPT ![g] = s]
  PROVE  GcTyped'
  BY DEF GcTyped

(* Types of the rows and files. *)
RowTypes ==
  /\ brows \subseteq Repos \X Blobs /\ mrows \subseteq Repos \X Manifests
  /\ tag \in [Repos -> Manifests \cup {None}]
  /\ session \in [Uploads -> Repos \cup {"new", "gone"}]
  /\ DOMAIN data = Uploads
  /\ disk \subseteq Digests \cup Tmps /\ raced \in BOOLEAN

(* These are the types. *)
LEMMA TypesAre == RegistryTypeOK <=> ReqTyped /\ GcTyped /\ RowTypes
  BY DEF RegistryTypeOK, ReqTyped, GcTyped, RowTypes

(* Requests keep the types. *)
LEMMA RequestTypes ==
  ASSUME ReqTyped, RowTypes, NEW c \in Clients, Request(c)
  PROVE  ReqTyped' /\ RowTypes' /\ UNCHANGED gc
  <1>0. /\ req[c].pc \in {"hash", "rename", "row"} =>
             req[c].repo \in Repos /\ req[c].dig \in Blobs /\ req[c].up \in Uploads
        /\ req[c].pc = "mount" => req[c].repo \in Repos /\ req[c].dig \in Blobs
        /\ req[c].pc \in {"content", "manifest", "tag"} =>
             req[c].repo \in Repos /\ req[c].dig \in Manifests
    BY DEF ReqTyped, About
  <1> USE DEF RowTypes
  <1>1. ASSUME NEW u \in Uploads, NEW d \in Blobs, CommitBegin(c, u, d)
        PROVE  ReqTyped' /\ RowTypes' /\ UNCHANGED gc
    BY <1>1, ReqBegin DEF CommitBegin, upload, MayRace, rows, files
  <1>2. ASSUME NEW u \in Uploads, NEW d \in Blobs, NEW r \in Repos, commit_single_shot(c, r, u, d)
        PROVE  ReqTyped' /\ RowTypes' /\ UNCHANGED gc
    BY <1>2, ReqBegin DEF commit_single_shot, create_upload, stream_to_upload, MayRace
  <1>3. ASSUME NEW from \in Repos, NEW to \in Repos, NEW d \in Blobs, MountBegin(c, from, to, d)
        PROVE  ReqTyped' /\ RowTypes' /\ UNCHANGED gc
    BY <1>3, ReqBegin DEF MountBegin, MayRace, rows, files
  <1>4. ASSUME NEW r \in Repos, NEW m \in Manifests, PutCheck(c, r, m)
        PROVE  ReqTyped' /\ RowTypes' /\ UNCHANGED gc
    BY <1>4, ReqBegin DEF PutCheck, MayRace, rows, files
  <1>5. CASE CommitHash(c)
    <2>1. ReqTyped' BY <1>5, ReqGoto, ReqDone DEF CommitHash
    <2> QED BY <2>1, <1>5 DEF CommitHash, delete_upload
  <1>6. CASE commit_blob(c)
    <2>1. ReqTyped' BY <1>6, ReqGoto DEF commit_blob
    <2> QED BY <2>1, <1>0, <1>6 DEF commit_blob, Digests, rows
  <1>7. CASE CommitRow(c)
    <2>1. ReqTyped' BY <1>7, ReqDone DEF CommitRow
    <2> QED BY <2>1, <1>0, <1>7 DEF CommitRow, put_blob, files
  <1>8. CASE MountRow(c)
    <2>1. ReqTyped' BY <1>8, ReqDone DEF MountRow
    <2> QED BY <2>1, <1>0, <1>8 DEF MountRow, put_blob, files
  <1>9. CASE put_content(c)
    <2>1. ReqTyped' BY <1>9, ReqGoto DEF put_content
    <2> QED BY <2>1, <1>0, <1>9 DEF put_content, Digests, rows
  <1>10. CASE put_manifest(c)
    <2>1. ReqTyped' BY <1>10, ReqGoto, ReqDone DEF put_manifest
    <2> QED BY <2>1, <1>0, <1>10 DEF put_manifest, files
  <1>11. CASE put_tag(c)
    <2>1. ReqTyped' BY <1>11, ReqDone DEF put_tag
    <2> QED BY <2>1, <1>0, <1>11 DEF put_tag, files
  <1> QED
    BY <1>1, <1>2, <1>3, <1>4, <1>5, <1>6, <1>7, <1>8, <1>9, <1>10, <1>11 DEF Request

(* Sweep g becomes s. *)
Marking(g, s) == gc' = [gc EXCEPT ![g] = s] /\ s \in GcType
(* A sweep begins with every recorded manifest. *)
LEMMA GcStarts ==
  ASSUME GcTyped, RowTypes, NEW g \in Sweepers, GcStart(g)
  PROVE  \E s : /\ Marking(g, s) /\ s.pc = "mark" /\ s.todo = s.roots /\ s.referenced = {}
                /\ \A p \in mrows : p[2] \in s.roots
  <1>1. PICK roots \in SUBSET Manifests :
          roots = {m \in Manifests : \E r \in Repos : <<r, m>> \in mrows}
    OBVIOUS
  <1>2. PICK s : s = [IdleGc EXCEPT !.pc = "mark", !.roots = roots, !.todo = roots] OBVIOUS
  <1>3. gc' = [gc EXCEPT ![g] = s] BY <1>1, <1>2 DEF GcStart
  <1>4. s \in GcType /\ s.pc = "mark" /\ s.todo = s.roots /\ s.referenced = {} /\ s.roots = roots
    BY <1>2 DEF IdleGc, GcType, GcPcs
  <1>5. ASSUME NEW p \in mrows PROVE p[2] \in roots
    <2>1. PICK r \in Repos, m \in Manifests : p = <<r, m>> BY DEF RowTypes
    <2> QED BY <1>1, <2>1
  <1> QED BY <1>3, <1>4, <1>5 DEF Marking

(* It walks one manifest, or gives up. *)
LEMMA GcMarks ==
  ASSUME GcTyped, NEW g \in Sweepers, GcMark(g)
  PROVE  \E s : /\ Marking(g, s)
                /\ s = IdleGc \/ (s.pc = "mark" /\ s.roots = gc[g].roots)
                /\ Flat /\ Walked(gc[g]) => Walked(s)
  <1>1. PICK m \in gc[g].todo :
          /\ gc[g].pc = "mark"
          /\ \/ /\ m \in gc[g].referenced
                /\ gc' = [gc EXCEPT ![g].todo = @ \ {m}]
             \/ /\ m \notin gc[g].referenced /\ read_manifest_body(m)
                /\ gc' = [gc EXCEPT ![g].todo = (@ \ {m}) \cup (parse_referenced_digests(m) \cap Manifests),
                              ![g].referenced = @ \cup {m} \cup parse_referenced_digests(m)]
             \/ /\ m \notin gc[g].referenced /\ ~read_manifest_body(m)
                /\ GcEnd(g)
    BY DEF GcMark
  <1>2. gc[g] \in GcType BY DEF GcTyped
  <1>3. m \in Manifests /\ Refs[m] \subseteq Digests /\ (Flat => Refs[m] \subseteq Blobs)
    BY <1>2, RegistryAssumption DEF GcType, Flat
  <1>4. CASE gc' = [gc EXCEPT ![g].todo = @ \ {m}] /\ m \in gc[g].referenced
    <2>1. PICK s : s = [gc[g] EXCEPT !.todo = gc[g].todo \ {m}] OBVIOUS
    <2>2. gc' = [gc EXCEPT ![g] = s] BY <2>1, <1>4
    <2>3. s \in GcType BY <2>1, <1>2 DEF GcType
    <2>4. s.pc = "mark" /\ s.roots = gc[g].roots /\ (Walked(gc[g]) => Walked(s))
      BY <2>1, <1>1, <1>2, <1>4 DEF Walked, GcType
    <2> QED BY <2>2, <2>3, <2>4 DEF Marking
  <1>5. CASE gc' = [gc EXCEPT ![g].todo = (@ \ {m}) \cup (parse_referenced_digests(m) \cap Manifests),
                              ![g].referenced = @ \cup {m} \cup parse_referenced_digests(m)]
    <2>1. PICK s : s = [gc[g] EXCEPT !.todo = (gc[g].todo \ {m}) \cup (Refs[m] \cap Manifests),
                                     !.referenced = gc[g].referenced \cup {m} \cup Refs[m]]
      OBVIOUS
    <2>2. gc' = [gc EXCEPT ![g] = s]
      BY <2>1, <1>2, <1>5 DEF parse_referenced_digests, GcType, GcTyped
    <2>3. s \in GcType BY <2>1, <1>2, <1>3 DEF GcType, Digests
    <2>4. s.pc = "mark" /\ s.roots = gc[g].roots
           /\ s.todo = (gc[g].todo \ {m}) \cup (Refs[m] \cap Manifests)
           /\ s.referenced = gc[g].referenced \cup {m} \cup Refs[m]
      BY <2>1, <1>1, <1>2 DEF GcType
    <2>5. Flat /\ Walked(gc[g]) => Walked(s)
      BY <2>4, <1>1, <1>3, RegistryAssumption DEF Walked
    <2> QED BY <2>2, <2>3, <2>4, <2>5 DEF Marking
  <1>6. CASE GcEnd(g)
    <2>1. Walked(IdleGc) BY DEF Walked, IdleGc
    <2> QED BY <2>1, <1>6, IdleTyped DEF GcEnd, Marking
  <1> QED BY <1>1, <1>4, <1>5, <1>6

(* It dooms old files that are not in its set ... *)
LEMMA GcLists ==
  ASSUME GcTyped, RowTypes, NEW g \in Sweepers, GcList(g)
  PROVE  \E s : /\ Marking(g, s) /\ s.pc = "sweep" /\ s.roots = gc[g].roots
                /\ Walked(gc[g]) => Walked(s)
  <1>1. gc[g] \in GcType BY DEF GcTyped
  <1>2. PICK s : s = [gc[g] EXCEPT !.pc = "sweep", !.doomed = (disk \ gc[g].referenced) \cap old]
    OBVIOUS
  <1>3. gc' = [gc EXCEPT ![g] = s] BY <1>1, <1>2 DEF GcList, GcTyped
  <1>4. s \in GcType BY <1>1, <1>2 DEF GcType, GcPcs, RowTypes
  <1>5. s.pc = "sweep" /\ s.roots = gc[g].roots /\ s.todo = gc[g].todo
        /\ s.referenced = gc[g].referenced /\ s.doomed = (disk \ gc[g].referenced) \cap old
    BY <1>1, <1>2 DEF GcType
  <1>6. gc[g].pc = "mark" /\ gc[g].todo = {} BY DEF GcList
  <1>7. Walked(gc[g]) => Walked(s) BY <1>5, <1>6 DEF Walked
  <1> QED BY <1>3, <1>4, <1>5, <1>7 DEF Marking

(* ... deletes one of them ... *)
LEMMA GcFiles ==
  ASSUME GcTyped, NEW g \in Sweepers, GcFile(g)
  PROVE  \E s : /\ Marking(g, s)
                /\ \/ s = IdleGc /\ UNCHANGED <<disk, bad>>
                   \/ /\ s.pc = "rows" /\ s.roots = gc[g].roots
                      /\ s.cur \in gc[g].doomed \cap Digests
                      /\ disk' = disk \ {s.cur} /\ bad' = bad \ {s.cur}
                /\ gc[g].pc = "sweep" /\ (Walked(gc[g]) => Walked(s))
                /\ UNCHANGED <<rows, dirs, data, req, raced>>
  <1>1. PICK d \in gc[g].doomed :
          /\ gc[g].pc = "sweep"
          /\ \/ /\ d \in Digests
                /\ disk' = disk \ {d} /\ bad' = bad \ {d} /\ old' = old \ {d}
                /\ gc' = [gc EXCEPT ![g].pc = "rows", ![g].cur = d, ![g].doomed = @ \ {d}]
             \/ /\ d \in Tmps
                /\ GcEnd(g)
                /\ UNCHANGED <<disk, bad, old>>
          /\ UNCHANGED <<rows, dirs, data, req, raced, crashes>>
    BY DEF GcFile
  <1>2. gc[g] \in GcType BY DEF GcTyped
  <1>3. CASE /\ d \in Digests
             /\ disk' = disk \ {d} /\ bad' = bad \ {d}
             /\ gc' = [gc EXCEPT ![g].pc = "rows", ![g].cur = d, ![g].doomed = @ \ {d}]
    <2>1. PICK s : s = [gc[g] EXCEPT !.pc = "rows", !.cur = d, !.doomed = gc[g].doomed \ {d}]
      OBVIOUS
    <2>2. gc' = [gc EXCEPT ![g] = s] BY <2>1, <1>2, <1>3 DEF GcType, GcTyped
    <2>3. s \in GcType BY <2>1, <1>2, <1>3 DEF GcType, GcPcs
    <2>4. s.pc = "rows" /\ s.roots = gc[g].roots /\ s.todo = gc[g].todo /\ s.cur = d
          /\ s.referenced = gc[g].referenced /\ s.doomed = gc[g].doomed \ {d}
      BY <2>1, <1>2 DEF GcType
    <2>5. Walked(gc[g]) => Walked(s) BY <2>4, <1>1 DEF Walked
    <2> QED BY <2>2, <2>3, <2>4, <2>5, <1>1, <1>3 DEF Marking
  <1>4. CASE GcEnd(g) /\ UNCHANGED <<disk, bad>>
    <2>1. Walked(IdleGc) BY DEF Walked, IdleGc
    <2> QED BY <2>1, <1>1, <1>4, IdleTyped DEF GcEnd, Marking
  <1> QED BY <1>1, <1>3, <1>4

(* ... and its rows. *)
LEMMA GcDropsRows ==
  ASSUME GcTyped, NEW g \in Sweepers, GcRows(g)
  PROVE  \E s : /\ Marking(g, s) /\ s.pc = "sweep" /\ s.roots = gc[g].roots
                /\ Walked(gc[g]) => Walked(s)
  <1>1. gc[g] \in GcType BY DEF GcTyped
  <1>2. PICK s : s = [gc[g] EXCEPT !.pc = "sweep", !.cur = None] OBVIOUS
  <1>3. gc' = [gc EXCEPT ![g] = s] BY <1>1, <1>2 DEF GcRows, GcTyped, GcType
  <1>4. s \in GcType BY <1>1, <1>2 DEF GcType, GcPcs
  <1>5. s.pc = "sweep" /\ s.roots = gc[g].roots /\ s.todo = gc[g].todo
        /\ s.referenced = gc[g].referenced /\ s.doomed = gc[g].doomed
    BY <1>1, <1>2 DEF GcType
  <1>6. Walked(gc[g]) => Walked(s) BY <1>5 DEF Walked, GcRows
  <1> QED BY <1>3, <1>4, <1>5, <1>6 DEF Marking

(* Sweeps keep the types and, without indexes, what Walked says. *)
LEMMA SweepTypes ==
  ASSUME ReqTyped, GcTyped, RowTypes, NEW g \in Sweepers, Sweep(g)
  PROVE  /\ ReqTyped' /\ GcTyped' /\ RowTypes' /\ req' = req
         /\ (Flat /\ \A h \in Sweepers : Walked(gc[h])) => \A h \in Sweepers : Walked(gc'[h])
  <1>0. /\ req' = req
        /\ \E s : Marking(g, s) /\ (Flat /\ Walked(gc[g]) => Walked(s))
    <2>1. CASE GcStart(g)
      <3>1. PICK s : Marking(g, s) /\ s.pc = "mark" /\ s.todo = s.roots /\ s.referenced = {}
        BY <2>1, GcStarts
      <3> QED BY <2>1, <3>1 DEF GcStart, Walked
    <2>2. CASE GcMark(g) BY <2>2, GcMarks DEF GcMark
    <2>3. CASE GcList(g) BY <2>3, GcLists DEF GcList
    <2>4. CASE GcFile(g) BY <2>4, GcFiles
    <2>5. CASE GcRows(g) BY <2>5, GcDropsRows DEF GcRows
    <2>6. CASE GcFinish(g)
      <3>1. Walked(IdleGc) BY DEF Walked, IdleGc
      <3> QED BY <2>6, <3>1, IdleTyped DEF GcFinish, GcEnd, Marking
    <2> QED BY <2>1, <2>2, <2>3, <2>4, <2>5, <2>6 DEF Sweep
  <1>1. PICK s : Marking(g, s) /\ (Flat /\ Walked(gc[g]) => Walked(s)) BY <1>0
  <1>2. GcTyped' BY <1>1, GcSet DEF Marking
  <1>3. ReqTyped' BY <1>0 DEF ReqTyped
  <1>4. (Flat /\ \A h \in Sweepers : Walked(gc[h])) => \A h \in Sweepers : Walked(gc'[h])
    BY <1>1 DEF Marking, GcTyped
  <1>5. RowTypes'
    <2>1. UNCHANGED <<mrows, tag, session, data>> /\ brows' \subseteq brows
          /\ disk' \subseteq disk /\ raced' \in BOOLEAN
      BY DEF Sweep, GcStart, GcMark, GcList, GcFile, GcRows, GcFinish, MayRace, rows, files, RowTypes
    <2> QED BY <2>1 DEF RowTypes
  <1> QED BY <1>0, <1>2, <1>3, <1>4, <1>5

(* The remaining steps. *)
OtherTypes == ReqTyped' /\ GcTyped' /\ RowTypes' /\ (UNCHANGED gc \/ gc' = [g \in Sweepers |-> IdleGc])
(* They keep the types as well. *)
LEMMA RestTypes ==
  ASSUME ReqTyped, GcTyped, RowTypes,
         \/ \E r \in Repos, u \in Uploads : start_upload(r, u)
         \/ \E u \in Uploads : patch_upload(u)
         \/ \E r \in Repos : DeleteReference(r)
         \/ \E r \in Repos, d \in Blobs : delete_blob(r, d)
         \/ \E f \in Digests \cup Tmps \cup Uploads : Age(f)
         \/ Reboot
  PROVE  OtherTypes
  <1> USE DEF RowTypes
  <1>0. UNCHANGED <<req, gc>> => ReqTyped' /\ GcTyped' BY DEF ReqTyped, GcTyped
  <1>1. ASSUME NEW r \in Repos, NEW u \in Uploads, start_upload(r, u) PROVE OtherTypes
    BY <1>0, <1>1 DEF start_upload, create_upload, OtherTypes
  <1>2. ASSUME NEW u \in Uploads, patch_upload(u) PROVE OtherTypes
    BY <1>0, <1>2 DEF patch_upload, stream_to_upload, MayRace, rows, OtherTypes
  <1>3. ASSUME NEW r \in Repos, NEW m \in Manifests, delete_manifest(r, m) PROVE OtherTypes
    BY <1>0, <1>3 DEF delete_manifest, MayRace, files, OtherTypes
  <1>4. ASSUME NEW r \in Repos, delete_tag(r) PROVE OtherTypes
    BY <1>0, <1>4 DEF delete_tag, files, OtherTypes
  <1>5. ASSUME NEW r \in Repos, NEW d \in Blobs, delete_blob(r, d) PROVE OtherTypes
    BY <1>0, <1>5 DEF delete_blob, files, OtherTypes
  <1>6. ASSUME NEW f, Age(f) PROVE OtherTypes
    BY <1>0, <1>6 DEF Age, rows, OtherTypes
  <1>7. CASE Reboot
    <2>1. ReqTyped' BY <1>7, IdleTyped DEF Reboot, ReqTyped
    <2>2. GcTyped' BY <1>7, IdleTyped DEF Reboot, GcTyped
    <2>3. ASSUME NEW t \in Staged PROVE t \in Tmps
      <3>1. PICK c \in Clients : req[c].pc = "content" /\ t = Tmp(req[c].dig) BY DEF Staged
      <3>2. req[c].dig \in Manifests BY <3>1 DEF ReqTyped, About
      <3> QED BY <3>1, <3>2 DEF Tmps
    <2>4. disk' \subseteq Digests \cup Tmps BY <2>3, <1>7 DEF Reboot
    <2> QED BY <2>1, <2>2, <2>4, <1>7 DEF Reboot, MayRace, rows, OtherTypes
  <1> QED BY <1>1, <1>2, <1>3, <1>4, <1>5, <1>6, <1>7 DEF DeleteReference

(* The types hold. *)
LEMMA RegistryTypes == Spec => []RegistryTypeOK
  <1>1. Init => RegistryTypeOK
    BY IdleTyped DEF Init, RegistryTypeOK
  <1>2. RegistryTypeOK /\ [Next]_vars => RegistryTypeOK'
    <2> SUFFICES ASSUME ReqTyped, GcTyped, RowTypes, [Next]_vars
                 PROVE  (ReqTyped /\ GcTyped /\ RowTypes)'
      BY DEF RegistryTypeOK, ReqTyped, GcTyped, RowTypes
    <2>1. CASE UNCHANGED vars
      BY <2>1 DEF vars, rows, files, ReqTyped, GcTyped, RowTypes
    <2>2. ASSUME NEW c \in Clients, Request(c) PROVE (ReqTyped /\ GcTyped /\ RowTypes)'
      <3>1. GcTyped' BY <2>2, RequestTypes DEF GcTyped
      <3> QED BY <2>2, <3>1, RequestTypes
    <2>3. ASSUME NEW g \in Sweepers, Sweep(g) PROVE (ReqTyped /\ GcTyped /\ RowTypes)'
      BY <2>3, SweepTypes
    <2> QED BY <2>1, <2>2, <2>3, RestTypes DEF Next, OtherTypes
  <1> QED BY <1>1, <1>2, PTL DEF Spec

(* The invariant of the sweeps holds. *)
LEMMA MarksHold ==
  ASSUME Flat
  PROVE  Spec => []MarkInv
  <1> DEFINE AllWalked == \A g \in Sweepers : Walked(gc[g])
  <1>1. Init => AllWalked
    BY DEF Init, Walked, IdleGc
  <1>2. RegistryTypeOK /\ AllWalked /\ [Next]_vars => AllWalked'
    <2> SUFFICES ASSUME RegistryTypeOK, AllWalked, [Next]_vars PROVE AllWalked'
      OBVIOUS
    <2>1. ReqTyped /\ GcTyped /\ RowTypes BY TypesAre
    <2>2. CASE UNCHANGED gc BY <2>2
    <2>3. ASSUME NEW c \in Clients, Request(c) PROVE UNCHANGED gc
      BY <2>1, <2>3, RequestTypes
    <2>4. ASSUME NEW g \in Sweepers, Sweep(g) PROVE \A h \in Sweepers : Walked(gc'[h])
      BY <2>1, <2>4, SweepTypes
    <2>5. CASE gc' = [g \in Sweepers |-> IdleGc] BY <2>5 DEF Walked, IdleGc
    <2> QED BY <2>1, <2>2, <2>3, <2>4, <2>5, RestTypes DEF Next, OtherTypes, vars
  <1> QED BY <1>1, <1>2, RegistryTypes, PTL DEF Spec, MarkInv

(* What a root needs is not doomed. *)
LEMMA Spared ==
  ASSUME Flat, NEW s \in GcType, Walked(s), s.pc = "sweep", NEW m \in s.roots
  PROVE  Needs(m) \cap s.doomed = {}
  <1>1. m \in Manifests /\ Refs[m] \subseteq Blobs BY DEF GcType, Flat
  <1>2. Needs(m) = {m} \cup Refs[m] BY <1>1, RegistryAssumption DEF Needs
  <1>3. m \in s.referenced /\ Refs[m] \subseteq s.referenced /\ s.doomed \cap s.referenced = {}
    BY <1>1 DEF Walked
  <1> QED BY <1>2, <1>3

(* Without indexes a sweep deletes nothing that a manifest recorded when it *)
(* began needs: whatever is pushed, deleted, aged, swept or restarted       *)
(* meanwhile, for any repositories, clients and sweepers.                   *)
THEOREM SweepsSpareImages ==
  ASSUME Flat
  PROVE  Spec => SweepSpares
  <1>1. ASSUME MarkInv, [Next]_vars
        PROVE  [\A g \in Sweepers : gc[g].pc = "sweep" /\ gc'[g].pc = "rows"
                  => \A m \in gc[g].roots : gc'[g].cur \notin Needs(m)]_vars
    <2> SUFFICES ASSUME NEW g \in Sweepers, gc[g].pc = "sweep", gc'[g].pc = "rows",
                        NEW m \in gc[g].roots
                 PROVE  gc'[g].cur \notin Needs(m)
      OBVIOUS
    <2>0. ReqTyped /\ GcTyped /\ RowTypes /\ Walked(gc[g]) BY <1>1, TypesAre DEF MarkInv
    <2>1. CASE UNCHANGED gc BY <2>1
    <2>2. CASE gc' = [h \in Sweepers |-> IdleGc] BY <2>2 DEF IdleGc
    <2>3. ASSUME NEW c \in Clients, Request(c) PROVE UNCHANGED gc
      BY <2>0, <2>3, RequestTypes
    <2>4. ASSUME NEW h \in Sweepers, Sweep(h) PROVE gc'[g].cur \notin Needs(m)
      <3>1. ASSUME NEW s, Marking(h, s), s.pc # "rows" PROVE FALSE
        BY <2>0, <3>1 DEF Marking, GcTyped
      <3>2. IdleGc.pc # "rows" BY DEF IdleGc
      <3>3. ~ GcStart(h) BY <2>0, <3>1, GcStarts
      <3>4. ~ GcMark(h) BY <2>0, <3>1, <3>2, GcMarks
      <3>5. ~ GcList(h) BY <2>0, <3>1, GcLists
      <3>6. ~ GcRows(h) BY <2>0, <3>1, GcDropsRows
      <3>7. ~ GcFinish(h)
        <4>1. GcFinish(h) => Marking(h, IdleGc) BY IdleTyped DEF GcFinish, GcEnd, Marking
        <4> QED BY <4>1, <3>1, <3>2
      <3>8. GcFile(h) BY <2>4, <3>3, <3>4, <3>5, <3>6, <3>7 DEF Sweep
      <3>9. PICK s : Marking(h, s) /\ s.cur \in gc[h].doomed
        BY <2>0, <3>1, <3>2, <3>8, GcFiles
      <3>10. h = g BY <2>0, <3>9 DEF Marking, GcTyped
      <3>11. gc[g] \in GcType BY <2>0 DEF GcTyped
      <3>12. gc'[g] = s BY <2>0, <3>9, <3>10 DEF Marking, GcTyped
      <3> QED BY <2>0, <3>9, <3>10, <3>11, <3>12, Spared
    <2> QED BY <1>1, <2>0, <2>1, <2>2, <2>3, <2>4, RestTypes DEF Next, OtherTypes, vars
  <1> QED BY <1>1, MarksHold, PTL DEF SweepSpares, Spec

(* No sweep runs, and what the store then owes. *)
Calm == \A g \in Sweepers : gc[g].pc = "idle"
Stored ==
  /\ \A b \in brows : b[2] \in disk
  /\ \A p \in mrows : {p[2]} \cup Refs[p[2]] \subseteq disk
  /\ \A r \in Repos : tag[r] # None => <<r, tag[r]>> \in mrows

(* This is what the invariant says in that case. *)
LEMMA CalmStore ==
  ASSUME Calm, ~raced
  PROVE  StoreInv <=> Stored /\ \A c \in Clients : Ready(req[c], disk, mrows)
  BY DEF Calm, StoreInv, Stored, Quiet

(* A race is remembered. *)
LEMMA RacedStays == ASSUME RegistryTypeOK, Next PROVE raced => raced'
  BY DEF Next, start_upload, patch_upload, Request, CommitBegin, commit_single_shot, MountBegin,
         PutCheck, CommitHash, commit_blob, CommitRow, MountRow, put_content, put_manifest, put_tag,
         DeleteReference, delete_manifest, delete_tag, delete_blob, Sweep, GcStart, GcMark, GcList,
         GcFile, GcRows, GcFinish, Age, Reboot, MayRace

(* A request that does not race finds no sweep. *)
LEMMA PushIsCalm ==
  ASSUME RegistryTypeOK, StoreInv, NEW c \in Clients, Request(c), ~raced'
  PROVE  Calm /\ ~raced
  <1>1. ~raced
    BY DEF Request, CommitBegin, commit_single_shot, MountBegin, PutCheck, CommitHash, commit_blob,
           CommitRow, MountRow, put_content, put_manifest, put_tag, MayRace
  <1>2. CASE Sweeping
    <2>1. req[c].pc = "idle" BY <1>1, <1>2 DEF Sweeping, StoreInv, Quiet
    <2> QED BY <1>2, <2>1 DEF Request, CommitBegin, commit_single_shot, MountBegin, PutCheck,
           CommitHash, commit_blob, CommitRow, MountRow, put_content, put_manifest, put_tag, MayRace
  <1> QED BY <1>1, <1>2 DEF Sweeping, Calm

(* No file of a digest and no manifest row goes. *)
Grows ==
  /\ disk \cap Digests \subseteq disk' /\ mrows \subseteq mrows'

(* Then the other requests keep what they rest on. *)
LEMMA OthersReady ==
  ASSUME RegistryTypeOK, NEW c \in Clients, NEW q, req' = [req EXCEPT ![c] = q],
         \A x \in Clients : Ready(req[x], disk, mrows), Grows, Ready(q, disk', mrows')
  PROVE  \A x \in Clients : Ready(req'[x], disk', mrows')
  <1>1. ASSUME NEW x \in Clients, x # c PROVE Ready(req'[x], disk', mrows')
    <2>1. req'[x] = req[x] /\ Ready(req[x], disk, mrows) /\ About(req[x])
      BY <1>1 DEF RegistryTypeOK
    <2>2. PICK y : y = req[x] OBVIOUS
    <2>3. Ready(y, disk, mrows) /\ About(y) BY <2>1, <2>2
    <2>4. Ready(y, disk', mrows') BY <2>3, RegistryAssumption DEF Ready, About, Grows, Digests
    <2> QED BY <2>1, <2>2, <2>4
  <1>2. req'[c] = q BY DEF RegistryTypeOK
  <1> QED BY <1>1, <1>2

(* What a request leaves. *)
Pushed == Stored' /\ \A x \in Clients : Ready(req'[x], disk', mrows')

(* Every step of a request leaves it. *)
LEMMA RequestStore ==
  ASSUME RegistryTypeOK, Stored, \A c \in Clients : Ready(req[c], disk, mrows),
         NEW c \in Clients, Request(c)
  PROVE  Pushed
  <1>0. About(req[c]) /\ Ready(req[c], disk, mrows) /\ req[c] \in ReqType
    BY DEF RegistryTypeOK
  <1>1. ASSUME NEW p, NEW r, NEW d, NEW u, Begin(c, p, r, d, u), UNCHANGED <<brows, mrows, tag, disk>>,
               p = "hash" \/ (p = "mount" /\ d \in disk) \/ (p = "content" /\ Refs[d] \subseteq disk)
        PROVE  Pushed
    <2>1. PICK q : q = [pc |-> p, repo |-> r, dig |-> d, up |-> u] OBVIOUS
    <2>2. Ready(q, disk, mrows) BY <2>1, <1>1 DEF Ready
    <2>3. req' = [req EXCEPT ![c] = q] BY <1>1, <2>1 DEF Begin
    <2>4. Grows /\ Ready(q, disk', mrows') BY <1>1, <2>2 DEF Grows
    <2>5. \A x \in Clients : Ready(req'[x], disk', mrows') BY <2>3, <2>4, OthersReady
    <2> QED BY <1>1, <2>5 DEF Pushed, Stored
  <1>2. ASSUME Done(c), Grows PROVE \A x \in Clients : Ready(req'[x], disk', mrows')
    <2>1. Ready(IdleReq, disk', mrows') BY DEF Ready, IdleReq
    <2> QED BY <1>2, <2>1, OthersReady DEF Done
  <1>3. ASSUME NEW p, Goto(c, p), Grows,
               \/ p = "rename"
               \/ p = "row" /\ req[c].dig \in disk'
               \/ p = "manifest" /\ Refs[req[c].dig] \subseteq disk' /\ req[c].dig \in disk'
               \/ p = "tag" /\ <<req[c].repo, req[c].dig>> \in mrows'
        PROVE  \A x \in Clients : Ready(req'[x], disk', mrows')
    <2>1. PICK q : q = [req[c] EXCEPT !.pc = p] OBVIOUS
    <2>2. q.pc = p /\ q.dig = req[c].dig /\ q.repo = req[c].repo BY <2>1, <1>0 DEF ReqType
    <2>3. Ready(q, disk', mrows') BY <2>2, <1>3 DEF Ready
    <2>4. req' = [req EXCEPT ![c] = q] BY <1>3, <2>1 DEF Goto
    <2> QED BY <1>3, <2>3, <2>4, OthersReady
  <1>4. ASSUME NEW u \in Uploads, NEW d \in Blobs, CommitBegin(c, u, d) PROVE Pushed
    BY <1>1, <1>4 DEF CommitBegin, rows, files
  <1>5. ASSUME NEW u \in Uploads, NEW d \in Blobs, NEW r \in Repos, commit_single_shot(c, r, u, d)
        PROVE  Pushed
    BY <1>1, <1>5 DEF commit_single_shot
  <1>6. ASSUME NEW from \in Repos, NEW to \in Repos, NEW d \in Blobs, MountBegin(c, from, to, d)
        PROVE  Pushed
    BY <1>1, <1>6 DEF MountBegin, rows, files
  <1>7. ASSUME NEW r \in Repos, NEW m \in Manifests, PutCheck(c, r, m) PROVE Pushed
    <2>1. ASSUME NEW d \in Refs[m] PROVE d \in disk
      <3>1. has_blob(r, d) \/ manifest(r, d) BY <1>7 DEF PutCheck, parse_referenced_digests
      <3>2. CASE has_blob(r, d) BY <3>2 DEF has_blob, Stored
      <3>3. CASE manifest(r, d) BY <3>3 DEF manifest, Stored
      <3> QED BY <3>1, <3>2, <3>3
    <2> QED BY <1>1, <1>7, <2>1 DEF PutCheck, rows, files
  <1>8. CASE CommitHash(c)
    <2>1. UNCHANGED <<brows, mrows, tag, disk>> BY <1>8 DEF CommitHash
    <2>2. Stored' /\ Grows BY <2>1 DEF Stored, Grows
    <2> QED BY <1>2, <1>3, <1>8, <2>2 DEF CommitHash, Pushed
  <1>9. CASE commit_blob(c)
    <2>1. UNCHANGED <<brows, mrows, tag>> /\ disk' = disk \cup {req[c].dig} /\ Goto(c, "row")
      BY <1>9 DEF commit_blob, rows
    <2>2. Stored' /\ Grows /\ req[c].dig \in disk' BY <2>1 DEF Stored, Grows
    <2> QED BY <1>3, <2>1, <2>2 DEF Pushed
  <1>10. CASE CommitRow(c)
    <2>1. UNCHANGED <<mrows, tag, disk>> /\ brows' = brows \cup {<<req[c].repo, req[c].dig>>} /\ Done(c)
      BY <1>10 DEF CommitRow, put_blob, files
    <2>2. req[c].dig \in disk BY <1>0, <1>10 DEF CommitRow, Ready
    <2>3. Stored' /\ Grows BY <2>1, <2>2 DEF Stored, Grows
    <2> QED BY <1>2, <2>1, <2>3 DEF Pushed
  <1>11. CASE MountRow(c)
    <2>1. UNCHANGED <<mrows, tag, disk>> /\ brows' = brows \cup {<<req[c].repo, req[c].dig>>} /\ Done(c)
      BY <1>11 DEF MountRow, put_blob, files
    <2>2. req[c].dig \in disk BY <1>0, <1>11 DEF MountRow, Ready
    <2>3. Stored' /\ Grows BY <2>1, <2>2 DEF Stored, Grows
    <2> QED BY <1>2, <2>1, <2>3 DEF Pushed
  <1>12. CASE put_content(c)
    <2>1. /\ UNCHANGED <<brows, mrows, tag>> /\ Goto(c, "manifest")
          /\ disk' = (disk \cup {req[c].dig}) \ {Tmp(req[c].dig)}
      BY <1>12 DEF put_content, rows
    <2>2. req[c].dig \in Manifests /\ Refs[req[c].dig] \subseteq disk
      BY <1>0, <1>12 DEF put_content, Ready, About
    <2>3. Tmp(req[c].dig) \notin Digests
      BY <2>2, RegistryAssumption DEF Tmps
    <2>4. /\ disk \cap Digests \subseteq disk' /\ req[c].dig \in disk'
          /\ Refs[req[c].dig] \subseteq disk'
      BY <2>1, <2>2, <2>3, RegistryAssumption DEF Digests
    <2>5. /\ \A b \in brows : b[2] \in Digests
          /\ \A p \in mrows : {p[2]} \cup Refs[p[2]] \subseteq Digests
      BY RegistryAssumption DEF RegistryTypeOK, Digests
    <2>6. Stored' /\ Grows BY <2>1, <2>4, <2>5 DEF Stored, Grows
    <2> QED BY <1>3, <2>1, <2>4, <2>6 DEF Pushed
  <1>13. CASE put_manifest(c)
    <2>1. /\ UNCHANGED <<brows, disk, tag>> /\ (Goto(c, "tag") \/ Done(c))
          /\ mrows' = mrows \cup {<<req[c].repo, req[c].dig>>}
      BY <1>13 DEF put_manifest, files
    <2>2. req[c].dig \in disk /\ Refs[req[c].dig] \subseteq disk
      BY <1>0, <1>13 DEF put_manifest, Ready
    <2>3. Stored' /\ Grows BY <2>1, <2>2 DEF Stored, Grows
    <2> QED BY <1>2, <1>3, <2>1, <2>3 DEF Pushed
  <1>14. CASE put_tag(c)
    <2>1. /\ UNCHANGED <<brows, mrows, disk>> /\ Done(c)
          /\ tag' = [tag EXCEPT ![req[c].repo] = req[c].dig]
      BY <1>14 DEF put_tag, files
    <2>2. <<req[c].repo, req[c].dig>> \in mrows BY <1>0, <1>14 DEF put_tag, Ready
    <2>3. \A r \in Repos : tag'[r] = IF r = req[c].repo THEN req[c].dig ELSE tag[r]
      BY <2>1 DEF RegistryTypeOK
    <2>4. Stored' /\ Grows BY <2>1, <2>2, <2>3 DEF Stored, Grows
    <2> QED BY <1>2, <2>1, <2>4 DEF Pushed
  <1> QED
    BY <1>4, <1>5, <1>6, <1>7, <1>8, <1>9, <1>10, <1>11, <1>12, <1>13, <1>14 DEF Request

(* A sweep that does not race finds no request. *)
LEMMA SweepIsQuiet ==
  ASSUME RegistryTypeOK, StoreInv, NEW g \in Sweepers, Sweep(g), ~raced'
  PROVE  /\ ~raced /\ \A c \in Clients : req[c].pc = "idle"
         /\ \A h \in Sweepers : gc[h].pc # "idle" => h = g
         /\ gc[g].pc # "idle" => \A p \in mrows : p[2] \in gc[g].roots
  <1>1. ~raced BY DEF Sweep, GcStart, GcMark, GcList, GcFile, GcRows, GcFinish, MayRace
  <1>2. CASE GcStart(g)
    BY <1>1, <1>2 DEF GcStart, MayRace, Sweeping
  <1>3. CASE gc[g].pc # "idle"
    BY <1>1, <1>3 DEF StoreInv, Quiet
  <1>4. GcStart(g) \/ gc[g].pc # "idle"
    BY DEF Sweep, GcMark, GcList, GcFile, GcRows, GcFinish
  <1> QED BY <1>1, <1>2, <1>3, <1>4

(* Sweeps preserve the invariant. *)
LEMMA SweepStore ==
  ASSUME Flat, MarkInv, StoreInv, NEW g \in Sweepers, Sweep(g), ~raced'
  PROVE  StoreInv'
  <1>0. RegistryTypeOK /\ ReqTyped /\ GcTyped /\ RowTypes /\ Walked(gc[g])
    BY TypesAre DEF MarkInv
  <1>1. /\ ~raced /\ \A c \in Clients : req[c].pc = "idle"
        /\ \A h \in Sweepers : gc[h].pc # "idle" => h = g
        /\ gc[g].pc # "idle" => \A p \in mrows : p[2] \in gc[g].roots
    BY <1>0, SweepIsQuiet
  <1>2. req' = req /\ UNCHANGED <<mrows, tag>>
    BY DEF Sweep, GcStart, GcMark, GcList, GcFile, GcRows, GcFinish, rows, files
  <1>3. \A c \in Clients : Ready(req'[c], disk', mrows')
    BY <1>1, <1>2 DEF Ready
  <1>4. \A r \in Repos : tag'[r] # None => <<r, tag'[r]>> \in mrows'
    BY <1>1, <1>2 DEF StoreInv
  <1>5. ASSUME NEW s, Marking(g, s),
               s.pc # "idle" => \A p \in mrows : p[2] \in s.roots
        PROVE  /\ gc'[g] = s /\ \A h \in Sweepers : h # g => gc'[h] = gc[h] /\ gc[h].pc = "idle"
               /\ \A h \in Sweepers : Quiet(h)'
    <2>1. gc'[g] = s /\ \A h \in Sweepers : h # g => gc'[h] = gc[h] BY <1>0, <1>5 DEF Marking, GcTyped
    <2> QED BY <2>1, <1>1, <1>2, <1>5 DEF Quiet
  <1>6. ASSUME NEW s, Marking(g, s), gc[g].pc # "rows", UNCHANGED <<brows, disk>>,
               s.pc # "idle" => \A p \in mrows : p[2] \in s.roots
        PROVE  StoreInv'
    <2>1. \A b \in brows : b[2] \in disk BY <1>1, <1>6 DEF StoreInv
    <2> QED BY <1>1, <1>2, <1>3, <1>4, <1>5, <1>6, <2>1 DEF StoreInv
  <1>7. CASE GcStart(g)
    <2>1. PICK s : Marking(g, s) /\ \A p \in mrows : p[2] \in s.roots BY <1>0, <1>7, GcStarts
    <2> QED BY <1>6, <1>7, <2>1 DEF GcStart, rows, files
  <1>8. CASE GcMark(g)
    <2>1. PICK s : Marking(g, s) /\ (s = IdleGc \/ (s.pc = "mark" /\ s.roots = gc[g].roots))
      BY <1>0, <1>8, GcMarks
    <2>2. gc[g].pc = "mark" /\ UNCHANGED <<brows, disk>> BY <1>8 DEF GcMark, rows, files
    <2>3. s.pc # "idle" => \A p \in mrows : p[2] \in s.roots
      BY <1>1, <2>1, <2>2 DEF IdleGc
    <2> QED BY <1>6, <2>1, <2>2, <2>3
  <1>9. CASE GcList(g)
    <2>1. PICK s : Marking(g, s) /\ s.roots = gc[g].roots BY <1>0, <1>9, GcLists
    <2>2. gc[g].pc = "mark" /\ UNCHANGED <<brows, disk>> BY <1>9 DEF GcList, rows, files
    <2> QED BY <1>1, <1>6, <2>1, <2>2
  <1>10. CASE GcFile(g)
    <2>1. PICK s : /\ Marking(g, s)
                   /\ \/ s = IdleGc /\ UNCHANGED <<disk, bad>>
                      \/ /\ s.pc = "rows" /\ s.roots = gc[g].roots
                         /\ s.cur \in gc[g].doomed \cap Digests
                         /\ disk' = disk \ {s.cur}
                   /\ gc[g].pc = "sweep"
                   /\ UNCHANGED rows
      BY <1>0, <1>10, GcFiles
    <2>2. UNCHANGED brows BY <2>1 DEF rows
    <2>3. CASE s = IdleGc /\ UNCHANGED disk
      BY <2>1, <2>2, <2>3, <1>6 DEF IdleGc
    <2>4. CASE /\ s.pc = "rows" /\ s.roots = gc[g].roots /\ s.cur \in gc[g].doomed
               /\ disk' = disk \ {s.cur}
      <3>1. \A p \in mrows : p[2] \in s.roots BY <1>1, <2>1, <2>4
      <3>2. gc'[g] = s /\ \A h \in Sweepers : Quiet(h)' BY <1>5, <2>1, <3>1
      <3>3. \A b \in brows : b[2] \in disk BY <1>1, <2>1 DEF StoreInv
      <3>4. \A b \in brows : b[2] \in disk' \/ (gc'[g].pc = "rows" /\ gc'[g].cur = b[2])
        BY <2>4, <3>2, <3>3
      <3>5. ASSUME NEW p \in mrows PROVE {p[2]} \cup Refs[p[2]] \subseteq disk'
        <4>1. {p[2]} \cup Refs[p[2]] \subseteq disk BY <1>1 DEF StoreInv
        <4>2. p[2] \in gc[g].roots /\ gc[g] \in GcType BY <1>0, <2>4, <3>1 DEF GcTyped
        <4>3. Needs(p[2]) \cap gc[g].doomed = {} BY <1>0, <2>1, <4>2, Spared
        <4> QED BY <4>1, <4>3, <2>4 DEF Needs
      <3> QED BY <1>2, <1>3, <1>4, <2>2, <3>2, <3>4, <3>5 DEF StoreInv
    <2> QED BY <2>1, <2>3, <2>4
  <1>11. CASE GcRows(g)
    <2>1. PICK s : Marking(g, s) /\ s.roots = gc[g].roots BY <1>0, <1>11, GcDropsRows
    <2>2. /\ gc[g].pc = "rows" /\ brows' = {b \in brows : b[2] # gc[g].cur} /\ UNCHANGED disk
      BY <1>11 DEF GcRows, files
    <2>3. \A h \in Sweepers : Quiet(h)' BY <1>1, <1>5, <2>1, <2>2
    <2>4. \A b \in brows' : b[2] \in disk' BY <1>1, <2>2 DEF StoreInv
    <2> QED BY <1>1, <1>2, <1>3, <1>4, <2>2, <2>3, <2>4 DEF StoreInv
  <1>12. CASE GcFinish(g)
    <2>1. Marking(g, IdleGc) BY <1>12, IdleTyped DEF GcFinish, GcEnd, Marking
    <2>2. IdleGc.pc = "idle" /\ gc[g].pc = "sweep" /\ UNCHANGED <<brows, disk>>
      BY <1>12 DEF IdleGc, GcFinish, rows, files
    <2> QED BY <1>6, <2>1, <2>2
  <1> QED BY <1>7, <1>8, <1>9, <1>10, <1>11, <1>12 DEF Sweep

(* So do the remaining steps. *)
LEMMA RestStore ==
  ASSUME RegistryTypeOK, StoreInv, ~raced', ~raced,
         \/ \E r \in Repos, u \in Uploads : start_upload(r, u)
         \/ \E u \in Uploads : patch_upload(u)
         \/ \E r \in Repos : DeleteReference(r)
         \/ \E r \in Repos, d \in Blobs : delete_blob(r, d)
         \/ \E f \in Digests \cup Tmps \cup Uploads : Age(f)
         \/ Reboot
  PROVE  StoreInv'
  <1>1. ASSUME UNCHANGED <<brows, mrows, tag, disk, req, gc>> PROVE StoreInv'
    BY <1>1 DEF StoreInv, Quiet
  <1>2. ASSUME NEW r \in Repos, NEW m \in Manifests, delete_manifest(r, m) PROVE StoreInv'
    <2>1. /\ mrows' = mrows \ {<<r, m>>} /\ UNCHANGED <<brows, disk, req, gc>>
          /\ tag' = [tag EXCEPT ![r] = IF @ = m THEN None ELSE @]
          /\ ~ \E c \in Clients : req[c].pc = "tag" /\ req[c].repo = r
      BY <1>2 DEF delete_manifest, MayRace, files
    <2>2. \A c \in Clients : Ready(req'[c], disk', mrows') BY <2>1 DEF StoreInv, Ready
    <2>3. \A x \in Repos : tag'[x] = IF x = r /\ tag[x] = m THEN None ELSE tag[x]
      BY <2>1 DEF RegistryTypeOK
    <2>4. \A x \in Repos : tag'[x] # None => <<x, tag'[x]>> \in mrows'
      BY <2>1, <2>3 DEF StoreInv
    <2>5. \A g \in Sweepers : Quiet(g)' BY <2>1 DEF StoreInv, Quiet
    <2> QED BY <2>1, <2>2, <2>4, <2>5 DEF StoreInv
  <1>3. ASSUME NEW r \in Repos, delete_tag(r) PROVE StoreInv'
    <2>1. tag' = [tag EXCEPT ![r] = None] /\ UNCHANGED <<brows, mrows, disk, req, gc>>
      BY <1>3 DEF delete_tag, files
    <2>2. \A x \in Repos : tag'[x] = IF x = r THEN None ELSE tag[x]
      BY <2>1 DEF RegistryTypeOK
    <2>3. \A x \in Repos : tag'[x] # None => <<x, tag'[x]>> \in mrows'
      BY <2>1, <2>2 DEF StoreInv
    <2> QED BY <2>1, <2>3 DEF StoreInv, Quiet
  <1>4. ASSUME NEW r \in Repos, NEW d \in Blobs, delete_blob(r, d) PROVE StoreInv'
    <2>1. brows' \subseteq brows /\ UNCHANGED <<mrows, tag, disk, req, gc>>
      BY <1>4 DEF delete_blob, files
    <2> QED BY <2>1 DEF StoreInv, Quiet
  <1>5. CASE Reboot
    <2>1. /\ UNCHANGED <<brows, mrows, tag>> /\ disk \subseteq disk'
          /\ \A c \in Clients : req'[c] = IdleReq
          /\ \A g \in Sweepers : gc'[g] = IdleGc /\ gc[g].pc # "rows"
      BY <1>5 DEF Reboot, MayRace, rows
    <2>2. Calm' BY <2>1 DEF Calm, IdleGc
    <2>3. Stored' BY <2>1 DEF StoreInv, Stored
    <2>4. \A c \in Clients : Ready(req'[c], disk', mrows') BY <2>1 DEF Ready, IdleReq
    <2> QED BY <2>2, <2>3, <2>4 DEF StoreInv, Stored, Calm, Quiet
  <1> QED
    BY <1>1, <1>2, <1>3, <1>4, <1>5
       DEF start_upload, patch_upload, DeleteReference, Age, rows

(* The invariant holds. *)
LEMMA StoreHolds ==
  ASSUME Flat
  PROVE  Spec => []StoreInv
  <1>1. Init => StoreInv
    BY DEF Init, StoreInv, Quiet, Ready, IdleReq, IdleGc
  <1>2. MarkInv /\ StoreInv /\ [Next]_vars => StoreInv'
    <2> SUFFICES ASSUME MarkInv, StoreInv, [Next]_vars, ~raced' PROVE StoreInv'
      BY DEF StoreInv
    <2>0. RegistryTypeOK BY DEF MarkInv
    <2>1. CASE UNCHANGED vars
      BY <2>1 DEF vars, rows, files, StoreInv, Quiet
    <2>2. ASSUME NEW c \in Clients, Request(c) PROVE StoreInv'
      <3>1. Calm /\ ~raced BY <2>0, <2>2, PushIsCalm
      <3>2. Stored /\ \A x \in Clients : Ready(req[x], disk, mrows) BY <3>1, CalmStore
      <3>3. Pushed BY <2>0, <2>2, <3>2, RequestStore
      <3>4. UNCHANGED gc BY <2>0, <2>2, TypesAre, RequestTypes
      <3> QED BY <3>1, <3>3, <3>4 DEF Calm, Pushed, Stored, StoreInv, Quiet
    <2>3. ASSUME NEW g \in Sweepers, Sweep(g) PROVE StoreInv'
      BY <2>3, SweepStore
    <2>4. CASE Next
      <3>1. ~raced BY <2>0, <2>4, RacedStays
      <3> QED BY <2>0, <2>2, <2>3, <2>4, <3>1, RestStore DEF Next
    <2> QED BY <2>1, <2>4
  <1> QED BY <1>1, <1>2, MarksHold, PTL DEF Spec

(* Without indexes a recorded manifest can be pulled with everything it     *)
(* needs, for any repositories, blobs, clients and sweepers, unless a sweep *)
(* overlapped a push or a crash fell between a file and its rows.           *)
THEOREM ImagesStayPullable ==
  ASSUME Flat
  PROVE  Spec => []Pullable
  <1>1. RegistryTypeOK /\ StoreInv => Pullable
    <2> SUFFICES ASSUME RegistryTypeOK, StoreInv, ~raced, NEW p \in mrows
                 PROVE  Needs(p[2]) \subseteq disk
      BY DEF Pullable
    <2>1. p[2] \in Manifests BY DEF RegistryTypeOK
    <2>2. Refs[p[2]] \subseteq Blobs BY <2>1 DEF Flat
    <2>3. Needs(p[2]) = {p[2]} \cup Refs[p[2]] BY <2>1, <2>2, RegistryAssumption DEF Needs
    <2> QED BY <2>3 DEF StoreInv
  <1> QED BY <1>1, StoreHolds, RegistryTypes, PTL

(* A request that will put a tag finds the manifest's row. *)
Tagging(q) == q.pc = "tag" => <<q.repo, q.dig>> \in mrows
TagInv == ~raced => TagsResolve /\ \A c \in Clients : Tagging(req[c])

(* A tag points at a recorded manifest, unless that was deleted while the   *)
(* tag was being put.                                                       *)
THEOREM TagsAlwaysResolve == Spec => []TagsResolve
  <1>1. Init => TagInv
    BY DEF Init, TagInv, TagsResolve, Tagging, IdleReq
  <1>2. RegistryTypeOK /\ TagInv /\ [Next]_vars => TagInv'
    <2> SUFFICES ASSUME RegistryTypeOK, TagInv, [Next]_vars, ~raced' PROVE TagInv'
      BY DEF TagInv
    <2>1. CASE UNCHANGED <<mrows, tag, req, raced>>
      BY <2>1 DEF TagInv, TagsResolve, Tagging
    <2>2. ASSUME UNCHANGED <<mrows, tag>>, ~raced, \A c \in Clients : req'[c].pc = "tag" => req'[c] = req[c]
          PROVE  TagInv'
      BY <2>2 DEF TagInv, TagsResolve, Tagging
    <2>3. ASSUME NEW c \in Clients, Request(c) PROVE TagInv'
      <3>0. ~raced /\ req \in [Clients -> ReqType]
        BY <2>3 DEF Request, CommitBegin, commit_single_shot, MountBegin, PutCheck, CommitHash,
             commit_blob, CommitRow, MountRow, put_content, put_manifest, put_tag, MayRace,
             RegistryTypeOK
      <3>1. CASE put_manifest(c)
        <4>1. /\ mrows' = mrows \cup {<<req[c].repo, req[c].dig>>} /\ UNCHANGED tag
              /\ Goto(c, "tag") \/ Done(c)
          BY <3>1 DEF put_manifest
        <4>2. ASSUME NEW x \in Clients, req'[x].pc = "tag" PROVE <<req'[x].repo, req'[x].dig>> \in mrows'
          <5>1. CASE x # c
            <6>1. req'[x] = req[x] BY <3>0, <4>1, <5>1 DEF Goto, Done
            <6> QED BY <3>0, <4>1, <4>2, <6>1 DEF TagInv, Tagging
          <5>2. CASE x = c
            <6>1. req'[c].repo = req[c].repo /\ req'[c].dig = req[c].dig
              BY <3>0, <4>1, <4>2, <5>2 DEF Goto, Done, IdleReq, ReqType
            <6> QED BY <4>1, <5>2, <6>1
          <5> QED BY <5>1, <5>2
        <4> QED BY <3>0, <4>1, <4>2 DEF TagInv, TagsResolve, Tagging
      <3>2. CASE put_tag(c)
        <4>1. /\ req[c].pc = "tag" /\ tag' = [tag EXCEPT ![req[c].repo] = req[c].dig] /\ Done(c)
              /\ UNCHANGED mrows
          BY <3>2 DEF put_tag
        <4>2. <<req[c].repo, req[c].dig>> \in mrows BY <3>0, <4>1 DEF TagInv, Tagging
        <4>3. \A r \in Repos : tag'[r] = IF r = req[c].repo THEN req[c].dig ELSE tag[r]
          BY <4>1 DEF RegistryTypeOK
        <4>4. \A r \in Repos : tag'[r] # None => <<r, tag'[r]>> \in mrows'
          BY <3>0, <4>1, <4>2, <4>3 DEF TagInv, TagsResolve
        <4>5. \A x \in Clients : req'[x] = IF x = c THEN IdleReq ELSE req[x]
          BY <3>0, <4>1 DEF Done
        <4> QED BY <3>0, <4>1, <4>4, <4>5 DEF TagInv, TagsResolve, Tagging, IdleReq
      <3>3. CASE ~put_manifest(c) /\ ~put_tag(c)
        <4>1. UNCHANGED <<mrows, tag>>
          BY <2>3, <3>3 DEF Request, CommitBegin, commit_single_shot, MountBegin, PutCheck,
             CommitHash, commit_blob, CommitRow, MountRow, put_content, rows
        <4>2. \/ \E p \in {"hash", "mount", "content"} : \E r, d, u : Begin(c, p, r, d, u)
              \/ \E p \in {"rename", "row", "manifest"} : Goto(c, p)
              \/ Done(c)
          BY <2>3, <3>3 DEF Request, CommitBegin, commit_single_shot, MountBegin, PutCheck,
             CommitHash, commit_blob, CommitRow, MountRow, put_content
        <4>3. \A x \in Clients : req'[x] = req[x] \/ req'[x].pc # "tag"
          BY <3>0, <4>2 DEF Begin, Goto, Done, IdleReq, ReqType
        <4> QED BY <2>2, <3>0, <4>1, <4>3
      <3> QED BY <3>1, <3>2, <3>3
    <2>4. ASSUME NEW r \in Repos, NEW m \in Manifests, delete_manifest(r, m) PROVE TagInv'
      <3>1. /\ mrows' = mrows \ {<<r, m>>} /\ UNCHANGED req /\ ~raced
            /\ tag' = [tag EXCEPT ![r] = IF @ = m THEN None ELSE @]
            /\ ~ \E c \in Clients : req[c].pc = "tag" /\ req[c].repo = r
        BY <2>4 DEF delete_manifest, MayRace
      <3>2. \A x \in Repos : tag'[x] = IF x = r /\ tag[x] = m THEN None ELSE tag[x]
        BY <3>1 DEF RegistryTypeOK
      <3>3. \A x \in Repos : tag'[x] # None => <<x, tag'[x]>> \in mrows'
        BY <3>1, <3>2 DEF TagInv, TagsResolve
      <3> QED BY <3>1, <3>3 DEF TagInv, TagsResolve, Tagging
    <2>5. ASSUME NEW r \in Repos, delete_tag(r) PROVE TagInv'
      <3>1. tag' = [tag EXCEPT ![r] = None] /\ UNCHANGED <<mrows, req, raced>>
        BY <2>5 DEF delete_tag
      <3>2. \A x \in Repos : tag'[x] = IF x = r THEN None ELSE tag[x]
        BY <3>1 DEF RegistryTypeOK
      <3> QED BY <3>1, <3>2 DEF TagInv, TagsResolve, Tagging
    <2>6. ASSUME NEW g \in Sweepers, Sweep(g) PROVE TagInv'
      BY <2>2, <2>6 DEF Sweep, GcStart, GcMark, GcList, GcFile, GcRows, GcFinish, rows, MayRace
    <2>7. CASE Reboot
      BY <2>2, <2>7 DEF Reboot, MayRace, rows, IdleReq
    <2>8. ASSUME NEW u \in Uploads, patch_upload(u) PROVE TagInv'
      BY <2>2, <2>8 DEF patch_upload, MayRace, rows
    <2> QED
      BY <2>1, <2>3, <2>4, <2>5, <2>6, <2>7, <2>8
         DEF Next, vars, rows, DeleteReference, start_upload, delete_blob, Age
  <1>3. TagInv => TagsResolve BY DEF TagInv, TagsResolve
  <1> QED BY <1>1, <1>2, <1>3, RegistryTypes, PTL DEF Spec

(* A session in use was created, has one user, and keeps the digest that    *)
(* was computed.                                                            *)
Opened == \A c \in Clients : req[c].up # None => session[req[c].up] # "new"
Alone == \A c, d \in Clients : c # d /\ req[c].up # None => req[d].up # req[c].up
Summed == \A c \in Clients : req[c].pc = "rename" => hash_upload(req[c].up) = req[c].dig
(* The inductive invariant: unless the store was raced, the content of      *)
(* every file is its digest's.                                              *)
Owned == Opened /\ (~raced => ContentAddressed /\ Alone /\ Summed)

(* Nobody but c uses session u. *)
Uses(c, u) == IF u = None THEN TRUE ELSE \A d \in Clients : d # c => req[d].up # u

(* A request that changes only its own session preserves the invariant. *)
LEMMA OwnedRequest ==
  ASSUME RegistryTypeOK, Owned, NEW c \in Clients, NEW q \in ReqType, About(q),
         req' = [req EXCEPT ![c] = q],
         raced => raced', ~raced' => Uses(c, q.up) /\ bad' = {},
         q.up # None => session'[q.up] # "new",
         \A u \in Uploads : session'[u] = "new" => session[u] = "new",
         ~raced' => \A d \in Clients : d # c /\ req[d].up # None => data'[req[d].up] = data[req[d].up],
         ~raced' /\ q.pc = "rename" => hash_upload(q.up)' = q.dig
  PROVE  Owned'
  <1>1. /\ req'[c] = q /\ \A d \in Clients : d # c => req'[d] = req[d]
        /\ \A d \in Clients : req[d] \in ReqType /\ About(req[d])
    BY DEF RegistryTypeOK
  <1>2. Opened'
    <2> SUFFICES ASSUME NEW d \in Clients, req'[d].up # None PROVE session'[req'[d].up] # "new"
      BY DEF Opened
    <2>1. CASE d = c BY <1>1, <2>1
    <2>2. CASE d # c
      <3>1. req'[d] = req[d] /\ req[d].up \in Uploads BY <1>1, <2>2 DEF ReqType
      <3> QED BY <3>1 DEF Owned, Opened
    <2> QED BY <2>1, <2>2
  <1>3. ASSUME ~raced' PROVE ContentAddressed' /\ Alone' /\ Summed'
    <2>0. Alone /\ Summed BY <1>3 DEF Owned
    <2>1. ContentAddressed' BY <1>3 DEF ContentAddressed
    <2>2. Alone'
      <3> SUFFICES ASSUME NEW x \in Clients, NEW y \in Clients, x # y, req'[x].up # None,
                          req'[x].up = req'[y].up
                   PROVE  FALSE
        BY DEF Alone
      <3>1. Uses(c, q.up) BY <1>3
      <3> QED BY <1>1, <2>0, <3>1 DEF Alone, Uses
    <2>3. Summed'
      <3> SUFFICES ASSUME NEW d \in Clients, req'[d].pc = "rename"
                   PROVE  hash_upload(req[d].up)' = req'[d].dig
        BY DEF Summed
      <3>1. CASE d = c BY <1>1, <1>3, <3>1 DEF hash_upload
      <3>2. CASE d # c
        <4>1. req'[d] = req[d] /\ req[d].up \in Uploads BY <1>1, <3>2 DEF About
        <4>2. req[d].up # None BY <4>1, RegistryAssumption
        <4>3. data'[req[d].up] = data[req[d].up] BY <1>3, <3>2, <4>2
        <4> QED BY <2>0, <4>1, <4>3 DEF Summed, hash_upload
      <3> QED BY <3>1, <3>2
    <2> QED BY <2>1, <2>2, <2>3
  <1> QED BY <1>2, <1>3 DEF Owned

(* Request c becomes q. *)
Moves(c, q) == req' = [req EXCEPT ![c] = q] /\ q \in ReqType /\ About(q)

(* Every step of a request preserves it. *)
LEMMA RequestOwned ==
  ASSUME RegistryTypeOK, Owned, NEW c \in Clients, Request(c)
  PROVE  Owned'
  <1>0. /\ req[c] \in ReqType /\ About(req[c]) /\ IdleReq.up = None /\ IdleReq.pc = "idle"
        /\ req[c].up \in Uploads => req[c].up # None
        /\ \A d \in Clients : req[d].up \in Uploads \cup {None}
        /\ (~raced => bad = {}) /\ raced \in BOOLEAN
    BY RegistryAssumption DEF RegistryTypeOK, IdleReq, Owned, ContentAddressed, ReqType
  <1>1. ASSUME NEW p, NEW r, NEW d, NEW u, Begin(c, p, r, d, u),
               \/ p = "hash" /\ r \in Repos /\ d \in Blobs /\ u \in Uploads
               \/ p = "mount" /\ r \in Repos /\ d \in Blobs /\ u = None
               \/ p = "content" /\ r \in Repos /\ d \in Manifests /\ u = None
        PROVE  \E q : Moves(c, q) /\ q.up = u /\ q.pc # "rename"
    <2>1. PICK q : q = [pc |-> p, repo |-> r, dig |-> d, up |-> u] OBVIOUS
    <2>2. q \in ReqType /\ About(q) /\ q.up = u /\ q.pc # "rename"
      BY <1>1, <2>1 DEF ReqType, ReqPcs, About, Digests
    <2>3. req' = [req EXCEPT ![c] = q] BY <1>1, <2>1 DEF Begin
    <2> QED BY <2>2, <2>3 DEF Moves
  <1>2. ASSUME NEW p, Goto(c, p),
               \/ req[c].pc = "hash" /\ p = "rename"
               \/ req[c].pc = "rename" /\ p = "row"
               \/ req[c].pc = "content" /\ p = "manifest"
               \/ req[c].pc = "manifest" /\ p = "tag"
        PROVE  \E q : Moves(c, q) /\ q.up = req[c].up /\ q.dig = req[c].dig /\ q.pc = p
    <2>1. PICK q : q = [req[c] EXCEPT !.pc = p] OBVIOUS
    <2>2. q \in ReqType /\ About(q) /\ q.up = req[c].up /\ q.dig = req[c].dig /\ q.pc = p
      BY <1>0, <1>2, <2>1 DEF ReqType, ReqPcs, About
    <2>3. req' = [req EXCEPT ![c] = q] BY <1>2, <2>1 DEF Goto
    <2> QED BY <2>2, <2>3 DEF Moves
  <1>3. Done(c) => Moves(c, IdleReq) BY IdleTyped DEF Done, Moves
  <1>4. ~raced => Uses(c, req[c].up)
    BY DEF Owned, Alone, Uses
  <1>5. ASSUME NEW u \in Uploads, NEW d \in Blobs, CommitBegin(c, u, d) PROVE Owned'
    <2>1. /\ Begin(c, "hash", session[u], d, u) /\ UNCHANGED <<session, bad, data>>
          /\ session[u] \in Repos /\ raced' = (raced \/ Sweeping \/ Using(u))
      BY <1>5 DEF CommitBegin, upload, MayRace, rows, files
    <2>2. PICK q : Moves(c, q) /\ q.up = u /\ q.pc # "rename" BY <1>1, <2>1
    <2>3. session'[q.up] # "new" BY <2>1, <2>2, RegistryAssumption
    <2>4. ~raced' => Uses(c, q.up) /\ bad' = {} /\ ~raced BY <1>0, <2>1, <2>2 DEF Using, Uses
    <2> QED BY <2>1, <2>2, <2>3, <2>4, OwnedRequest DEF Moves
  <1>6. ASSUME NEW u \in Uploads, NEW d \in Blobs, NEW r \in Repos, commit_single_shot(c, r, u, d)
        PROVE  Owned'
    <2>1. /\ Begin(c, "hash", r, d, u) /\ UNCHANGED bad /\ (raced => raced')
          /\ session[u] = "new" /\ session' = [session EXCEPT ![u] = r]
          /\ \E x : data' = [data EXCEPT ![u] = x]
      BY <1>6 DEF commit_single_shot, create_upload, stream_to_upload, MayRace
    <2>2. PICK q : Moves(c, q) /\ q.up = u /\ q.pc # "rename" BY <1>1, <2>1
    <2>3. \A x \in Clients : req[x].up # u
      BY <1>0, <2>1, RegistryAssumption DEF Owned, Opened
    <2>4. /\ session'[q.up] # "new"
          /\ \A x \in Uploads : session'[x] = "new" => session[x] = "new"
      BY <2>1, <2>2, RegistryAssumption DEF RegistryTypeOK
    <2>5. ~raced' => Uses(c, q.up) /\ bad' = {} BY <1>0, <2>1, <2>2, <2>3 DEF Uses
    <2>6. \A x \in Clients : req[x].up # None => data'[req[x].up] = data[req[x].up]
      BY <1>0, <2>1, <2>3 DEF RegistryTypeOK
    <2> QED BY <2>1, <2>2, <2>4, <2>5, <2>6, OwnedRequest DEF Moves
  <1>7. ASSUME NEW q, Moves(c, q), q.up = None, UNCHANGED <<session, data>>, bad' \subseteq bad,
               raced => raced'
        PROVE  Owned'
    <2>1. q.pc # "rename" BY <1>7, RegistryAssumption DEF Moves, About
    <2>2. ~raced' => Uses(c, q.up) /\ bad' = {} BY <1>0, <1>7 DEF Uses
    <2> QED BY <1>7, <2>1, <2>2, OwnedRequest DEF Moves
  <1>8. ASSUME NEW from \in Repos, NEW to \in Repos, NEW d \in Blobs, MountBegin(c, from, to, d)
        PROVE  Owned'
    <2>1. PICK q : Moves(c, q) /\ q.up = None BY <1>1, <1>8 DEF MountBegin
    <2> QED BY <1>7, <1>8, <2>1 DEF MountBegin, MayRace, rows, files
  <1>9. ASSUME NEW r \in Repos, NEW m \in Manifests, PutCheck(c, r, m) PROVE Owned'
    <2>1. PICK q : Moves(c, q) /\ q.up = None BY <1>1, <1>9 DEF PutCheck
    <2> QED BY <1>7, <1>9, <2>1 DEF PutCheck, MayRace, rows, files
  <1>10. CASE CommitHash(c)
    <2>0. req[c].up \in Uploads /\ UNCHANGED <<bad, raced>> /\ req[c].pc = "hash"
      BY <1>0, <1>10 DEF CommitHash, About
    <2>1. CASE /\ hash_upload(req[c].up) = req[c].dig /\ Goto(c, "rename")
               /\ UNCHANGED <<data, session>>
      <3>1. PICK q : Moves(c, q) /\ q.up = req[c].up /\ q.dig = req[c].dig /\ q.pc = "rename"
        BY <1>2, <2>0, <2>1
      <3>2. session'[q.up] # "new" BY <1>0, <2>0, <2>1, <3>1 DEF Owned, Opened
      <3>3. hash_upload(q.up)' = q.dig BY <2>1, <3>1 DEF hash_upload
      <3>4. ~raced' => Uses(c, q.up) /\ bad' = {} BY <1>0, <1>4, <2>0, <3>1
      <3> QED BY <2>0, <2>1, <3>1, <3>2, <3>3, <3>4, OwnedRequest DEF Moves
    <2>2. CASE delete_upload(req[c].up) /\ Done(c)
      <3>1. PICK u \in Uploads : u = req[c].up BY <2>0
      <3>2. data' = [data EXCEPT ![u] = "none"] /\ session' = [session EXCEPT ![u] = "gone"]
        BY <2>2, <3>1 DEF delete_upload
      <3>3. \A x \in Uploads : session'[x] = "new" => session[x] = "new"
        BY <3>2 DEF RegistryTypeOK
      <3>4. ~raced' => Uses(c, IdleReq.up) /\ bad' = {} BY <1>0, <2>0 DEF Uses
      <3>5. ~raced' => \A x \in Clients : x # c /\ req[x].up # None => data'[req[x].up] = data[req[x].up]
        BY <1>0, <1>4, <2>0, <3>1, <3>2 DEF Uses, RegistryTypeOK
      <3>6. IdleReq.pc # "rename" BY <1>0
      <3> QED BY <1>0, <1>3, <2>0, <2>2, <3>3, <3>4, <3>5, <3>6, IdleTyped, OwnedRequest DEF Moves
    <2> QED BY <1>10, <2>1, <2>2 DEF CommitHash
  <1>11. CASE commit_blob(c)
    <2>1. PICK u \in Uploads, d \in Blobs : u = req[c].up /\ d = req[c].dig
      BY <1>0, <1>11 DEF commit_blob, About
    <2>2. /\ bad' = IF hash_upload(u) = d THEN bad \ {d} ELSE bad \cup {d}
          /\ data' = [data EXCEPT ![u] = "none"] /\ UNCHANGED <<session, raced>>
          /\ req[c].pc = "rename" /\ Goto(c, "row")
      BY <1>11, <2>1 DEF commit_blob, rows
    <2>3. PICK q : Moves(c, q) /\ q.up = u /\ q.pc = "row" BY <1>2, <2>1, <2>2
    <2>4. ~raced => hash_upload(u) = d BY <2>1, <2>2 DEF Owned, Summed
    <2>5. ~raced' => Uses(c, q.up) /\ bad' = {} BY <1>0, <1>4, <2>1, <2>2, <2>3, <2>4
    <2>6. session'[q.up] # "new" BY <1>0, <2>1, <2>2, <2>3 DEF Owned, Opened
    <2>7. ~raced' => \A x \in Clients : x # c /\ req[x].up # None => data'[req[x].up] = data[req[x].up]
      BY <1>0, <1>4, <2>1, <2>2 DEF Uses, RegistryTypeOK
    <2> QED BY <2>2, <2>3, <2>5, <2>6, <2>7, OwnedRequest DEF Moves
  <1>12. CASE CommitRow(c)
    <2>1. PICK u \in Uploads : u = req[c].up BY <1>0, <1>12 DEF CommitRow, About
    <2>2. session' = [session EXCEPT ![u] = "gone"] /\ Done(c) /\ UNCHANGED <<bad, data, raced>>
      BY <1>12, <2>1 DEF CommitRow, files
    <2>3. \A x \in Uploads : session'[x] = "new" => session[x] = "new"
      BY <2>2 DEF RegistryTypeOK
    <2>4. ~raced' => Uses(c, IdleReq.up) /\ bad' = {} BY <1>0, <2>2 DEF Uses
    <2>5. IdleReq.pc # "rename" BY <1>0
    <2> QED BY <1>0, <1>3, <2>2, <2>3, <2>4, <2>5, IdleTyped, OwnedRequest DEF Moves
  <1>13. CASE MountRow(c)
    BY <1>0, <1>3, <1>7, <1>13 DEF MountRow, files
  <1>14. CASE put_content(c)
    <2>0. req[c].up = None /\ bad' \subseteq bad /\ UNCHANGED <<session, data, raced>>
      BY <1>0, <1>14 DEF put_content, About, rows
    <2>1. PICK q : Moves(c, q) /\ q.up = None BY <1>2, <1>14, <2>0 DEF put_content
    <2> QED BY <1>7, <2>0, <2>1
  <1>15. CASE put_manifest(c)
    <2>0. req[c].up = None /\ UNCHANGED <<bad, session, data, raced>>
      BY <1>0, <1>15 DEF put_manifest, About, files
    <2>1. PICK q : Moves(c, q) /\ q.up = None BY <1>0, <1>2, <1>3, <1>15, <2>0 DEF put_manifest
    <2> QED BY <1>7, <2>0, <2>1
  <1>16. CASE put_tag(c)
    BY <1>0, <1>3, <1>7, <1>16 DEF put_tag, files
  <1> QED
    BY <1>5, <1>6, <1>8, <1>9, <1>10, <1>11, <1>12, <1>13, <1>14, <1>15, <1>16 DEF Request

(* A file under a digest has that digest's content, unless two requests     *)
(* used one upload session at a time: for any number of sessions, clients,  *)
(* sweeps and restarts.                                                     *)
THEOREM ContentStaysAddressed == Spec => []ContentAddressed
  <1>1. Init => Owned
    BY DEF Init, Owned, Opened, Alone, Summed, ContentAddressed, IdleReq
  <1>2. RegistryTypeOK /\ Owned /\ [Next]_vars => Owned'
    <2> SUFFICES ASSUME RegistryTypeOK, Owned, [Next]_vars PROVE Owned'
      OBVIOUS
    <2>0. \A c \in Clients : req[c].up \in Uploads \cup {None} BY DEF RegistryTypeOK, ReqType
    <2>1. ASSUME UNCHANGED <<req, data, session>>, bad' \subseteq bad, raced => raced' PROVE Owned'
      BY <2>1 DEF Owned, Opened, Alone, Summed, ContentAddressed, hash_upload
    <2>2. ASSUME NEW c \in Clients, Request(c) PROVE Owned' BY <2>2, RequestOwned
    <2>3. ASSUME NEW r \in Repos, NEW u \in Uploads, start_upload(r, u) PROVE Owned'
      <3>1. session' = [session EXCEPT ![u] = r] /\ UNCHANGED <<req, data, bad, raced>>
        BY <2>3 DEF start_upload, create_upload
      <3>2. \A x \in Uploads : session'[x] = "new" => session[x] = "new"
        BY <3>1, RegistryAssumption DEF RegistryTypeOK
      <3>3. Opened' BY <2>0, <3>1, <3>2 DEF Owned, Opened
      <3> QED BY <3>1, <3>3 DEF Owned, Alone, Summed, ContentAddressed, hash_upload
    <2>4. ASSUME NEW u \in Uploads, patch_upload(u) PROVE Owned'
      <3>1. PICK x : data' = [data EXCEPT ![u] = x]
        BY <2>4 DEF patch_upload, stream_to_upload
      <3>2. UNCHANGED <<req, session, bad>> /\ raced' = (raced \/ Using(u))
        BY <2>4 DEF patch_upload, MayRace, rows
      <3>3. ~raced' => ~raced /\ \A c \in Clients : req[c].up # u BY <3>2 DEF Using
      <3>4. ASSUME ~raced' PROVE Summed'
        <4> SUFFICES ASSUME NEW c \in Clients, req[c].pc = "rename"
                     PROVE  hash_upload(req[c].up)' = req[c].dig
          BY <3>2 DEF Summed, hash_upload
        <4>1. req[c].up \in Uploads /\ req[c].up # u BY <3>3, <3>4 DEF RegistryTypeOK, About
        <4>2. data'[req[c].up] = data[req[c].up] BY <3>1, <4>1 DEF RegistryTypeOK
        <4>3. hash_upload(req[c].up) = req[c].dig BY <3>3, <3>4 DEF Owned, Summed
        <4> QED BY <3>2, <4>2, <4>3 DEF hash_upload
      <3>5. Opened' /\ (Alone => Alone')
        BY <3>2 DEF Owned, Opened, Alone
      <3>6. ASSUME ~raced' PROVE ContentAddressed' /\ Alone'
        BY <3>2, <3>3, <3>5, <3>6 DEF Owned, ContentAddressed
      <3> QED BY <3>4, <3>5, <3>6 DEF Owned
    <2>5. ASSUME NEW g \in Sweepers, Sweep(g) PROVE Owned'
      <3>1. CASE GcFile(g)
        <4>1. UNCHANGED <<req, data, rows, raced>> /\ bad' \subseteq bad BY <3>1 DEF GcFile
        <4> QED BY <2>1, <4>1 DEF rows
      <3>2. CASE GcRows(g) BY <2>1, <3>2 DEF GcRows, files
      <3>3. CASE GcStart(g) BY <2>1, <3>3 DEF GcStart, MayRace, rows, files
      <3>4. CASE GcMark(g) \/ GcList(g) \/ GcFinish(g)
        <4>1. UNCHANGED <<req, files, rows, raced>> BY <3>4 DEF GcMark, GcList, GcFinish
        <4> QED BY <2>1, <4>1 DEF rows, files
      <3> QED BY <2>5, <3>1, <3>2, <3>3, <3>4 DEF Sweep
    <2>6. CASE Reboot
      <3>1. UNCHANGED bad /\ (raced => raced') /\ \A c \in Clients : req'[c] = IdleReq
        BY <2>6 DEF Reboot, MayRace
      <3> QED BY <3>1 DEF Owned, Opened, Alone, Summed, ContentAddressed, IdleReq
    <2>7. ASSUME NEW r \in Repos, DeleteReference(r) PROVE Owned'
      BY <2>1, <2>7 DEF DeleteReference, delete_manifest, delete_tag, MayRace, files
    <2>8. ASSUME NEW r \in Repos, NEW d \in Blobs, delete_blob(r, d) PROVE Owned'
      BY <2>1, <2>8 DEF delete_blob, files
    <2>9. ASSUME NEW f, Age(f) PROVE Owned'
      BY <2>1, <2>9 DEF Age, rows
    <2>10. CASE UNCHANGED vars
      BY <2>1, <2>10 DEF vars, rows, files
    <2> QED
      BY <2>2, <2>3, <2>4, <2>5, <2>6, <2>7, <2>8, <2>9, <2>10 DEF Next
  <1>3. Owned => ContentAddressed BY DEF Owned, ContentAddressed
  <1> QED BY <1>1, <1>2, <1>3, RegistryTypes, PTL DEF Spec

-----------------------------------------------------------------------------
(* Where a deployment is while it fetches a layer, while it writes a        *)
(* bundle, and all the places it can be.                                    *)
Getting == {"get", "unref", "fetch", "rename"}
WritingAt == {"raze", "razing", "unpack", "install", "spoilt", "own", "layers", "process", "writing"}
Steps == {"idle", "registry", "git", "upload", "reserve", "check", "acquired"} \cup Getting \cup WritingAt
TaskType == [at : Steps, img : Images \cup {NoArtifact}, k : Nat, src : {"registry", "build", NoArtifact}]
Sweeps == [at : {"idle", "lock", "walk"}, keep : SUBSET Layers, old : SUBSET Layers, bare : SUBSET Layers,
           doomed : Layers \cup {NoArtifact}]

(* Types of the layer cache. *)
ArtifactsTypeOK ==
  /\ blob \in [Layers -> {"none", "good", "short", "rot"}]
  /\ reserved \in [Layers -> Nat]
  /\ task \in [Tasks -> TaskType]
  /\ layerGc \in Sweeps
  /\ spoiled \subseteq Layers

(* A deployment x counts its reservations in k: never more than its image   *)
(* has layers, and none before it pulls.                                    *)
TaskOK(x) ==
  /\ x.at # "idle" => x.img \in Images
  /\ x.at \in {"idle", "registry", "git", "upload", "acquired"} => x.k = 0
  /\ x.k # 0 => x.k <= Len(LayersOf[x.img])
  /\ x.at = "reserve" => x.k < Len(LayersOf[x.img])
  /\ x.at \in Getting => x.k > 0
  /\ x.at \in Getting \cup {"registry", "reserve"} => x.src = "registry"

(* The positions of the layers list that deployment x has reserved for      *)
(* layer l (an image may list a layer twice), all such claims of the        *)
(* deployments f, and that the counters r count exactly them.               *)
Seats(x, l) == {k \in 1 .. x.k : x.src = "registry" /\ LayersOf[x.img][k] = l}
Claims(f, l) == {p \in Tasks \X Nat : p[2] \in Seats(f[p[1]], l)}
Counted(f, r) == \A l \in Layers : IsFiniteSet(Claims(f, l)) /\ Cardinality(Claims(f, l)) = r[l]
(* The layers that deployment x has reserved and seen in the cache. *)
Got(x) == {LayersOf[x.img][j] : j \in 1 .. (IF x.at \in Getting THEN x.k - 1 ELSE x.k)}

(* The inductive invariant of the cache: the counters are the claims, the   *)
(* collector has doomed only a layer nobody has reserved, and a layer that  *)
(* a pull has got stays unless its file was damaged.                        *)
CacheInv ==
  /\ ArtifactsTypeOK
  /\ \A t \in Tasks : TaskOK(task[t])
  /\ layerGc.doomed # NoArtifact => layerGc.at = "walk" /\ reserved[layerGc.doomed] = 0
  /\ Counted(task, reserved)
  /\ \A l \in Layers : blob[l] \in {"short", "rot"} => l \in spoiled
  /\ \A t \in Tasks : task[t].src = "registry" /\ task[t].at \in Getting \cup {"reserve", "check", "raze", "razing", "unpack"} =>
       \A l \in Got(task[t]) \ Exempt : blob[l] # "none"


(* The reservations of the model are those positions. *)
LEMMA SeatsAre ==
  ASSUME NEW t, NEW l
  PROVE  Reservations(t, l) = Seats(task[t], l)
  BY DEF Reservations, Seats

(* Counters stay right when no claim changes. *)
LEMMA SameSeats ==
  ASSUME NEW f, NEW g, NEW r, Counted(f, r),
         \A t \in Tasks : \A l \in Layers : Seats(g[t], l) = Seats(f[t], l)
  PROVE  Counted(g, r)
<1>1. \A l \in Layers : Claims(g, l) = Claims(f, l) BY DEF Claims
<1> QED BY <1>1 DEF Counted

(* One claim more is one more to count. *)
LEMMA AddSeat ==
  ASSUME NEW f \in [Tasks -> TaskType], NEW t \in Tasks, NEW g,
         \A s \in Tasks \ {t} : g[s] = f[s], NEW l, NEW n \in Nat,
         Seats(g[t], l) = Seats(f[t], l) \cup {n}, n \notin Seats(f[t], l),
         IsFiniteSet(Claims(f, l))
  PROVE  /\ IsFiniteSet(Claims(g, l))
         /\ Cardinality(Claims(g, l)) = Cardinality(Claims(f, l)) + 1
<1>2. <<t, n>> \notin Claims(f, l) BY DEF Claims
<1>3. Claims(g, l) = Claims(f, l) \cup {<<t, n>>}
  <2>1. ASSUME NEW p \in Claims(g, l) PROVE p \in Claims(f, l) \cup {<<t, n>>}
    <3>1. PICK s \in Tasks, k \in Nat : p = <<s, k>> /\ k \in Seats(g[s], l) BY <2>1 DEF Claims
    <3> QED BY <3>1 DEF Claims
  <2>2. ASSUME NEW p \in Claims(f, l) PROVE p \in Claims(g, l)
    <3>1. PICK s \in Tasks, k \in Nat : p = <<s, k>> /\ k \in Seats(f[s], l) BY <2>2 DEF Claims
    <3> QED BY <3>1 DEF Claims
  <2>3. <<t, n>> \in Claims(g, l) BY DEF Claims
  <2> QED BY <2>1, <2>2, <2>3
<1>4. \A S : IsFiniteSet(S) /\ <<t, n>> \notin S => IsFiniteSet(S \cup {<<t, n>>}) /\ Cardinality(S \cup {<<t, n>>}) = Cardinality(S) + 1
  BY FS_AddElement
<1> QED BY <1>2, <1>3, <1>4

(* A deployment that lets go of its claims takes away as many as it had. *)
LEMMA DropSeats ==
  ASSUME NEW f \in [Tasks -> TaskType], NEW t \in Tasks, NEW g,
         \A s \in Tasks \ {t} : g[s] = f[s], NEW l, Seats(g[t], l) = {},
         IsFiniteSet(Claims(f, l))
  PROVE  /\ IsFiniteSet(Claims(g, l))
         /\ Cardinality(Claims(g, l)) = Cardinality(Claims(f, l)) - Cardinality(Seats(f[t], l))
<1> DEFINE R == Seats(f[t], l)
           D == {p \in Claims(f, l) : p[1] = t}
<1>0. R \subseteq Nat BY DEF Seats, TaskType
<1>2. Claims(g, l) = Claims(f, l) \ D
  <2>1. ASSUME NEW p \in Claims(g, l) PROVE p \in Claims(f, l) \ D
    <3>1. PICK s \in Tasks, k \in Nat : p = <<s, k>> /\ k \in Seats(g[s], l) BY <2>1 DEF Claims
    <3> QED BY <3>1 DEF Claims
  <2>2. ASSUME NEW p \in Claims(f, l) \ D PROVE p \in Claims(g, l)
    <3>1. PICK s \in Tasks, k \in Nat : p = <<s, k>> /\ k \in Seats(f[s], l) BY <2>2 DEF Claims
    <3>2. s # t BY <3>1, <2>2
    <3> QED BY <3>1, <3>2 DEF Claims
  <2> QED BY <2>1, <2>2
<1>3. IsFiniteSet(D) /\ D \subseteq Claims(f, l) BY FS_Subset
<1>4. ExistsBijection(D, R)
  <2> DEFINE h == [p \in D |-> p[2]]
  <2>1. \A k \in R : <<t, k>> \in D BY <1>0 DEF Claims
  <2>2. \A p \in D : \E k \in R : p = <<t, k>> BY DEF Claims
  <2> HIDE DEF D, R
  <2>3. h \in [D -> R] BY <2>2
  <2>4. ASSUME NEW p \in D, NEW q \in D, h[p] = h[q] PROVE p = q BY <2>4, <2>2
  <2>5. ASSUME NEW k \in R PROVE \E p \in D : h[p] = k BY <2>1, <2>5
  <2>6. h \in Bijection(D, R) BY <2>3, <2>4, <2>5 DEF Bijection, Injection, Surjection, IsInjective
  <2> QED BY <2>6 DEF ExistsBijection
<1>5. Cardinality(R) = Cardinality(D) BY <1>3, <1>4, FS_Bijection
<1>6. IsFiniteSet(Claims(f, l) \ D) /\ Cardinality(Claims(f, l) \ D) = Cardinality(Claims(f, l)) - Cardinality(Claims(f, l) \cap D)
  BY FS_Difference
<1>7. Claims(f, l) \cap D = D OBVIOUS
<1> QED BY <1>2, <1>5, <1>6, <1>7

(* The facts the counting needs, each under a name of its own. *)
Others(f, g, t) == \A s \in Tasks \ {t} : g[s] = f[s]
Unseated(x) == \A l : Seats(x, l) = {}
Counts(r) == r \in [Layers -> Nat]
Tasking(f) == f \in [Tasks -> TaskType]
NoneNew(r, q) == \A l \in Layers : r[l] = 0 => q[l] = 0
Freed(q, r, x) == q = [l \in Layers |-> r[l] - Cardinality(Seats(x, l))]

(* release_now leaves counters that are right again. *)
LEMMA Release ==
  ASSUME NEW f, Tasking(f), NEW t \in Tasks, NEW g, Others(f, g, t), Unseated(g[t]), NEW r,
         Counts(r), Counted(f, r), NEW q, Freed(q, r, f[t])
  PROVE  Counts(q) /\ Counted(g, q) /\ NoneNew(r, q)
<1> USE DEF Tasking, Counts, NoneNew
<1>1. ASSUME NEW l \in Layers
      PROVE  q[l] \in Nat /\ IsFiniteSet(Claims(g, l)) /\ Cardinality(Claims(g, l)) = q[l] /\ (r[l] = 0 => q[l] = 0)
  <2>1. IsFiniteSet(Claims(f, l)) /\ Cardinality(Claims(f, l)) = r[l] BY DEF Counted
  <2>2. Seats(g[t], l) = {} /\ \A s \in Tasks \ {t} : g[s] = f[s] BY DEF Unseated, Others
  <2>3. IsFiniteSet(Claims(g, l)) /\ Cardinality(Claims(g, l)) = Cardinality(Claims(f, l)) - Cardinality(Seats(f[t], l))
    BY <2>1, <2>2, DropSeats
  <2>4. Cardinality(Claims(g, l)) \in Nat BY <2>3, FS_CardinalityType
  <2>5. IsFiniteSet(Seats(f[t], l)) /\ Cardinality(Seats(f[t], l)) \in Nat
    <3>1. f[t].k \in Nat BY DEF TaskType
    <3>2. IsFiniteSet(1 .. f[t].k) BY <3>1, FS_Interval
    <3>3. IsFiniteSet(Seats(f[t], l)) BY <3>2, FS_Subset DEF Seats
    <3> QED BY <3>3, FS_CardinalityType
  <2> QED BY <2>1, <2>3, <2>4, <2>5 DEF Freed
<1>2. q = [l \in Layers |-> q[l]] BY DEF Freed
<1>3. q \in [Layers -> Nat] BY <1>1, <1>2
<1> QED BY <1>1, <1>3 DEF Counted

(* The claim on layer l that makes x into y, and its effect on the          *)
(* counters.                                                                *)
Seated(x, y, l, n) ==
  /\ n \in Nat /\ n \notin Seats(x, l) /\ Seats(y, l) = Seats(x, l) \cup {n}
  /\ \A c \in Layers \ {l} : Seats(y, c) = Seats(x, c)
Taken(q, r, l) == q = [r EXCEPT ![l] = r[l] + 1]

(* The next reservation of a pull is such a claim. *)
LEMMA TakesSeat ==
  ASSUME NEW x, NEW y, x.k \in Nat, y.k = x.k + 1, y.img = x.img, x.src = "registry",
         y.src = "registry"
  PROVE  Seated(x, y, LayersOf[x.img][x.k + 1], x.k + 1)
<1>1. PICK n \in Nat : n = x.k OBVIOUS
<1>2. PICK a : a = LayersOf[x.img] OBVIOUS
<1>3. \A c : Seats(x, c) = {k \in 1 .. n : a[k] = c} BY <1>1, <1>2 DEF Seats
<1>4. \A c : Seats(y, c) = {k \in 1 .. (n + 1) : a[k] = c} BY <1>1, <1>2 DEF Seats
<1>5. n + 1 \notin Seats(x, a[n + 1]) BY <1>3
<1>6. Seats(y, a[n + 1]) = Seats(x, a[n + 1]) \cup {n + 1} BY <1>3, <1>4
<1>7. ASSUME NEW c \in Layers \ {a[n + 1]} PROVE Seats(y, c) = Seats(x, c)
  <2>1. ASSUME NEW k \in 1 .. (n + 1), a[k] = c PROVE k \in 1 .. n
    <3>1. k # n + 1 BY <2>1
    <3> QED BY <3>1
  <2>2. ASSUME NEW k \in 1 .. n PROVE k \in 1 .. (n + 1) OBVIOUS
  <2> QED BY <1>3, <1>4, <2>1, <2>2
<1>8. Seated(x, y, a[n + 1], n + 1) BY <1>5, <1>6, <1>7 DEF Seated
<1> QED BY <1>1, <1>2, <1>8

(* reserve leaves counters that are right again. *)
LEMMA Reserving ==
  ASSUME NEW f, Tasking(f), NEW t \in Tasks, NEW g, Others(f, g, t), NEW l \in Layers, NEW n,
         Seated(f[t], g[t], l, n), NEW r, Counts(r), Counted(f, r), NEW q, Taken(q, r, l)
  PROVE  Counts(q) /\ Counted(g, q)
<1>1. f \in [Tasks -> TaskType] /\ r \in [Layers -> Nat] /\ n \in Nat /\ \A s \in Tasks \ {t} : g[s] = f[s]
  BY DEF Tasking, Counts, Others, Seated
<1>2. q = [l1 \in Layers |-> IF l1 = l THEN r[l] + 1 ELSE r[l1]] BY <1>1 DEF Taken
<1>3. IsFiniteSet(Claims(f, l)) /\ Cardinality(Claims(f, l)) = r[l] BY DEF Counted
<1>4. n \notin Seats(f[t], l) /\ Seats(g[t], l) = Seats(f[t], l) \cup {n} BY DEF Seated
<1>5. IsFiniteSet(Claims(g, l)) /\ Cardinality(Claims(g, l)) = Cardinality(Claims(f, l)) + 1
  BY <1>1, <1>3, <1>4, AddSeat
<1>6. ASSUME NEW c \in Layers \ {l} PROVE Claims(g, c) = Claims(f, c)
  <2>1. \A s \in Tasks : Seats(g[s], c) = Seats(f[s], c) BY <1>1 DEF Seated
  <2> QED BY <2>1 DEF Claims
<1>7. Counted(g, q) BY <1>2, <1>3, <1>5, <1>6 DEF Counted
<1> QED BY <1>1, <1>2, <1>7 DEF Counts

(* What an image lists is a layer ... *)
LEMMA LayerIn ==
  ASSUME ArtifactsAssumption, NEW i \in Images, NEW k \in 1 .. Len(LayersOf[i])
  PROVE  LayersOf[i][k] \in Layers
  BY DEF ArtifactsAssumption

(* ... and it lists at least one. *)
LEMMA ImageLen ==
  ASSUME ArtifactsAssumption, NEW i \in Images
  PROVE  Len(LayersOf[i]) \in Nat \ {0} /\ LayersOf[i] \in Seq(Layers)
  BY DEF ArtifactsAssumption

(* A permit nobody holds is well typed and has no claim. *)
LEMMA NoTaskOK ==
  /\ NoTask \in TaskType /\ TaskOK(NoTask) /\ NoTask.k = 0 /\ NoTask.at = "idle"
  /\ \A l : Seats(NoTask, l) = {}
  BY DEF NoTask, TaskType, Steps, TaskOK, Getting, Seats

(* Who is exempt changes with a damaged file only. *)
LEMMA ExemptKept ==
  /\ UNCHANGED spoiled => Exempt' = Exempt
  /\ spoiled \subseteq Exempt
  BY DEF Exempt, Disputed

(* A deployment's step preserves the invariant if the counters stay right,  *)
(* the collector's choice stays free and no sound blob goes.                *)
LEMMA CacheStep ==
  ASSUME CacheInv, NEW t \in Tasks, NEW x \in TaskType, TaskOK(x), task' = [task EXCEPT ![t] = x],
         reserved' \in [Layers -> Nat], Counted(task', reserved'),
         UNCHANGED <<layerGc, spoiled>>, layerGc.doomed # NoArtifact => reserved'[layerGc.doomed] = 0,
         blob' \in [Layers -> {"none", "good", "short", "rot"}],
         \A l \in Layers : blob'[l] \in {"short", "rot"} => l \in spoiled,
         \A l \in Layers \ Exempt : blob[l] # "none" => blob'[l] # "none",
         x.src = "registry" /\ x.at \in Getting \cup {"reserve", "check", "raze", "razing", "unpack"} =>
           \A l \in Got(x) \ Exempt : blob'[l] # "none",
         ArtifactsAssumption
  PROVE  CacheInv'
<1>1. task' \in [Tasks -> TaskType] /\ task'[t] = x /\ \A s \in Tasks \ {t} : task'[s] = task[s]
  BY DEF CacheInv, ArtifactsTypeOK
<1>2. ArtifactsTypeOK' BY <1>1 DEF CacheInv, ArtifactsTypeOK
<1>3. \A s \in Tasks : TaskOK(task'[s]) BY <1>1 DEF CacheInv
<1>e. Exempt' = Exempt BY ExemptKept
<1>4. ASSUME NEW s \in Tasks, task'[s].src = "registry", task'[s].at \in Getting \cup {"reserve", "check", "raze", "razing", "unpack"},
             NEW l \in Got(task'[s]) \ Exempt
      PROVE  blob'[l] # "none"
  <2>1. CASE s = t BY <2>1, <1>1, <1>4
  <2>2. CASE s # t
    <3>1. task'[s] = task[s] BY <1>1, <2>2
    <3>2. blob[l] # "none" BY <3>1, <1>4 DEF CacheInv
    <3>3. l \in Layers
      <4>1. task[s] \in TaskType /\ TaskOK(task[s]) BY DEF CacheInv, ArtifactsTypeOK
      <4>2. task[s].img \in Images /\ (task[s].k <= Len(LayersOf[task[s].img]) \/ task[s].k = 0)
        BY <3>1, <1>4, <4>1 DEF TaskOK, Getting
      <4>3. PICK j \in 1 .. (IF task[s].at \in Getting THEN task[s].k - 1 ELSE task[s].k) : l = LayersOf[task[s].img][j]
        BY <3>1, <1>4 DEF Got
      <4>4. task[s].img \in Images /\ j \in 1 .. Len(LayersOf[task[s].img])
        BY <4>1, <4>2, <4>3, ImageLen DEF TaskType, TaskOK
      <4> QED BY <4>3, <4>4, LayerIn
    <3> QED BY <3>2, <3>3
  <2> QED BY <2>1, <2>2
<1> QED BY <1>2, <1>3, <1>4, <1>e DEF CacheInv

(* A deployment that only moves on keeps its claims ... *)
LEMMA Moved ==
  ASSUME CacheInv, NEW t \in Tasks, NEW w \in Steps, MoveTo(t, w), UNCHANGED reserved
  PROVE  \E x \in TaskType : /\ task' = [task EXCEPT ![t] = x] /\ Counted(task', reserved')
                             /\ x.at = w /\ x.img = task[t].img /\ x.k = task[t].k /\ x.src = task[t].src
<1> DEFINE x == [task[t] EXCEPT !.at = w]
<1>1. task \in [Tasks -> TaskType] /\ task[t] \in TaskType BY DEF CacheInv, ArtifactsTypeOK
<1>2. x \in TaskType /\ x.at = w /\ x.img = task[t].img /\ x.k = task[t].k /\ x.src = task[t].src
  BY <1>1 DEF TaskType
<1>3. task' = [task EXCEPT ![t] = x] BY DEF MoveTo
<1> HIDE DEF x
<1>4. \A l : Seats(x, l) = Seats(task[t], l) BY <1>2 DEF Seats
<1>5. \A s \in Tasks : \A l \in Layers : Seats(task'[s], l) = Seats(task[s], l) BY <1>1, <1>3, <1>4
<1>6. Counted(task', reserved') BY <1>5, SameSeats DEF CacheInv
<1> QED BY <1>2, <1>3, <1>6

(* ... and preserves the invariant, if the layers it must have got are      *)
(* there.                                                                   *)
LEMMA MoveStep ==
  ASSUME CacheInv, NEW t \in Tasks, NEW w \in Steps \ {"idle", "registry", "git", "upload", "acquired"}, MoveTo(t, w),
         task[t].at # "idle", UNCHANGED <<reserved, layerGc, spoiled>>,
         w = "reserve" => task[t].k < Len(LayersOf[task[t].img]), w \in Getting => task[t].k > 0,
         w \in Getting \cup {"reserve"} => task[t].at \in Getting,
         blob' \in [Layers -> {"none", "good", "short", "rot"}],
         \A l \in Layers : blob'[l] \in {"short", "rot"} => l \in spoiled,
         \A l \in Layers \ Exempt : blob[l] # "none" => blob'[l] # "none",
         \/ task[t].src # "registry" \/ w \notin Getting \cup {"reserve", "check", "raze", "razing", "unpack"}
         \/ /\ UNCHANGED blob /\ (task[t].at \in Getting <=> w \in Getting)
            /\ task[t].at \in Getting \cup {"reserve", "check", "raze", "razing", "unpack"}
         \/ w \notin Getting /\ task[t].at \in Getting /\ blob'[LayersOf[task[t].img][task[t].k]] # "none"
         \/ w \in Getting /\ task[t].at \in Getting,
         ArtifactsAssumption
  PROVE  CacheInv'
<1>0. task[t] \in TaskType /\ TaskOK(task[t]) BY DEF CacheInv, ArtifactsTypeOK
<1>1. PICK x \in TaskType : /\ task' = [task EXCEPT ![t] = x] /\ Counted(task', reserved')
                            /\ x.at = w /\ x.img = task[t].img /\ x.k = task[t].k /\ x.src = task[t].src
  BY Moved
<1>2. TaskOK(x) BY <1>0, <1>1 DEF TaskOK
<1>3. layerGc.doomed # NoArtifact => reserved'[layerGc.doomed] = 0 BY DEF CacheInv
<1>4. reserved' \in [Layers -> Nat] BY DEF CacheInv, ArtifactsTypeOK
<1>5. task[t].img \in Images /\ task[t].k \in Nat /\ task[t].k <= Len(LayersOf[task[t].img])
  BY <1>0, ImageLen DEF TaskOK, TaskType
<1>6. ASSUME x.src = "registry", x.at \in Getting \cup {"reserve", "check", "raze", "razing", "unpack"}, NEW l \in Got(x) \ Exempt
      PROVE  blob'[l] # "none"
  <2>1. PICK j \in 1 .. (IF w \in Getting THEN task[t].k - 1 ELSE task[t].k) : l = LayersOf[task[t].img][j]
    BY <1>1, <1>6 DEF Got
  <2>2. j \in 1 .. task[t].k /\ l \in Layers BY <1>5, <2>1, ImageLen, LayerIn
  <2>3. task[t].at \in Getting \cup {"reserve", "check", "raze", "razing", "unpack"} BY <1>1, <1>6
  <2>4. l \in Got(task[t]) => blob[l] # "none" BY <1>1, <1>6, <2>3 DEF CacheInv
  <2>5. l \in Got(task[t]) \/ (l = LayersOf[task[t].img][task[t].k] /\ w \notin Getting /\ task[t].at \in Getting)
    <3>1. CASE j \in 1 .. (IF task[t].at \in Getting THEN task[t].k - 1 ELSE task[t].k)
      BY <3>1, <2>1 DEF Got
    <3>2. CASE j \notin 1 .. (IF task[t].at \in Getting THEN task[t].k - 1 ELSE task[t].k)
      <4>1. task[t].at \in Getting /\ j = task[t].k BY <3>2, <2>2, <1>5
      <4>2. w \notin Getting BY <4>1, <2>1, <1>5
      <4> QED BY <4>1, <4>2, <2>1
    <3> QED BY <3>1, <3>2
  <2> QED BY <2>2, <2>4, <2>5, <1>1, <1>6
<1> QED BY <1>1, <1>2, <1>3, <1>4, <1>6, CacheStep

(* So does one that ends and releases its claims. *)
LEMMA FinishStep ==
  ASSUME CacheInv, NEW t \in Tasks, Finish(t), ArtifactsAssumption
  PROVE  CacheInv'
<1>0. task \in [Tasks -> TaskType] /\ reserved \in [Layers -> Nat] /\ Counted(task, reserved)
  BY DEF CacheInv, ArtifactsTypeOK
<1>1. task' = [task EXCEPT ![t] = NoTask] BY DEF Finish
<1>f. Freed(reserved', reserved, task[t]) BY SeatsAre DEF Finish, release_now, Freed
<1>2. UNCHANGED <<layerGc, spoiled, blob>> BY DEF Finish, history
<1>3. Unseated(task'[t]) /\ Others(task, task', t) BY <1>0, <1>1, NoTaskOK DEF Unseated, Others
<1>4. reserved' \in [Layers -> Nat] /\ Counted(task', reserved') /\ \A l \in Layers : reserved[l] = 0 => reserved'[l] = 0
  <2>1. Tasking(task) /\ Counts(reserved) /\ Counted(task, reserved) BY <1>0 DEF Tasking, Counts
  <2>2. Counts(reserved') /\ Counted(task', reserved') /\ NoneNew(reserved, reserved')
    BY <1>f, <1>3, <2>1, Release
  <2> QED BY <2>2 DEF Counts, NoneNew
<1>6. layerGc.doomed # NoArtifact => reserved'[layerGc.doomed] = 0
  BY <1>4 DEF CacheInv, ArtifactsTypeOK, Sweeps
<1>7. NoTask.at \notin Getting \cup {"reserve", "check", "raze", "razing", "unpack"} BY NoTaskOK DEF Getting
<1> QED BY <1>1, <1>2, <1>4, <1>6, <1>7, NoTaskOK, CacheStep DEF CacheInv, ArtifactsTypeOK

(* The layer that a pull has in hand is one of its image's. *)
LEMMA InHand ==
  ASSUME CacheInv, NEW t \in Tasks, task[t].at \in Getting, ArtifactsAssumption
  PROVE  /\ task[t].img \in Images /\ task[t].k \in 1 .. Len(LayersOf[task[t].img])
         /\ Layer(t) = LayersOf[task[t].img][task[t].k] /\ Layer(t) \in Layers
<1>1. task[t] \in TaskType /\ TaskOK(task[t]) BY DEF CacheInv, ArtifactsTypeOK
<1>2. task[t].img \in Images BY <1>1 DEF TaskOK, Getting
<1>3. task[t].k \in 1 .. Len(LayersOf[task[t].img]) BY <1>1, <1>2, ImageLen DEF TaskOK, TaskType
<1> QED BY <1>2, <1>3, LayerIn DEF Layer

(* reserve. *)
LEMMA ReserveStep ==
  ASSUME CacheInv, NEW t \in Tasks, reserve(t), ArtifactsAssumption
  PROVE  CacheInv'
<1> DEFINE i == task[t].img
           n == task[t].k + 1
           l == LayersOf[i][n]
           x == [task[t] EXCEPT !.at = "get", !.k = task[t].k + 1]
<1>0. task \in [Tasks -> TaskType] /\ reserved \in [Layers -> Nat] /\ Counted(task, reserved)
  BY DEF CacheInv, ArtifactsTypeOK
<1>1. task[t] \in TaskType /\ TaskOK(task[t]) /\ task[t].at = "reserve"
  BY <1>0 DEF CacheInv, reserve, At
<1>2. i \in Images /\ task[t].k \in Nat /\ n \in 1 .. Len(LayersOf[i])
  BY <1>1, ImageLen DEF TaskOK, TaskType
<1>3. l \in Layers BY <1>2, LayerIn
<1>4. x \in TaskType /\ x.at = "get" /\ x.img = i /\ x.k = n /\ x.src = task[t].src
  <2>1. PICK m \in Nat : m = n BY <1>2
  <2>2. x = [task[t] EXCEPT !.at = "get", !.k = m] BY <2>1
  <2>3. "get" \in Steps BY DEF Steps, Getting
  <2> HIDE DEF x
  <2> QED BY <1>1, <2>1, <2>2, <2>3 DEF TaskType
<1>5. task' = [task EXCEPT ![t] = x] BY <1>1 DEF reserve
<1>6. reserved' = [reserved EXCEPT ![l] = reserved[l] + 1] BY DEF reserve
<1>7. UNCHANGED <<layerGc, spoiled, blob>> BY DEF reserve, history
<1> HIDE DEF x
<1>8. TaskOK(x) BY <1>1, <1>2, <1>4 DEF TaskOK, Getting
<1>9. ASSUME x.src = "registry", NEW d \in Got(x) \ Exempt PROVE blob'[d] # "none"
  <2>1. PICK j \in 1 .. (x.k - 1) : d = LayersOf[i][j] BY <1>4, <1>9 DEF Got, Getting
  <2>2. j \in 1 .. task[t].k BY <2>1, <1>2, <1>4
  <2>3. d \in Got(task[t]) BY <1>1, <2>1, <2>2 DEF Got, Getting
  <2>4. task[t].src = "registry" BY <1>4, <1>9
  <2> QED BY <2>3, <2>4, <1>1, <1>7, <1>9 DEF CacheInv
<1>10. layerGc.doomed # NoArtifact => reserved'[layerGc.doomed] = 0 BY DEF CacheInv, reserve
<1>11. task' \in [Tasks -> TaskType] /\ task'[t] = x /\ \A s \in Tasks \ {t} : task'[s] = task[s]
  BY <1>0, <1>4, <1>5
<1>12. Counts(reserved') /\ Counted(task', reserved')
  <2>1. PICK d \in Layers, m \in Nat : d = l /\ m = n BY <1>2, <1>3
  <2>2. Seated(task[t], task'[t], d, m)
    <3>1. task[t].src = "registry" BY <1>1 DEF TaskOK
    <3>2. PICK x0, y0 : x0 = task[t] /\ y0 = task'[t] OBVIOUS
    <3>3. x0.k \in Nat /\ y0.k = x0.k + 1 /\ y0.img = x0.img /\ x0.src = "registry" /\ y0.src = "registry"
      BY <3>1, <3>2, <1>2, <1>4, <1>11
    <3>4. Seated(x0, y0, LayersOf[x0.img][x0.k + 1], x0.k + 1) BY <3>3, TakesSeat
    <3> QED BY <3>2, <3>4, <2>1
  <2>3. Tasking(task) /\ Counts(reserved) /\ Others(task, task', t)
    BY <1>0, <1>11 DEF Tasking, Counts, Others
  <2>4. Taken(reserved', reserved, d) BY <1>6, <2>1 DEF Taken
  <2>5. Counted(task, reserved) BY <1>0
  <2> QED BY <2>2, <2>3, <2>4, <2>5, Reserving
<1> QED
  BY <1>4, <1>5, <1>7, <1>8, <1>9, <1>10, <1>12, CacheStep DEF CacheInv, ArtifactsTypeOK, Counts

(* Blobs that do not change need no argument. *)
LEMMA BlobKept ==
  ASSUME CacheInv, UNCHANGED blob
  PROVE  /\ blob' \in [Layers -> {"none", "good", "short", "rot"}]
         /\ \A l \in Layers : blob'[l] \in {"short", "rot"} => l \in spoiled
         /\ \A l \in Layers \ Exempt : blob[l] # "none" => blob'[l] # "none"
  BY DEF CacheInv, ArtifactsTypeOK

(* The other steps of a pull. *)
LEMMA PullSteps ==
  ASSUME CacheInv, NEW t \in Tasks, ArtifactsAssumption,
         pull(t) \/ get(t) \/ RemoveSidecar(t) \/ ensure_cached(t) \/ finalize_temp(t)
  PROVE  CacheInv'
<1>0. task \in [Tasks -> TaskType] /\ task[t] \in TaskType /\ TaskOK(task[t]) /\ reserved \in [Layers -> Nat]
      /\ blob \in [Layers -> {"none", "good", "short", "rot"}]
  BY DEF CacheInv, ArtifactsTypeOK
<1>1. CASE Fail(t) BY <1>1, FinishStep DEF Fail
<1>n. ASSUME task[t].at \in Getting
      PROVE  /\ NextLayer(t) \in {"check", "reserve"} \cap Steps
             /\ NextLayer(t) = "reserve" => task[t].k < Len(LayersOf[task[t].img])
  <2>1. task[t].img \in Images /\ task[t].k \in 1 .. Len(LayersOf[task[t].img]) BY <1>n, InHand
  <2> QED BY <2>1, ImageLen DEF NextLayer, Steps
<1>s. "fetch" \in Steps /\ "unref" \in Steps /\ "rename" \in Steps /\ "fetch" \in Getting /\ "unref" \in Getting /\ "rename" \in Getting
      /\ "check" \notin Getting /\ "reserve" \notin Getting
  BY DEF Steps, Getting
<1>2. CASE pull(t) /\ ~Fail(t)
  <2> DEFINE x == [task[t] EXCEPT !.at = "reserve", !.k = 0]
  <2>1. task[t].at = "registry" BY <1>2 DEF pull, At
  <2>2. task[t].k = 0 /\ task[t].img \in Images /\ task[t].src = "registry" BY <2>1, <1>0 DEF TaskOK
  <2>3. x = [task[t] EXCEPT !.at = "reserve"] BY <2>2, <1>0 DEF TaskType
  <2>4. task' = [task EXCEPT ![t] = x] /\ UNCHANGED <<blob, reserved, layerGc, spoiled>>
    BY <1>2 DEF pull, cache, history
  <2> HIDE DEF x
  <2>5. x \in TaskType /\ x.at = "reserve" /\ x.k = task[t].k /\ x.img = task[t].img /\ x.src = task[t].src
    BY <2>3, <1>0 DEF TaskType, Steps
  <2>6. TaskOK(x) BY <2>2, <2>5, ImageLen DEF TaskOK, Getting
  <2>7. \A l : Seats(x, l) = Seats(task[t], l) BY <2>5 DEF Seats
  <2>8. \A s \in Tasks : \A l \in Layers : Seats(task'[s], l) = Seats(task[s], l)
    BY <1>0, <2>4, <2>7
  <2>9. Counted(task', reserved')
    <3>1. Counted(task, reserved) BY DEF CacheInv
    <3>2. Counted(task', reserved) BY <2>8, <3>1, SameSeats
    <3> QED BY <2>4, <3>2
  <2>10. Got(x) = {} BY <2>2, <2>5, <1>s DEF Got
  <2> QED BY <2>4, <2>5, <2>6, <2>9, <2>10, <1>0, BlobKept, CacheStep DEF CacheInv
<1>3. CASE get(t)
  <2>1. task[t].at = "get" /\ task[t].at \in Getting BY <1>3 DEF get, At, Getting
  <2>2. Layer(t) \in Layers /\ Layer(t) = LayersOf[task[t].img][task[t].k] /\ task[t].k > 0
    BY <2>1, <1>0, InHand DEF TaskOK
  <2>3. UNCHANGED <<reserved, layerGc, spoiled>> BY <1>3 DEF get, history
  <2>4. CASE blob[Layer(t)] # "none" /\ MoveTo(t, NextLayer(t)) /\ UNCHANGED blob
    BY <2>1, <2>2, <2>3, <2>4, <1>n, <1>s, BlobKept, MoveStep
  <2>5. CASE MoveTo(t, "fetch") /\ UNCHANGED blob
    BY <2>1, <2>2, <2>3, <2>5, <1>s, BlobKept, MoveStep
  <2>6. CASE blob[Layer(t)] # "none" /\ Mismatch(t) /\ blob' = [blob EXCEPT ![Layer(t)] = "none"] /\ MoveTo(t, "unref")
    <3>1. Layer(t) \in Exempt
      <4>1. CASE blob[Layer(t)] \in {"short", "rot"} BY <2>2, <4>1, ExemptKept DEF CacheInv
      <4>2. CASE Verify = "size" /\ Stating(t) = "other"
        <5>1. /\ task[t].img \in Images /\ task[t].k \in DOMAIN LayersOf[task[t].img]
              /\ Stated[task[t].img][task[t].k] = "other"
          BY <2>1, <4>2, InHand, ImageLen DEF Stating
        <5>2. Layer(t) \in Disputed BY <2>2, <4>2, <5>1 DEF Disputed
        <5> QED BY <5>2 DEF Exempt
      <4> QED BY <2>6, <4>1, <4>2 DEF Mismatch
    <3>2. /\ blob' \in [Layers -> {"none", "good", "short", "rot"}]
          /\ \A l \in Layers : blob'[l] \in {"short", "rot"} => l \in spoiled
          /\ \A l \in Layers \ Exempt : blob[l] # "none" => blob'[l] # "none"
      BY <1>0, <2>2, <2>6, <3>1 DEF CacheInv
    <3> QED BY <2>1, <2>2, <2>3, <2>6, <3>2, <1>s, MoveStep
  <2> QED BY <1>3, <2>4, <2>5, <2>6 DEF get
<1>4. CASE RemoveSidecar(t)
  <2>1. task[t].at \in Getting /\ task[t].at # "idle" BY <1>4 DEF RemoveSidecar, At, Getting
  <2>2. task[t].k > 0 /\ UNCHANGED <<blob, reserved, layerGc, spoiled>>
    BY <1>4, <1>0, <2>1 DEF TaskOK, RemoveSidecar, history
  <2>3. MoveTo(t, "fetch") BY <1>4 DEF RemoveSidecar
  <2> QED BY <2>1, <2>2, <2>3, <1>s, BlobKept, MoveStep
<1>5. CASE ensure_cached(t) /\ ~Fail(t)
  <2>1. task[t].at \in Getting /\ task[t].at # "idle" BY <1>5 DEF ensure_cached, At, Getting
  <2>2. task[t].k > 0 /\ UNCHANGED <<blob, reserved, layerGc, spoiled>>
    BY <1>5, <1>0, <2>1 DEF TaskOK, ensure_cached, history
  <2>3. MoveTo(t, "rename") BY <1>5 DEF ensure_cached
  <2> QED BY <2>1, <2>2, <2>3, <1>s, BlobKept, MoveStep
<1>6. CASE finalize_temp(t)
  <2>1. task[t].at \in Getting /\ task[t].at # "idle" BY <1>6 DEF finalize_temp, At, Getting
  <2>2. Layer(t) \in Layers /\ Layer(t) = LayersOf[task[t].img][task[t].k] BY <2>1, InHand
  <2>3. UNCHANGED <<reserved, layerGc, spoiled>> /\ MoveTo(t, NextLayer(t))
    BY <1>6 DEF finalize_temp, history
  <2>4. /\ blob' \in [Layers -> {"none", "good", "short", "rot"}]
        /\ \A l \in Layers : blob'[l] \in {"short", "rot"} => l \in spoiled
        /\ \A l \in Layers \ Exempt : blob[l] # "none" => blob'[l] # "none"
        /\ blob'[Layer(t)] # "none"
    BY <1>0, <1>6, <2>2 DEF finalize_temp, CacheInv
  <2> QED BY <2>1, <2>2, <2>3, <2>4, <1>n, <1>s, MoveStep
<1> QED BY <1>1, <1>2, <1>3, <1>4, <1>5, <1>6 DEF pull, ensure_cached

(* The steps of a deployment that has its layers. *)
LEMMA BundleSteps ==
  ASSUME CacheInv, NEW t \in Tasks, ArtifactsAssumption,
         acquire_git(t) \/ acquire_staged(t) \/ CheckRootfs(t) \/ RazeRootfs(t) \/ RazedRootfs(t) \/ unpack(t)
         \/ InstallRootfs(t) \/ write_rootfs_ownership_sidecar(t) \/ WriteLayers(t)
         \/ rootfs_bundle_from_oci_config(t) \/ Promote(t)
  PROVE  CacheInv'
<1>0. task[t] \in TaskType /\ TaskOK(task[t]) BY DEF CacheInv, ArtifactsTypeOK
<1>1. CASE Finish(t) BY <1>1, FinishStep
<1>2. CASE /\ ~Finish(t) /\ UNCHANGED <<blob, reserved, layerGc, spoiled>>
           /\ acquire_git(t) \/ acquire_staged(t)
  <2>1. task[t].at \in {"git", "upload"} /\ MoveTo(t, "check")
    BY <1>2 DEF acquire_git, acquire_staged, Build, At, Fail
  <2> DEFINE x == [task[t] EXCEPT !.at = "check"]
  <2>2. task[t].k = 0 /\ task[t].img \in Images BY <2>1, <1>0 DEF TaskOK
  <2>3. "check" \in Steps /\ "check" \notin Getting BY DEF Steps, Getting
  <2>4. PICK y \in TaskType : /\ task' = [task EXCEPT ![t] = y] /\ Counted(task', reserved')
                              /\ y.at = "check" /\ y.img = task[t].img /\ y.k = task[t].k /\ y.src = task[t].src
    BY <2>1, <2>3, <1>2, Moved
  <2>5. TaskOK(y) BY <2>2, <2>3, <2>4 DEF TaskOK
  <2>6. Got(y) = {} BY <2>2, <2>3, <2>4 DEF Got
  <2> QED BY <1>2, <2>4, <2>5, <2>6, BlobKept, CacheStep DEF CacheInv, ArtifactsTypeOK
<1>3. CASE /\ ~Finish(t) /\ UNCHANGED <<blob, reserved, layerGc, spoiled>>
           /\ \E w \in {"raze", "razing", "unpack", "install", "spoilt", "own", "layers", "process"} : MoveTo(t, w)
           /\ task[t].at \in {"check", "raze", "razing", "unpack", "install", "spoilt", "own", "layers"}
           /\ task[t].at \in {"check", "raze", "razing", "unpack"} \/ ~ \E w \in {"raze", "razing", "unpack"} : MoveTo(t, w)
  <2>1. PICK w \in {"raze", "razing", "unpack", "install", "spoilt", "own", "layers", "process"} : MoveTo(t, w)
    BY <1>3
  <2>2. w \in Steps \ ({"idle", "registry", "git", "upload", "acquired", "reserve"} \cup Getting)
    BY DEF Steps, WritingAt, Getting
  <2>3. task[t].at \notin Getting BY <1>3 DEF Getting
  <2>4. task[t].at \in {"check", "raze", "razing", "unpack"} \/ w \notin {"raze", "razing", "unpack", "check", "reserve"}
    BY <1>3, <2>1
  <2> QED BY <1>3, <2>1, <2>2, <2>3, <2>4, BlobKept, MoveStep
<1>4. CASE CheckRootfs(t)
  <2>1. task[t].at = "check" /\ UNCHANGED <<blob, reserved, layerGc, spoiled>>
    BY <1>4 DEF CheckRootfs, At, cache, history
  <2>2. \E w \in {"raze", "unpack", "layers"} : MoveTo(t, w) BY <1>4 DEF CheckRootfs
  <2> QED BY <1>1, <1>3, <2>1, <2>2
<1>5. CASE RazeRootfs(t) /\ ~Fail(t)
  <2>1. task[t].at = "raze" /\ UNCHANGED <<blob, reserved, layerGc, spoiled>> /\ MoveTo(t, "razing")
    BY <1>5 DEF RazeRootfs, At, cache, history
  <2> QED BY <1>1, <1>3, <2>1
<1>12. CASE RazedRootfs(t) /\ ~Fail(t)
  <2>1. task[t].at = "razing" /\ UNCHANGED <<blob, reserved, layerGc, spoiled>> /\ MoveTo(t, "unpack")
    BY <1>12 DEF RazedRootfs, At, cache, history
  <2> QED BY <1>1, <1>3, <2>1
<1>13. CASE rootfs_bundle_from_oci_config(t) /\ ~Fail(t)
  <2>1. task[t].at = "process" /\ UNCHANGED <<blob, reserved, layerGc, spoiled>> /\ MoveTo(t, "writing")
    BY <1>13 DEF rootfs_bundle_from_oci_config, At, cache, history
  <2>2. task[t].at \notin Getting /\ "writing" \in Steps /\ "writing" \notin Getting
    BY <2>1 DEF Getting, Steps, WritingAt
  <2> QED BY <2>1, <2>2, BlobKept, MoveStep
<1>6. CASE unpack(t) /\ ~Fail(t)
  <2>1. task[t].at = "unpack" /\ UNCHANGED <<blob, reserved, layerGc, spoiled>>
    BY <1>6 DEF unpack, At, cache, history
  <2>2. \E w \in {"install", "spoilt"} : MoveTo(t, w) BY <1>6 DEF unpack
  <2> QED BY <1>1, <1>3, <2>1, <2>2
<1>7. CASE InstallRootfs(t) /\ ~Fail(t)
  <2>1. task[t].at \in {"install", "spoilt"} /\ UNCHANGED <<blob, reserved, layerGc, spoiled>> /\ MoveTo(t, "own")
    BY <1>7 DEF InstallRootfs, cache, history
  <2>2. task[t].at \notin Getting /\ "own" \in Steps /\ "own" \notin Getting
    BY <2>1 DEF Getting, Steps, WritingAt
  <2> QED BY <2>1, <2>2, BlobKept, MoveStep
<1>8. CASE write_rootfs_ownership_sidecar(t) /\ ~Fail(t)
  <2>1. task[t].at = "own" /\ UNCHANGED <<blob, reserved, layerGc, spoiled>> /\ MoveTo(t, "layers")
    BY <1>8 DEF write_rootfs_ownership_sidecar, At, cache, history
  <2>2. task[t].at \notin Getting /\ "layers" \in Steps /\ "layers" \notin Getting
    BY <2>1 DEF Getting, Steps, WritingAt
  <2> QED BY <2>1, <2>2, BlobKept, MoveStep
<1>9. CASE WriteLayers(t) /\ ~Fail(t)
  <2>1. task[t].at = "layers" /\ UNCHANGED <<blob, reserved, layerGc, spoiled>> /\ MoveTo(t, "process")
    BY <1>9 DEF WriteLayers, At, cache, history
  <2>2. task[t].at \notin Getting /\ "process" \in Steps /\ "process" \notin Getting
    BY <2>1 DEF Getting, Steps, WritingAt
  <2> QED BY <2>1, <2>2, BlobKept, MoveStep
<1>10. CASE acquire_git(t) \/ acquire_staged(t)
  <2>1. Finish(t) \/ UNCHANGED <<blob, reserved, layerGc, spoiled>>
    BY <1>10 DEF acquire_git, acquire_staged, Build, Fail, cache, history
  <2> QED BY <1>1, <1>2, <1>10, <2>1
<1>11. CASE Promote(t) BY <1>1, <1>11 DEF Promote, Fail
<1> QED BY <1>1, <1>4, <1>5, <1>6, <1>7, <1>8, <1>9, <1>10, <1>11, <1>12, <1>13 DEF Fail

(* The beginning of a deployment ... *)
LEMMA AcquireStep ==
  ASSUME CacheInv, NEW t \in Tasks, NEW i \in Images, NEW src \in {"registry", "git", "upload"},
         acquire_rootfs_bundle_from_image_config(t, i, src), ArtifactsAssumption
  PROVE  CacheInv'
<1>1. PICK from \in {"registry", "build"} : from = (IF src = "registry" THEN src ELSE "build") OBVIOUS
<1> DEFINE x == [at |-> src, img |-> i, k |-> 0, src |-> from]
<1>2. task \in [Tasks -> TaskType] /\ task[t] \in TaskType /\ TaskOK(task[t]) /\ task[t].at = "idle"
  BY DEF CacheInv, ArtifactsTypeOK, acquire_rootfs_bundle_from_image_config, At
<1>3. x \in TaskType /\ x.at = src /\ x.img = i /\ x.k = 0 /\ x.src = from BY DEF TaskType, Steps
<1>4. task' = [task EXCEPT ![t] = x] /\ UNCHANGED <<blob, reserved, layerGc, spoiled>>
  BY <1>1 DEF acquire_rootfs_bundle_from_image_config, cache
<1>5. src \notin Getting \cup {"reserve", "check", "raze", "razing", "unpack"} BY DEF Getting
<1> HIDE DEF x
<1>6. TaskOK(x) BY <1>1, <1>3, <1>5 DEF TaskOK
<1>7. task[t].k = 0 BY <1>2 DEF TaskOK
<1>8. \A l : Seats(x, l) = Seats(task[t], l) BY <1>3, <1>7 DEF Seats
<1>9. \A s \in Tasks : \A l \in Layers : Seats(task'[s], l) = Seats(task[s], l) BY <1>2, <1>4, <1>8
<1>10. Counted(task', reserved')
    <3>1. Counted(task, reserved) BY DEF CacheInv
    <3>2. Counted(task', reserved) BY <1>9, <3>1, SameSeats
    <3> QED BY <1>4, <3>2
<1> QED BY <1>3, <1>4, <1>5, <1>6, <1>10, BlobKept, CacheStep DEF CacheInv, ArtifactsTypeOK

(* ... and the end of its acquisition. *)
LEMMA AcquiredStep ==
  ASSUME CacheInv, NEW t \in Tasks, WriteProcess(t), ArtifactsAssumption
  PROVE  CacheInv'
<1>0. task \in [Tasks -> TaskType] /\ reserved \in [Layers -> Nat] /\ Counted(task, reserved) /\ task[t] \in TaskType /\ TaskOK(task[t])
  BY DEF CacheInv, ArtifactsTypeOK
<1>1. CASE Fail(t) BY <1>1, FinishStep DEF Fail
<1>2. CASE ~Fail(t)
  <2> DEFINE x == [task[t] EXCEPT !.at = "acquired", !.k = 0]
  <2>1. task[t].at = "writing" BY DEF WriteProcess, At
  <2>2. task' = [task EXCEPT ![t] = x] /\ UNCHANGED <<blob, layerGc, spoiled>>
    BY <1>2 DEF WriteProcess, history
  <2>3. Freed(reserved', reserved, task[t])
    BY <1>2, SeatsAre DEF WriteProcess, release_now, Freed
  <2>4. x \in TaskType /\ x.at = "acquired" /\ x.k = 0 /\ x.img = task[t].img /\ x.src = task[t].src
    <3>1. PICK z \in Nat : z = 0 OBVIOUS
    <3>2. x = [task[t] EXCEPT !.at = "acquired", !.k = z] BY <3>1
    <3>3. "acquired" \in Steps BY DEF Steps
    <3> HIDE DEF x
    <3> QED BY <1>0, <3>1, <3>2, <3>3 DEF TaskType
  <2> HIDE DEF x
  <2>5. TaskOK(x) BY <1>0, <2>1, <2>4 DEF TaskOK, Getting
  <2>6. Unseated(task'[t]) /\ Others(task, task', t) BY <1>0, <2>2, <2>4 DEF Unseated, Others, Seats
  <2>7. Tasking(task) /\ Counts(reserved) /\ Counted(task, reserved) BY <1>0 DEF Tasking, Counts
  <2>8. Counts(reserved') /\ Counted(task', reserved') /\ NoneNew(reserved, reserved')
    BY <2>3, <2>6, <2>7, Release
  <2>9. layerGc.doomed # NoArtifact => reserved'[layerGc.doomed] = 0
    BY <2>8 DEF CacheInv, ArtifactsTypeOK, Sweeps, NoneNew
  <2>10. "acquired" \notin Getting \cup {"reserve", "check", "raze", "razing", "unpack"} BY DEF Getting
  <2> QED BY <2>2, <2>4, <2>5, <2>8, <2>9, <2>10, BlobKept, CacheStep DEF Counts
<1> QED BY <1>1, <1>2

(* A layer that was got is reserved. *)
LEMMA NoGot ==
  ASSUME ArtifactsAssumption, CacheInv, NEW t \in Tasks, NEW l \in Got(task[t]),
         task[t].src = "registry"
  PROVE  l \in Layers /\ Seats(task[t], l) # {}
<1>1. task[t] \in TaskType /\ TaskOK(task[t]) BY DEF CacheInv, ArtifactsTypeOK
<1>2. PICK j \in 1 .. (IF task[t].at \in Getting THEN task[t].k - 1 ELSE task[t].k) : l = LayersOf[task[t].img][j]
  BY DEF Got
<1>3. task[t].k \in Nat /\ j \in 1 .. task[t].k BY <1>1, <1>2 DEF TaskType
<1>4. task[t].img \in Images /\ task[t].k <= Len(LayersOf[task[t].img]) BY <1>1, <1>3 DEF TaskOK
<1>5. l \in Layers BY <1>2, <1>3, <1>4, ImageLen, LayerIn
<1>6. j \in Seats(task[t], l) BY <1>2, <1>3 DEF Seats
<1> QED BY <1>5, <1>6

(* The layers.json files are of images. *)
ImagesListed == layersJson \subseteq Images

(* They stay so. *)
LEMMA ListedStep ==
  ASSUME CacheInv, ImagesListed, [ArtifactsNext]_artifactVars
  PROVE  ImagesListed'
<1>1. ASSUME NEW t \in Tasks, WriteLayers(t) PROVE ImagesListed'
  <2>1. task[t].img \in Images BY <1>1 DEF CacheInv, TaskOK, WriteLayers, At
  <2> QED BY <1>1, <2>1 DEF WriteLayers, Fail, Finish, bundles, ImagesListed
<1>2. ASSUME NEW t \in Tasks, Acquire(t), ~WriteLayers(t) PROVE ImagesListed'
  <2>1. Fail(t) \/ Finish(t) => UNCHANGED layersJson BY DEF Fail, Finish, bundles
  <2>2. pull(t) \/ reserve(t) \/ get(t) \/ RemoveSidecar(t) \/ ensure_cached(t) \/ finalize_temp(t) => UNCHANGED layersJson
    BY <2>1 DEF pull, reserve, get, RemoveSidecar, ensure_cached, finalize_temp, bundles
  <2>3. acquire_git(t) \/ acquire_staged(t) \/ CheckRootfs(t) \/ RazeRootfs(t) \/ RazedRootfs(t) \/ unpack(t) => UNCHANGED layersJson
    BY <2>1 DEF acquire_git, acquire_staged, Build, CheckRootfs, RazeRootfs, RazedRootfs, unpack, bundles
  <2>4. InstallRootfs(t) \/ write_rootfs_ownership_sidecar(t) => UNCHANGED layersJson
    BY <2>1 DEF InstallRootfs, write_rootfs_ownership_sidecar
  <2>5. rootfs_bundle_from_oci_config(t) \/ WriteProcess(t) \/ Promote(t) => UNCHANGED layersJson
    BY <2>1 DEF rootfs_bundle_from_oci_config, WriteProcess, Promote
  <2> QED BY <1>2, <2>2, <2>3, <2>4, <2>5 DEF Acquire, ImagesListed
<1>3. ASSUME NEW t \in Tasks, NEW i \in Images, NEW src \in {"registry", "git", "upload"},
             acquire_rootfs_bundle_from_image_config(t, i, src) PROVE ImagesListed'
  BY <1>3 DEF acquire_rootfs_bundle_from_image_config, bundles, ImagesListed
<1>4. ASSUME gc_run_until_shutdown \/ Crash \/ UNCHANGED artifactVars PROVE ImagesListed'
  <2>1. sweep_once \/ list_blobs \/ RemoveDoomed \/ EndSweep => UNCHANGED layersJson
    BY DEF sweep_once, list_blobs, RemoveDoomed, EndSweep, bundles
  <2>2. (\E l \in Layers : Collect(l)) => UNCHANGED layersJson BY DEF Collect, bundles
  <2>3. Crash \/ UNCHANGED artifactVars => UNCHANGED layersJson BY DEF Crash, artifactVars, bundles
  <2> QED BY <1>4, <2>1, <2>2, <2>3 DEF gc_run_until_shutdown, ImagesListed
<1>5. ASSUME NEW l \in Layers, AgeLayer(l) \/ (\E how \in {"short", "rot"} : Decay(l, how)) PROVE ImagesListed'
  BY <1>5 DEF AgeLayer, Decay, bundles, ImagesListed
<1> QED BY <1>1, <1>2, <1>3, <1>4, <1>5 DEF ArtifactsNext

(* The collector: it removes only what it has found unreserved under the    *)
(* lock of the counters.                                                    *)
LEMMA SweepSteps ==
  ASSUME CacheInv, ImagesListed, gc_run_until_shutdown, ArtifactsAssumption
  PROVE  CacheInv'
<1>0. layerGc \in Sweeps /\ UNCHANGED <<task, reserved, spoiled>> /\ Exempt' = Exempt
  <2>1. layerGc \in Sweeps BY DEF CacheInv, ArtifactsTypeOK
  <2>2. sweep_once \/ list_blobs \/ EndSweep \/ RemoveDoomed => UNCHANGED <<task, reserved, spoiled>>
    BY DEF sweep_once, list_blobs, RemoveDoomed, EndSweep, cache, history
  <2>3. (\E l \in Layers : Collect(l)) => UNCHANGED <<task, reserved, spoiled>> BY DEF Collect, cache, history
  <2> QED BY <2>1, <2>2, <2>3, ExemptKept DEF gc_run_until_shutdown
<1>1. CASE sweep_once \/ list_blobs \/ EndSweep
  <2>1. UNCHANGED blob BY <1>1 DEF sweep_once, list_blobs, EndSweep, cache
  <2>2. layerGc' \in Sweeps /\ (layerGc'.doomed # NoArtifact => layerGc'.at = "walk" /\ reserved[layerGc'.doomed] = 0)
    <3>1. CASE sweep_once
      <4>1. snapshot \subseteq Layers BY DEF snapshot, Layers, ImagesListed
      <4> QED BY <3>1, <4>1 DEF sweep_once, NoSweep, Sweeps
    <3>2. CASE list_blobs
      <4>1. PICK m \in SUBSET Layers, n \in SUBSET Layers :
              layerGc' = [NoSweep EXCEPT !.at = "walk", !.old = m, !.bare = n]
        <5> DEFINE listed == {l \in Layers \ layerGc.keep : blob[l] # "none"}
        <5>1. {l \in listed : lastref[l] = "old"} \in SUBSET Layers /\ {l \in listed : lastref[l] = "none"} \in SUBSET Layers
          OBVIOUS
        <5>2. layerGc' = [NoSweep EXCEPT !.at = "walk", !.old = {l \in listed : lastref[l] = "old"},
                                                      !.bare = {l \in listed : lastref[l] = "none"}]
          BY <3>2, Zenon DEF list_blobs
        <5> QED BY <5>1, <5>2, Zenon
      <4> QED BY <4>1 DEF NoSweep, Sweeps
    <3>3. CASE EndSweep BY <3>3 DEF EndSweep, NoSweep, Sweeps
    <3> QED BY <1>1, <3>1, <3>2, <3>3
  <2> QED BY <1>0, <2>1, <2>2 DEF CacheInv, ArtifactsTypeOK
<1>2. ASSUME NEW l \in Layers, Collect(l) PROVE CacheInv'
  <2>1. UNCHANGED blob /\ layerGc.at = "walk" BY <1>2 DEF Collect, cache
  <2>2. PICK d \in {NoArtifact, l} : d = IF reserved[l] > 0 \/ ~Expired(l) \/ blob[l] = "none" THEN NoArtifact ELSE l
    OBVIOUS
  <2>3. layerGc' = [layerGc EXCEPT !.old = layerGc.old \ {l}, !.bare = layerGc.bare \ {l}, !.doomed = d]
    BY <1>2, <2>2, <1>0 DEF Collect, Sweeps
  <2>4. layerGc' \in Sweeps /\ layerGc'.doomed = d /\ layerGc'.at = "walk"
    BY <1>0, <2>1, <2>3 DEF Sweeps
  <2>5. d # NoArtifact => reserved[d] = 0 BY <2>2 DEF CacheInv, ArtifactsTypeOK
  <2> QED BY <1>0, <2>1, <2>4, <2>5 DEF CacheInv, ArtifactsTypeOK
<1>3. CASE RemoveDoomed
  <2>1. PICK d \in Layers : d = layerGc.doomed BY <1>0, <1>3 DEF RemoveDoomed, Sweeps
  <2>2. reserved[d] = 0 BY <1>3, <2>1 DEF RemoveDoomed, CacheInv
  <2>3. blob' = [blob EXCEPT ![d] = "none"] BY <1>3, <2>1 DEF RemoveDoomed
  <2>4. layerGc' \in Sweeps /\ layerGc'.doomed = NoArtifact BY <1>0, <1>3 DEF RemoveDoomed, Sweeps
  <2>5. Claims(task, d) = {} BY <2>2, FS_EmptySet DEF CacheInv, Counted
  <2>6. ASSUME NEW t \in Tasks PROVE Seats(task[t], d) = {}
    <3>1. task[t] \in TaskType BY DEF CacheInv, ArtifactsTypeOK
    <3>2. Seats(task[t], d) \subseteq Nat BY <3>1 DEF Seats, TaskType
    <3>3. ASSUME NEW k \in Seats(task[t], d) PROVE <<t, k>> \in Claims(task, d)
      BY <3>2, <3>3 DEF Claims
    <3> QED BY <2>5, <3>3
  <2>7. ASSUME NEW t \in Tasks, task[t].src = "registry", task[t].at \in Getting \cup {"reserve", "check", "raze", "razing", "unpack"},
               NEW l \in Got(task[t]) \ Exempt
        PROVE  blob'[l] # "none"
    <3>1. l \in Layers /\ Seats(task[t], l) # {} BY <2>7, NoGot
    <3>2. l # d BY <3>1, <2>6
    <3>3. blob[l] # "none" BY <2>7 DEF CacheInv
    <3> QED BY <2>3, <3>1, <3>2, <3>3 DEF CacheInv, ArtifactsTypeOK
  <2>8. blob' \in [Layers -> {"none", "good", "short", "rot"}] /\ \A l \in Layers : blob'[l] \in {"short", "rot"} => l \in spoiled
    BY <2>3 DEF CacheInv, ArtifactsTypeOK
  <2> QED BY <1>0, <2>4, <2>7, <2>8 DEF CacheInv, ArtifactsTypeOK
<1> QED BY <1>1, <1>2, <1>3 DEF gc_run_until_shutdown

(* A crash loses every claim and every counter. *)
LEMMA CrashStep ==
  ASSUME CacheInv, Crash
  PROVE  CacheInv'
<1>1. task' = [t \in Tasks |-> NoTask] /\ reserved' = [l \in Layers |-> 0] /\ layerGc' = NoSweep /\ UNCHANGED <<blob, spoiled>>
  BY DEF Crash
<1>2. task' \in [Tasks -> TaskType] /\ \A t \in Tasks : task'[t] = NoTask BY <1>1, NoTaskOK
<1>3. \A l : Claims(task', l) = {} BY <1>2, NoTaskOK DEF Claims
<1>4. Counted(task', reserved') BY <1>1, <1>3, FS_EmptySet DEF Counted
<1>5. reserved' \in [Layers -> Nat] BY <1>1
<1>6. layerGc' \in Sweeps /\ layerGc'.doomed = NoArtifact BY <1>1 DEF NoSweep, Sweeps
<1>7. \A t \in Tasks : task'[t].at \notin Getting \cup {"reserve", "check", "raze", "razing", "unpack"}
  BY <1>2, NoTaskOK DEF Getting
<1> QED BY <1>1, <1>2, <1>4, <1>5, <1>6, <1>7, NoTaskOK DEF CacheInv, ArtifactsTypeOK

(* The invariant holds. *)
LEMMA CacheHolds == ArtifactsSpec => [](CacheInv /\ ImagesListed)
<1>0. ArtifactsInit => ImagesListed BY DEF ArtifactsInit, ImagesListed
<1>1. ASSUME ArtifactsInit PROVE CacheInv
  <2>1. task = [t \in Tasks |-> NoTask] /\ reserved = [l \in Layers |-> 0] /\ layerGc = NoSweep /\ spoiled = {}
        /\ blob = [l \in Layers |-> "none"]
    BY <1>1 DEF ArtifactsInit
  <2>2. task \in [Tasks -> TaskType] /\ \A t \in Tasks : task[t] = NoTask BY <2>1, NoTaskOK
  <2>3. \A l : Claims(task, l) = {} BY <2>2, NoTaskOK DEF Claims
  <2>4. Counted(task, reserved) BY <2>1, <2>3, FS_EmptySet DEF Counted
  <2>5. reserved \in [Layers -> Nat] BY <2>1
  <2>6. layerGc \in Sweeps /\ layerGc.doomed = NoArtifact BY <2>1 DEF NoSweep, Sweeps
  <2>7. \A t \in Tasks : task[t].at \notin Getting \cup {"reserve", "check", "raze", "razing", "unpack"}
    BY <2>2, NoTaskOK DEF Getting
  <2> QED BY <2>1, <2>2, <2>4, <2>5, <2>6, <2>7, NoTaskOK DEF CacheInv, ArtifactsTypeOK
<1>2. ASSUME CacheInv, ImagesListed, [ArtifactsNext]_artifactVars, ArtifactsAssumption PROVE CacheInv'
  <2>1. ASSUME NEW t \in Tasks, Acquire(t) PROVE CacheInv'
    BY <1>2, <2>1, PullSteps, ReserveStep, BundleSteps, AcquiredStep DEF Acquire
  <2>2. ASSUME NEW t \in Tasks, NEW i \in Images, NEW src \in {"registry", "git", "upload"},
               acquire_rootfs_bundle_from_image_config(t, i, src) PROVE CacheInv'
    BY <1>2, <2>2, AcquireStep
  <2>3. ASSUME NEW l \in Layers, AgeLayer(l) PROVE CacheInv'
    BY <1>2, <2>3, ExemptKept DEF AgeLayer, CacheInv, ArtifactsTypeOK, history
  <2>4. ASSUME NEW l \in Layers, NEW how \in {"short", "rot"}, Decay(l, how) PROVE CacheInv'
    <3>1. blob' = [blob EXCEPT ![l] = how] /\ spoiled' = spoiled \cup {l} /\ UNCHANGED <<reserved, layerGc, task>>
      BY <2>4 DEF Decay
    <3>e. Exempt \subseteq Exempt' /\ spoiled' \subseteq Exempt' BY <3>1 DEF Exempt, Disputed
    <3>2. \A d \in Layers \ Exempt' : blob'[d] = blob[d]
      BY <3>1, <3>e, <1>2 DEF CacheInv, ArtifactsTypeOK
    <3>3. ArtifactsTypeOK' /\ \A d \in Layers : blob'[d] \in {"short", "rot"} => d \in spoiled'
      BY <1>2, <3>1 DEF CacheInv, ArtifactsTypeOK
    <3>4. ASSUME NEW t \in Tasks, task[t].src = "registry", task[t].at \in Getting \cup {"reserve", "check", "raze", "razing", "unpack"},
                 NEW d \in Got(task[t]) \ Exempt'
          PROVE  blob'[d] # "none"
      <4>1. d \in Layers BY <1>2, <3>4, NoGot
      <4>2. blob[d] # "none" BY <1>2, <3>1, <3>e, <3>4 DEF CacheInv
      <4> QED BY <3>2, <3>4, <4>1, <4>2
    <3> QED BY <1>2, <3>1, <3>3, <3>4 DEF CacheInv
  <2>5. CASE UNCHANGED artifactVars
    BY <1>2, <2>5, ExemptKept DEF artifactVars, cache, history, CacheInv, ArtifactsTypeOK
  <2> QED BY <1>2, <2>1, <2>2, <2>3, <2>4, <2>5, SweepSteps, CrashStep DEF ArtifactsNext
<1> QED BY <1>0, <1>1, <1>2, ListedStep, ArtifactsAssumption, PTL DEF ArtifactsSpec

(* The collector never takes a layer from under a deployment that has got   *)
(* it and not yet unpacked it: for any images, layer lists, deployments and *)
(* sweeps, and whatever a crash leaves.                                     *)
THEOREM HeldLayersAlwaysStay == ArtifactsSpec => []HeldLayersStay
<1>1. ASSUME CacheInv, ArtifactsAssumption PROVE HeldLayersStay
  <2> SUFFICES ASSUME NEW t \in Tasks, task[t].src = "registry", task[t].at \in {"reserve", "check", "raze", "razing", "unpack"},
                      NEW l \in Held(t) \ Exempt
               PROVE  blob[l] # "none"
    BY DEF HeldLayersStay
  <2>1. PICK k \in Seats(task[t], l) : TRUE BY SeatsAre DEF Held
  <2>2. k \in 1 .. task[t].k /\ LayersOf[task[t].img][k] = l BY <2>1 DEF Seats
  <2>3. l \in Got(task[t]) BY <2>2 DEF Got, Getting
  <2> QED BY <1>1, <2>3 DEF CacheInv
<1> QED BY <1>1, CacheHolds, ArtifactsAssumption, PTL

(* A layer of image i was damaged; the trees and the promotions there can   *)
(* be.                                                                      *)
Damaged(i, harm) == \E k \in DOMAIN LayersOf[i] : LayersOf[i][k] \in harm
Trees == [whole : BOOLEAN, range : Epochs]
Promotions == [img : Images, range : Epochs]
(* A tree is what its layers make, unless one of them was damaged; and the  *)
(* images that have a process description, or had one when a deployment     *)
(* began to overwrite it.                                                   *)
Sound(x, i, harm) == x # NoArtifact /\ (x.whole \/ Damaged(i, harm))
Described == processJson \cup rewriting

(* Types of the bundles. *)
BundleTypeOK ==
  /\ rootfs \in [Images -> Trees \cup {NoArtifact}] /\ owner \in [Images -> Epochs \cup {NoArtifact}]
  /\ epoch \in Epochs /\ promoted \in [Tasks -> Promotions \cup {NoArtifact}]

(* How far the bundle of deployment x is, by where x is: no sidecar while   *)
(* the tree is rebuilt, a tree of the configured range when the sidecar is  *)
(* about to be written, the sidecar before the files that follow it.        *)
Stands(x, o, built, e, done) ==
  /\ x.at = "raze" => o[x.img] # e
  /\ x.at \in {"razing", "unpack", "install", "spoilt", "own"} => o[x.img] = NoArtifact
  /\ x.at \in {"unpack", "install", "spoilt"} => built[x.img] = NoArtifact
  /\ x.at = "own" => built[x.img] # NoArtifact /\ built[x.img].range = e
  /\ x.at \in {"layers", "process", "writing", "acquired"} => o[x.img] = e
  /\ x.at = "acquired" => x.img \in done

(* The inductive invariant of the bundles, for images that no two           *)
(* deployments wrote at once: the sidecar names the range of the tree that  *)
(* is there, which is sound, and what was promoted is complete.  A tree     *)
(* without a sidecar may be what a failed removal left.                     *)
BundleInv ==
  /\ BundleTypeOK
  /\ \A t \in Tasks : task[t].img \in Images \ torn /\ task[t].at = "own" => Sound(rootfs[task[t].img], task[t].img, spoiled)
  /\ \A t \in Tasks : task[t].at = "spoilt" => Damaged(task[t].img, spoiled)
  /\ \A i \in Images \ torn : owner[i] # NoArtifact => Sound(rootfs[i], i, spoiled) /\ rootfs[i].range = owner[i]
  /\ \A t, s \in Tasks : task[t].img \in Images \ torn /\ task[s].img = task[t].img /\ task[t].at \in WritingAt /\ task[s].at \in WritingAt => t = s
  /\ \A t \in Tasks : task[t].img \in Images \ torn => Stands(task[t], owner, rootfs, epoch, Described)
  /\ \A t \in Tasks : promoted[t] # NoArtifact /\ promoted[t].img \notin torn =>
       promoted[t].img \in Described /\ owner[promoted[t].img] = promoted[t].range

(* Damage is not repaired behind the model's back. *)
LEMMA DamageStays ==
  ASSUME spoiled \subseteq spoiled'
  PROVE  /\ \A i : Damaged(i, spoiled) => Damaged(i, spoiled')
         /\ \A x, i : Sound(x, i, spoiled) => Sound(x, i, spoiled')
  BY DEF Damaged, Sound

(* Where a deployment has not touched its bundle yet. *)
Early == {"idle", "registry", "git", "upload", "reserve", "check"} \cup Getting

(* Steps that leave the bundles alone preserve the invariant ... *)
LEMMA QuietStep ==
  ASSUME BundleInv, UNCHANGED <<rootfs, owner, Described, epoch, promoted, torn>>, spoiled \subseteq spoiled',
         \A t \in Tasks : task'[t] = task[t] \/ task'[t].at \in Early
  PROVE  BundleInv'
<1>1. \A w \in Early : w \notin WritingAt /\ w # "acquired" /\ w # "spoilt" /\ w # "own"
  BY DEF Early, Getting, WritingAt
<1>2. \A x : x.at \in Early => Stands(x, owner, rootfs, epoch, Described)
  BY DEF Early, Getting, Stands
<1>3. BundleTypeOK' BY DEF BundleInv, BundleTypeOK
<1>4. \A t \in Tasks : task'[t].img \in Images \ torn /\ task'[t].at = "own" => Sound(rootfs[task'[t].img], task'[t].img, spoiled')
  BY <1>1, DamageStays DEF BundleInv
<1>8. \A i \in Images \ torn : owner[i] # NoArtifact => Sound(rootfs[i], i, spoiled') /\ rootfs[i].range = owner[i]
  BY DamageStays DEF BundleInv
<1>5. \A t \in Tasks : task'[t].at = "spoilt" => Damaged(task'[t].img, spoiled')
  BY <1>1, DamageStays DEF BundleInv
<1>6. \A t, s \in Tasks : task'[t].img \in Images \ torn /\ task'[s].img = task'[t].img /\ task'[t].at \in WritingAt /\ task'[s].at \in WritingAt => t = s
  BY <1>1 DEF BundleInv
<1>7. \A t \in Tasks : task'[t].img \in Images \ torn => Stands(task'[t], owner, rootfs, epoch, Described)
  BY <1>2 DEF BundleInv
<1> QED BY <1>3, <1>4, <1>5, <1>6, <1>7, <1>8 DEF BundleInv

(* ... and so do those of one deployment that changes its own bundle in the *)
(* order of Stands.                                                         *)
LEMMA OneTask ==
  ASSUME CacheInv, BundleInv, NEW t \in Tasks, NEW i \in Images, task[t].img = i, task'[t].img = i,
         \A s \in Tasks \ {t} : task'[s] = task[s],
         UNCHANGED <<spoiled, epoch, promoted>>, BundleTypeOK', torn \subseteq torn', Described \subseteq Described',
         \A j \in Images \ {i} : rootfs'[j] = rootfs[j] /\ owner'[j] = owner[j],
         task'[t].at = "spoilt" => Damaged(i, spoiled),
         i \notin torn' => /\ owner'[i] # NoArtifact => Sound(rootfs'[i], i, spoiled) /\ rootfs'[i].range = owner'[i]
                           /\ task'[t].at = "own" => Sound(rootfs'[i], i, spoiled)
                           /\ rootfs'[i] # rootfs[i] \/ owner'[i] # owner[i] => task[t].at \in WritingAt
                           /\ owner'[i] # owner[i] => owner[i] = NoArtifact
                           /\ task'[t].at \in WritingAt /\ task[t].at \notin WritingAt =>
                                ~ \E s \in Tasks \ {t} : task[s].img = i /\ task[s].at \in WritingAt
                           /\ Stands(task'[t], owner', rootfs', epoch, Described'),
         ArtifactsAssumption
  PROVE  BundleInv'
<1>1. /\ \A j : Damaged(j, spoiled') <=> Damaged(j, spoiled)
      /\ \A x, j : Sound(x, j, spoiled') <=> Sound(x, j, spoiled)
  BY DEF Damaged, Sound
<1>2. ASSUME NEW s \in Tasks, task'[s].img \in Images \ torn', task'[s].at = "own"
      PROVE  Sound(rootfs'[task'[s].img], task'[s].img, spoiled')
  <2>1. CASE s = t BY <1>1, <1>2, <2>1
  <2>2. CASE s # t
    <3>1. task'[s] = task[s] /\ task[s].img \in Images \ torn /\ task[s].at \in WritingAt
      BY <1>2, <2>2 DEF WritingAt
    <3>2. Sound(rootfs[task[s].img], task[s].img, spoiled) BY <1>2, <3>1 DEF BundleInv
    <3>3. rootfs'[task[s].img] = rootfs[task[s].img]
      <4>1. CASE task[s].img # i BY <3>1, <4>1
      <4>2. CASE task[s].img = i
        <5>1. task[t].at \notin WritingAt BY <2>2, <3>1, <4>2 DEF BundleInv
        <5> QED BY <1>2, <3>1, <4>2, <5>1
      <4> QED BY <4>1, <4>2
    <3> QED BY <1>1, <3>1, <3>2, <3>3
  <2> QED BY <2>1, <2>2
<1>3. \A s \in Tasks : task'[s].at = "spoilt" => Damaged(task'[s].img, spoiled')
  BY <1>1 DEF BundleInv
<1>4. \A j \in Images \ torn' : owner'[j] # NoArtifact => Sound(rootfs'[j], j, spoiled') /\ rootfs'[j].range = owner'[j]
  BY <1>1 DEF BundleInv
<1>5. ASSUME NEW u \in Tasks, NEW s \in Tasks, task'[u].img \in Images \ torn', task'[s].img = task'[u].img,
             task'[u].at \in WritingAt, task'[s].at \in WritingAt PROVE u = s
  <2>1. CASE u # t /\ s # t BY <1>5, <2>1 DEF BundleInv
  <2>2. ASSUME NEW v \in Tasks \ {t}, task[v].img = i, task[v].at \in WritingAt, i \notin torn', task'[t].at \in WritingAt PROVE FALSE
    <3>1. task[t].at \in WritingAt BY <2>2
    <3>2. i \in Images \ torn BY <2>2
    <3> QED BY <2>2, <3>1, <3>2 DEF BundleInv
  <2> QED BY <1>5, <2>1, <2>2
<1>6. ASSUME NEW s \in Tasks, task'[s].img \in Images \ torn' PROVE Stands(task'[s], owner', rootfs', epoch, Described')
  <2>1. CASE s = t BY <1>6, <2>1
  <2>2. CASE s # t
    <3>1. task'[s] = task[s] /\ task[s].img \in Images \ torn BY <1>6, <2>2
    <3>2. Stands(task[s], owner, rootfs, epoch, Described) BY <3>1 DEF BundleInv
    <3>3. CASE task[s].img # i BY <3>1, <3>2, <3>3 DEF Stands
    <3>4. CASE task[s].img = i
      <4>1. task[s].at \in WritingAt /\ task[t].at \in WritingAt => FALSE
        BY <2>2, <3>1, <3>4 DEF BundleInv
      <4>2. CASE UNCHANGED <<rootfs, owner>> \/ (rootfs'[i] = rootfs[i] /\ owner'[i] = owner[i])
        BY <3>1, <3>2, <3>4, <4>2 DEF Stands
      <4>3. CASE task[s].at \notin WritingAt
        <5>1. task[s].at = "acquired" => owner'[i] = epoch
          BY <3>1, <3>2, <3>4, <1>6 DEF Stands, BundleInv, BundleTypeOK, ArtifactsAssumption
        <5> QED BY <3>1, <3>2, <3>4, <4>3, <5>1 DEF Stands, WritingAt
      <4> QED BY <3>1, <3>4, <4>1, <4>2, <4>3, <1>6
    <3> QED BY <3>3, <3>4
  <2> QED BY <2>1, <2>2
<1>7. ASSUME NEW s \in Tasks, promoted[s] # NoArtifact, promoted[s].img \notin torn'
      PROVE  promoted[s].img \in Described' /\ owner'[promoted[s].img] = promoted[s].range
  <2>1. promoted[s].img \in Described /\ owner[promoted[s].img] = promoted[s].range
    BY <1>7 DEF BundleInv
  <2>2. promoted[s].img \in Images /\ promoted[s].range \in Epochs
    BY <1>7 DEF BundleInv, BundleTypeOK, Promotions
  <2> QED BY <1>7, <2>1, <2>2 DEF ArtifactsAssumption
<1> QED BY <1>2, <1>3, <1>4, <1>5, <1>6, <1>7 DEF BundleInv

(* A free permit has touched nothing. *)
LEMMA Gone == NoTask.at \in Early /\ NoTask.at = "idle" BY DEF NoTask, Early

(* A move changes one deployment's place. *)
LEMMA OneMoves ==
  ASSUME CacheInv, NEW t \in Tasks, NEW w, MoveTo(t, w)
  PROVE  /\ task'[t].at = w /\ task'[t].img = task[t].img /\ \A s \in Tasks \ {t} : task'[s] = task[s]
<1>1. task \in [Tasks -> TaskType] /\ task[t] \in TaskType BY DEF CacheInv, ArtifactsTypeOK
<1>2. task' = [task EXCEPT ![t] = [task[t] EXCEPT !.at = w]] BY DEF MoveTo
<1>3. [task[t] EXCEPT !.at = w].at = w /\ [task[t] EXCEPT !.at = w].img = task[t].img
  BY <1>1 DEF TaskType
<1> QED BY <1>1, <1>2, <1>3

(* A failure leaves the bundle as it is. *)
LEMMA FailQuiet ==
  ASSUME CacheInv, BundleInv, NEW t \in Tasks, Fail(t)
  PROVE  BundleInv'
<1>1. task' = [task EXCEPT ![t] = NoTask] /\ UNCHANGED <<rootfs, owner, Described, epoch, promoted, torn, spoiled>>
  BY DEF Fail, Finish, bundles, description, Described, history
<1>2. \A s \in Tasks : task'[s] = task[s] \/ task'[s] = NoTask BY <1>1 DEF CacheInv, ArtifactsTypeOK
<1> QED BY <1>1, <1>2, Gone, QuietStep

(* Pulls and builds do not touch bundles. *)
LEMMA EarlySteps ==
  ASSUME CacheInv, BundleInv, NEW t \in Tasks, ArtifactsAssumption,
         pull(t) \/ reserve(t) \/ get(t) \/ RemoveSidecar(t) \/ ensure_cached(t) \/ finalize_temp(t) \/ acquire_git(t) \/ acquire_staged(t)
  PROVE  BundleInv'
<1>0. task \in [Tasks -> TaskType] /\ task[t] \in TaskType BY DEF CacheInv, ArtifactsTypeOK
<1>1. CASE Fail(t) BY <1>1, FailQuiet
<1>2. CASE ~Fail(t)
  <2>1. UNCHANGED <<rootfs, owner, Described, epoch, promoted, torn, spoiled>>
    BY <1>2
       DEF pull, reserve, get, RemoveSidecar, ensure_cached, finalize_temp, acquire_git,
           acquire_staged, Build, bundles, description, Described, history
  <2>2. \A s \in Tasks \ {t} : task'[s] = task[s]
    BY <1>0, <1>2
       DEF pull, reserve, get, RemoveSidecar, ensure_cached, finalize_temp, acquire_git,
           acquire_staged, Build, MoveTo
  <2>3. task'[t].at \in Early
    <3>1. CASE \E w \in Early : MoveTo(t, w) BY <3>1, OneMoves
    <3>2. CASE pull(t) \/ reserve(t)
      <4>1. task' = [task EXCEPT ![t] = [task[t] EXCEPT !.at = "reserve", !.k = 0]]
            \/ task' = [task EXCEPT ![t] = [task[t] EXCEPT !.at = "get", !.k = task[t].k + 1]]
        BY <1>2, <3>2, <1>0 DEF pull, reserve, TaskType
      <4>2. PICK k0, k1 : k0 = 0 /\ k1 = task[t].k + 1 OBVIOUS
      <4>4. task'[t] = [task[t] EXCEPT !.at = "reserve", !.k = k0] \/ task'[t] = [task[t] EXCEPT !.at = "get", !.k = k1]
        BY <1>0, <4>1, <4>2
      <4>6. CASE task'[t] = [task[t] EXCEPT !.at = "reserve", !.k = k0]
        BY <4>6, <1>0 DEF TaskType, Early
      <4>7. CASE task'[t] = [task[t] EXCEPT !.at = "get", !.k = k1]
        BY <4>7, <1>0 DEF TaskType, Early, Getting
      <4> QED BY <4>4, <4>6, <4>7
    <3>3. ASSUME get(t) \/ finalize_temp(t) PROVE \E w \in Early : MoveTo(t, w)
      <4>1. NextLayer(t) \in Early /\ "fetch" \in Early /\ "unref" \in Early
        BY DEF NextLayer, Early, Getting
      <4> QED BY <3>3, <4>1 DEF get, finalize_temp
    <3>4. ASSUME RemoveSidecar(t) \/ ensure_cached(t) \/ acquire_git(t) \/ acquire_staged(t) PROVE \E w \in Early : MoveTo(t, w)
      BY <1>2, <3>4
         DEF RemoveSidecar, ensure_cached, acquire_git, acquire_staged, Build, Early, Getting
    <3> QED BY <3>1, <3>2, <3>3, <3>4
  <2> QED BY <2>1, <2>2, <2>3, QuietStep
<1> QED BY <1>1, <1>2

(* Types of a changed bundle. *)
LEMMA BundleTypes ==
  ASSUME BundleInv, UNCHANGED <<epoch, promoted>>,
         rootfs' \in [Images -> Trees \cup {NoArtifact}],
         owner' \in [Images -> Epochs \cup {NoArtifact}]
  PROVE  BundleTypeOK'
  BY DEF BundleInv, BundleTypeOK

(* The check of the tree and its sidecar. *)
LEMMA CheckStep ==
  ASSUME CacheInv, BundleInv, NEW t \in Tasks, ArtifactsAssumption, CheckRootfs(t)
  PROVE  BundleInv'
<1>0. task[t].at = "check" /\ task[t].img \in Images BY DEF CacheInv, TaskOK, CheckRootfs, At
<1>1. PICK i \in Images : i = task[t].img BY <1>0
<1>2. PICK w \in {"unpack", "layers", "raze"} :
        /\ w = IF rootfs[i] = NoArtifact THEN "unpack" ELSE IF rootfs_ownership_sidecar_matches(i) THEN "layers" ELSE "raze"
        /\ MoveTo(t, w)
  BY <1>1 DEF CheckRootfs
<1>3. UNCHANGED <<rootfs, owner, Described, epoch, promoted, spoiled>>
  BY DEF CheckRootfs, bundles, description, Described, history
<1>4. torn' = IF \E s \in Tasks \ {t} : task[s].img = i /\ task[s].at \in WritingAt THEN torn \cup {i} ELSE torn
  BY <1>1 DEF CheckRootfs, Writing, WritingAt
<1>5. task'[t].at = w /\ task'[t].img = i /\ \A s \in Tasks \ {t} : task'[s] = task[s]
  BY <1>1, <1>2, OneMoves
<1>6. i \notin torn' => ~ \E s \in Tasks \ {t} : task[s].img = i /\ task[s].at \in WritingAt BY <1>4
<1>7. i \notin torn' => Stands(task'[t], owner', rootfs', epoch, Described')
  BY <1>1, <1>2, <1>3, <1>4, <1>5 DEF Stands, BundleInv, Sound, rootfs_ownership_sidecar_matches
<1>8. i \notin torn' => (owner'[i] # NoArtifact => Sound(rootfs'[i], i, spoiled) /\ rootfs'[i].range = owner'[i])
  BY <1>3, <1>4 DEF BundleInv
<1>9. BundleTypeOK' BY <1>3 DEF BundleInv, BundleTypeOK
<1>10. torn \subseteq torn' BY <1>4
<1> QED BY <1>1, <1>2, <1>3, <1>5, <1>6, <1>7, <1>8, <1>9, <1>10, OneTask

(* The tree of another range begins to be removed ... *)
LEMMA RazeStep ==
  ASSUME CacheInv, BundleInv, NEW t \in Tasks, ArtifactsAssumption, RazeRootfs(t)
  PROVE  BundleInv'
<1>a. CASE Fail(t) BY <1>a, FailQuiet
<1>b. CASE ~Fail(t)
  <2>0. task[t].at = "raze" /\ task[t].img \in Images BY DEF CacheInv, TaskOK, RazeRootfs, At
  <2>1. PICK i \in Images : i = task[t].img BY <2>0
  <2>2. /\ MoveTo(t, "razing") /\ rootfs[i] # NoArtifact
        /\ rootfs' = [rootfs EXCEPT ![i] = [rootfs[i] EXCEPT !.whole = FALSE]]
        /\ torn' = IF owner[i] = NoArtifact THEN torn ELSE torn \cup {i}
    BY <1>b, <2>1 DEF RazeRootfs
  <2>3. UNCHANGED <<owner, Described, epoch, promoted, spoiled>>
    BY <1>b DEF RazeRootfs, description, Described, history
  <2>4. rootfs \in [Images -> Trees \cup {NoArtifact}] BY DEF BundleInv, BundleTypeOK
  <2>5. [rootfs[i] EXCEPT !.whole = FALSE] \in Trees BY <2>2, <2>4 DEF Trees
  <2>6. rootfs' \in [Images -> Trees \cup {NoArtifact}] /\ \A j \in Images \ {i} : rootfs'[j] = rootfs[j]
    BY <2>2, <2>4, <2>5
  <2>7. BundleTypeOK' BY <2>3, <2>6, BundleTypes DEF BundleInv, BundleTypeOK
  <2>8. task'[t].at = "razing" /\ task'[t].img = i /\ \A s \in Tasks \ {t} : task'[s] = task[s]
    BY <2>1, <2>2, OneMoves
  <2>9. i \notin torn' => owner[i] = NoArtifact BY <2>2
  <2>10. i \notin torn' => Stands(task'[t], owner', rootfs', epoch, Described')
    BY <2>3, <2>8, <2>9 DEF Stands
  <2>11. "raze" \in WritingAt /\ torn \subseteq torn' BY <2>2 DEF WritingAt
  <2> QED BY <2>0, <2>1, <2>3, <2>6, <2>7, <2>8, <2>9, <2>10, <2>11, OneTask
<1> QED BY <1>a, <1>b

(* ... and is gone. *)
LEMMA RazedStep ==
  ASSUME CacheInv, BundleInv, NEW t \in Tasks, ArtifactsAssumption, RazedRootfs(t)
  PROVE  BundleInv'
<1>a. CASE Fail(t) BY <1>a, FailQuiet
<1>b. CASE ~Fail(t)
  <2>0. task[t].at = "razing" /\ task[t].img \in Images BY DEF CacheInv, TaskOK, RazedRootfs, At
  <2>1. PICK i \in Images : i = task[t].img BY <2>0
  <2>2. MoveTo(t, "unpack") /\ rootfs' = [rootfs EXCEPT ![i] = NoArtifact]
    BY <1>b, <2>1 DEF RazedRootfs
  <2>3. UNCHANGED <<owner, Described, epoch, promoted, spoiled, torn>>
    BY <1>b DEF RazedRootfs, description, Described, history
  <2>4. rootfs \in [Images -> Trees \cup {NoArtifact}] BY DEF BundleInv, BundleTypeOK
  <2>5. rootfs' \in [Images -> Trees \cup {NoArtifact}] /\ rootfs'[i] = NoArtifact /\ \A j \in Images \ {i} : rootfs'[j] = rootfs[j]
    BY <2>2, <2>4
  <2>6. BundleTypeOK' BY <2>3, <2>5, BundleTypes DEF BundleInv, BundleTypeOK
  <2>7. task'[t].at = "unpack" /\ task'[t].img = i /\ \A s \in Tasks \ {t} : task'[s] = task[s]
    BY <2>1, <2>2, OneMoves
  <2>8. i \notin torn' => owner[i] = NoArtifact BY <2>0, <2>1, <2>3 DEF BundleInv, Stands
  <2>9. i \notin torn' => Stands(task'[t], owner', rootfs', epoch, Described')
    BY <2>3, <2>5, <2>7, <2>8 DEF Stands
  <2>10. "razing" \in WritingAt BY DEF WritingAt
  <2> QED BY <2>0, <2>1, <2>3, <2>5, <2>6, <2>7, <2>8, <2>9, <2>10, OneTask
<1> QED BY <1>a, <1>b

(* The layers are unpacked beside it. *)
LEMMA UnpackStep ==
  ASSUME CacheInv, BundleInv, NEW t \in Tasks, ArtifactsAssumption, unpack(t)
  PROVE  BundleInv'
<1>a. CASE Fail(t) BY <1>a, FailQuiet
<1>b. CASE ~Fail(t)
  <2>0. task[t].at = "unpack" /\ task[t].img \in Images /\ task[t] \in TaskType /\ TaskOK(task[t])
    BY DEF CacheInv, ArtifactsTypeOK, TaskOK, unpack, At
  <2>1. PICK i \in Images : i = task[t].img BY <2>0
  <2>2. PICK w \in {"install", "spoilt"} : MoveTo(t, w) /\ w = IF \A l \in Held(t) : blob[l] = "good" THEN "install" ELSE "spoilt"
    BY <1>b DEF unpack
  <2>3. UNCHANGED <<rootfs, owner, Described, epoch, promoted, spoiled, torn>>
    BY <1>b DEF unpack, bundles, description, Described, history
  <2>4. w = "spoilt" => Damaged(i, spoiled)
    <3> SUFFICES ASSUME w = "spoilt" PROVE Damaged(i, spoiled) OBVIOUS
    <3>1. PICK l \in Held(t) : blob[l] # "good" BY <2>2
    <3>2. blob[l] # "none" /\ l \in Layers BY <1>b, <3>1 DEF unpack, Held
    <3>3. l \in spoiled BY <3>1, <3>2 DEF CacheInv, ArtifactsTypeOK
    <3>4. PICK k \in 1 .. task[t].k : LayersOf[i][k] = l BY <2>1, <3>1 DEF Held, Reservations
    <3>5. k \in 1 .. Len(LayersOf[i]) BY <2>0, <2>1, <3>4, ImageLen DEF TaskOK, TaskType
    <3>6. k \in DOMAIN LayersOf[i] BY <3>5, ImageLen
    <3> QED BY <3>3, <3>4, <3>6 DEF Damaged
  <2>5. BundleTypeOK' BY <2>3 DEF BundleInv, BundleTypeOK
  <2>6. task'[t].at = w /\ task'[t].img = i /\ \A s \in Tasks \ {t} : task'[s] = task[s]
    BY <2>1, <2>2, OneMoves
  <2>7. i \notin torn' => Stands(task'[t], owner', rootfs', epoch, Described')
    BY <2>0, <2>1, <2>2, <2>3, <2>6 DEF Stands, BundleInv
  <2>8. "unpack" \in WritingAt BY DEF WritingAt
  <2>9. i \notin torn' => (owner'[i] # NoArtifact => Sound(rootfs'[i], i, spoiled) /\ rootfs'[i].range = owner'[i])
    BY <2>3 DEF BundleInv
  <2> QED BY <2>0, <2>1, <2>3, <2>4, <2>5, <2>6, <2>7, <2>8, <2>9, OneTask
<1> QED BY <1>a, <1>b

(* The new tree takes its name. *)
LEMMA InstallStep ==
  ASSUME CacheInv, BundleInv, NEW t \in Tasks, ArtifactsAssumption, InstallRootfs(t)
  PROVE  BundleInv'
<1>a. CASE Fail(t) BY <1>a, FailQuiet
<1>b. CASE ~Fail(t)
  <2>0. task[t].at \in {"install", "spoilt"} /\ task[t].img \in Images
    BY DEF CacheInv, TaskOK, InstallRootfs
  <2>1. PICK i \in Images : i = task[t].img BY <2>0
  <2>w. \E b \in BOOLEAN : b = At(t, "install")
    <3>1. At(t, "install") \in BOOLEAN BY DEF At
    <3> WITNESS At(t, "install") \in BOOLEAN
    <3> QED OBVIOUS
  <2>b. PICK b \in BOOLEAN : b = At(t, "install") BY <2>w
  <2> DEFINE built == [whole |-> b, range |-> epoch]
  <2>2. MoveTo(t, "own") BY <1>b DEF InstallRootfs
  <2>3. rootfs' = IF rootfs[i] # NoArtifact THEN rootfs ELSE [rootfs EXCEPT ![i] = built]
    BY <1>b, <2>1, <2>b, Zenon DEF InstallRootfs
  <2>4. UNCHANGED <<owner, Described, epoch, promoted, spoiled, torn>>
    BY <1>b DEF InstallRootfs, description, Described, history
  <2>5. built \in Trees /\ built.range = epoch /\ built.whole = b /\ built # NoArtifact
    BY DEF Trees, BundleInv, BundleTypeOK, ArtifactsAssumption
  <2> HIDE DEF built
  <2>6. rootfs \in [Images -> Trees \cup {NoArtifact}] BY DEF BundleInv, BundleTypeOK
  <2>7. /\ rootfs' \in [Images -> Trees \cup {NoArtifact}] /\ \A j \in Images \ {i} : rootfs'[j] = rootfs[j]
        /\ rootfs'[i] = IF rootfs[i] # NoArtifact THEN rootfs[i] ELSE built
    BY <2>3, <2>5, <2>6
  <2>8. BundleTypeOK' BY <2>4, <2>7, BundleTypes DEF BundleInv, BundleTypeOK
  <2>9. b \/ Damaged(i, spoiled)
    <3>1. CASE task[t].at = "spoilt" BY <3>1, <2>1 DEF BundleInv
    <3>2. CASE task[t].at = "install" BY <3>2, <2>b DEF At
    <3> QED BY <2>0, <3>1, <3>2
  <2>11. task'[t].at = "own" /\ task'[t].img = i /\ \A s \in Tasks \ {t} : task'[s] = task[s]
    BY <2>1, <2>2, OneMoves
  <2>12. i \notin torn' => rootfs[i] = NoArtifact /\ owner[i] = NoArtifact
    BY <2>0, <2>1, <2>4 DEF BundleInv, Stands
  <2>10. i \notin torn' => Sound(rootfs'[i], i, spoiled) BY <2>5, <2>7, <2>9, <2>12 DEF Sound
  <2>13. i \notin torn' => Stands(task'[t], owner', rootfs', epoch, Described')
    BY <2>4, <2>5, <2>7, <2>11, <2>12 DEF Stands
  <2>14. task[t].at \in WritingAt BY <2>0 DEF WritingAt
  <2> QED BY <2>0, <2>1, <2>4, <2>7, <2>8, <2>10, <2>11, <2>12, <2>13, <2>14, OneTask
<1> QED BY <1>a, <1>b

(* The sidecar is written. *)
LEMMA OwnerStep ==
  ASSUME CacheInv, BundleInv, NEW t \in Tasks, ArtifactsAssumption,
         write_rootfs_ownership_sidecar(t)
  PROVE  BundleInv'
<1>a. CASE Fail(t) BY <1>a, FailQuiet
<1>b. CASE ~Fail(t)
  <2>0. task[t].at = "own" /\ task[t].img \in Images
    BY DEF CacheInv, TaskOK, write_rootfs_ownership_sidecar, At
  <2>1. PICK i \in Images : i = task[t].img BY <2>0
  <2>2. MoveTo(t, "layers") /\ owner' = [owner EXCEPT ![i] = epoch]
    BY <1>b, <2>1 DEF write_rootfs_ownership_sidecar
  <2>3. UNCHANGED <<rootfs, Described, epoch, promoted, spoiled, torn>>
    BY <1>b DEF write_rootfs_ownership_sidecar, description, Described, history
  <2>4. owner \in [Images -> Epochs \cup {NoArtifact}] /\ epoch \in Epochs
    BY DEF BundleInv, BundleTypeOK
  <2>5. owner' \in [Images -> Epochs \cup {NoArtifact}] /\ owner'[i] = epoch /\ \A j \in Images \ {i} : owner'[j] = owner[j]
    BY <2>2, <2>4
  <2>6. BundleTypeOK' BY <2>3, <2>5, BundleTypes DEF BundleInv, BundleTypeOK
  <2>7. task'[t].at = "layers" /\ task'[t].img = i /\ \A s \in Tasks \ {t} : task'[s] = task[s]
    BY <2>1, <2>2, OneMoves
  <2>8. i \notin torn' => owner[i] = NoArtifact /\ Sound(rootfs[i], i, spoiled) /\ rootfs[i].range = epoch
    BY <2>0, <2>1, <2>3 DEF BundleInv, Stands
  <2>9. i \notin torn' => Stands(task'[t], owner', rootfs', epoch, Described')
    BY <2>3, <2>5, <2>7, <2>8 DEF Stands
  <2>10. "own" \in WritingAt BY DEF WritingAt
  <2> QED BY <2>0, <2>1, <2>3, <2>5, <2>6, <2>7, <2>8, <2>9, <2>10, OneTask
<1> QED BY <1>a, <1>b

(* layers.json is written. *)
LEMMA LayersStep ==
  ASSUME CacheInv, BundleInv, NEW t \in Tasks, ArtifactsAssumption, WriteLayers(t)
  PROVE  BundleInv'
<1>a. CASE Fail(t) BY <1>a, FailQuiet
<1>b. CASE ~Fail(t)
  <2>0. task[t].at = "layers" /\ task[t].img \in Images BY DEF CacheInv, TaskOK, WriteLayers, At
  <2>1. PICK i \in Images : i = task[t].img BY <2>0
  <2>2. MoveTo(t, "process") BY <1>b DEF WriteLayers
  <2>3. UNCHANGED <<rootfs, owner, Described, epoch, promoted, spoiled, torn>>
    BY <1>b DEF WriteLayers, description, Described, history
  <2>6. BundleTypeOK' BY <2>3 DEF BundleInv, BundleTypeOK
  <2>7. task'[t].at = "process" /\ task'[t].img = i /\ \A s \in Tasks \ {t} : task'[s] = task[s]
    BY <2>1, <2>2, OneMoves
  <2>9. i \notin torn' => Stands(task'[t], owner', rootfs', epoch, Described')
    BY <2>0, <2>1, <2>3, <2>7 DEF Stands, BundleInv
  <2>10. "layers" \in WritingAt BY DEF WritingAt
  <2>12. i \notin torn' => (owner'[i] # NoArtifact => Sound(rootfs'[i], i, spoiled) /\ rootfs'[i].range = owner'[i])
    BY <2>3 DEF BundleInv
  <2> QED BY <2>0, <2>1, <2>3, <2>6, <2>7, <2>9, <2>10, <2>12, OneTask
<1> QED BY <1>a, <1>b

(* process.json is opened, and emptied, ... *)
LEMMA OpenStep ==
  ASSUME CacheInv, BundleInv, NEW t \in Tasks, ArtifactsAssumption, rootfs_bundle_from_oci_config(t)
  PROVE  BundleInv'
<1>a. CASE Fail(t) BY <1>a, FailQuiet
<1>b. CASE ~Fail(t)
  <2>0. task[t].at = "process" /\ task[t].img \in Images BY DEF CacheInv, TaskOK, rootfs_bundle_from_oci_config, At
  <2>1. PICK i \in Images : i = task[t].img BY <2>0
  <2>2. MoveTo(t, "writing") BY <1>b DEF rootfs_bundle_from_oci_config
  <2>3. UNCHANGED <<rootfs, owner, Described, epoch, promoted, spoiled, torn>>
    BY <1>b DEF rootfs_bundle_from_oci_config, Described, history
  <2>6. BundleTypeOK' BY <2>3 DEF BundleInv, BundleTypeOK
  <2>7. task'[t].at = "writing" /\ task'[t].img = i /\ \A s \in Tasks \ {t} : task'[s] = task[s]
    BY <2>1, <2>2, OneMoves
  <2>9. i \notin torn' => Stands(task'[t], owner', rootfs', epoch, Described')
    BY <2>0, <2>1, <2>3, <2>7 DEF Stands, BundleInv
  <2>10. "process" \in WritingAt BY DEF WritingAt
  <2>12. i \notin torn' => (owner'[i] # NoArtifact => Sound(rootfs'[i], i, spoiled) /\ rootfs'[i].range = owner'[i])
    BY <2>3 DEF BundleInv
  <2> QED BY <2>0, <2>1, <2>3, <2>6, <2>7, <2>9, <2>10, <2>12, OneTask
<1> QED BY <1>a, <1>b

(* ... and written. *)
LEMMA ProcessStep ==
  ASSUME CacheInv, BundleInv, NEW t \in Tasks, ArtifactsAssumption,
         WriteProcess(t)
  PROVE  BundleInv'
<1>a. CASE Fail(t) BY <1>a, FailQuiet
<1>b. CASE ~Fail(t)
  <2>0. task[t].at = "writing" /\ task[t].img \in Images /\ task \in [Tasks -> TaskType] /\ task[t] \in TaskType
    BY DEF CacheInv, ArtifactsTypeOK, TaskOK, WriteProcess, At
  <2>1. PICK i \in Images : i = task[t].img BY <2>0
  <2>s. task' = [task EXCEPT ![t] = [task[t] EXCEPT !.at = "acquired", !.k = 0]] BY <1>b DEF WriteProcess
  <2>z. PICK z : z = 0 OBVIOUS
  <2>2. task' = [task EXCEPT ![t] = [task[t] EXCEPT !.at = "acquired", !.k = z]] BY <2>s, <2>z
  <2>3. UNCHANGED <<rootfs, owner, epoch, promoted, spoiled, torn>> BY <1>b DEF WriteProcess, history
  <2>7. i \in Described' /\ Described \subseteq Described' BY <1>b, <2>1 DEF WriteProcess, Described
  <2>4. task'[t] = [task[t] EXCEPT !.at = "acquired", !.k = z] /\ \A s \in Tasks \ {t} : task'[s] = task[s]
    BY <2>0, <2>2
  <2>5. task'[t].at = "acquired" /\ task'[t].img = i BY <2>0, <2>1, <2>4 DEF TaskType
  <2>6. BundleTypeOK' BY <2>3 DEF BundleInv, BundleTypeOK
  <2>9. i \notin torn' => Stands(task'[t], owner', rootfs', epoch, Described')
    BY <2>0, <2>1, <2>3, <2>5, <2>7 DEF Stands, BundleInv
  <2>10. task'[t].at \notin WritingAt /\ task'[t].at # "own" /\ task'[t].at # "spoilt" BY <2>5 DEF WritingAt
  <2>12. i \notin torn' => (owner'[i] # NoArtifact => Sound(rootfs'[i], i, spoiled) /\ rootfs'[i].range = owner'[i])
    BY <2>3 DEF BundleInv
  <2> QED BY <2>0, <2>1, <2>3, <2>4, <2>5, <2>6, <2>7, <2>9, <2>10, <2>12, OneTask
<1> QED BY <1>a, <1>b

(* The deployment is promoted. *)
LEMMA PromoteStep ==
  ASSUME CacheInv, BundleInv, NEW t \in Tasks, ArtifactsAssumption, Promote(t)
  PROVE  BundleInv'
<1>a. CASE Fail(t) BY <1>a, FailQuiet
<1>b. CASE ~Fail(t)
  <2>0. task[t].at = "acquired" /\ task[t].img \in Images /\ task \in [Tasks -> TaskType]
    BY DEF CacheInv, ArtifactsTypeOK, TaskOK, Promote, At
  <2>1. PICK i \in Images : i = task[t].img BY <2>0
  <2> DEFINE r == [img |-> i, range |-> epoch]
  <2>2. promoted' = [promoted EXCEPT ![t] = r] /\ task' = [task EXCEPT ![t] = NoTask]
        /\ UNCHANGED <<rootfs, owner, Described, epoch, spoiled, torn>>
    BY <1>b, <2>1 DEF Promote, Finish, bundles, description, Described, history
  <2>3. r \in Promotions /\ r.img = i /\ r.range = epoch BY DEF Promotions, BundleInv, BundleTypeOK
  <2> HIDE DEF r
  <2>4. i \notin torn => i \in Described /\ owner[i] = epoch BY <2>0, <2>1 DEF BundleInv, Stands
  <2>5. \A s \in Tasks : task'[s] = task[s] \/ task'[s].at \in Early BY <2>0, <2>2, Gone
  <2>6. \A w \in Early : w \notin WritingAt /\ w # "spoilt" /\ w # "acquired" /\ w # "own"
    BY DEF Early, Getting, WritingAt
  <2>7. \A x : x.at \in Early => Stands(x, owner, rootfs, epoch, Described)
    BY DEF Early, Getting, Stands
  <2>8. BundleTypeOK' BY <2>2, <2>3 DEF BundleInv, BundleTypeOK
  <2>9. /\ \A s \in Tasks : task'[s].at = "spoilt" => Damaged(task'[s].img, spoiled)
        /\ \A s \in Tasks : task'[s].img \in Images \ torn /\ task'[s].at = "own" => Sound(rootfs[task'[s].img], task'[s].img, spoiled)
    BY <2>5, <2>6 DEF BundleInv
  <2>10. \A u, s \in Tasks : task'[u].img \in Images \ torn /\ task'[s].img = task'[u].img /\ task'[u].at \in WritingAt /\ task'[s].at \in WritingAt => u = s
    BY <2>5, <2>6 DEF BundleInv
  <2>11. \A s \in Tasks : task'[s].img \in Images \ torn => Stands(task'[s], owner, rootfs, epoch, Described)
    BY <2>5, <2>7 DEF BundleInv
  <2>12. \A s \in Tasks : promoted'[s] = promoted[s] \/ promoted'[s] = r
    BY <2>2 DEF BundleInv, BundleTypeOK
  <2>13. \A s \in Tasks : promoted'[s] # NoArtifact /\ promoted'[s].img \notin torn =>
           promoted'[s].img \in Described /\ owner[promoted'[s].img] = promoted'[s].range
    BY <2>3, <2>4, <2>12 DEF BundleInv
  <2> QED BY <2>2, <2>8, <2>9, <2>10, <2>11, <2>13 DEF BundleInv
<1> QED BY <1>a, <1>b

(* The invariant holds. *)
LEMMA BundleHolds == ArtifactsSpec => []BundleInv
<1>1. ASSUME ArtifactsInit, ArtifactsAssumption PROVE BundleInv
  <2>1. epoch \in Epochs BY <1>1 DEF ArtifactsInit, ArtifactsAssumption
  <2>2. BundleTypeOK BY <1>1, <2>1 DEF ArtifactsInit, BundleTypeOK
  <2>3. \A t \in Tasks : task[t].at \in Early BY <1>1, Gone DEF ArtifactsInit
  <2>4. \A w \in Early : w \notin WritingAt /\ w # "spoilt" /\ w # "acquired" /\ w # "own"
    BY DEF Early, Getting, WritingAt
  <2>5. \A x : x.at \in Early => Stands(x, owner, rootfs, epoch, Described)
    BY DEF Early, Getting, Stands
  <2>6. (\A i \in Images : rootfs[i] = NoArtifact /\ owner[i] = NoArtifact) /\ \A t \in Tasks : promoted[t] = NoArtifact
    BY <1>1 DEF ArtifactsInit
  <2> QED BY <2>2, <2>3, <2>4, <2>5, <2>6 DEF BundleInv
<1>2. ASSUME CacheInv, BundleInv, [ArtifactsNext]_artifactVars, ArtifactsAssumption PROVE BundleInv'
  <2>0. task \in [Tasks -> TaskType] BY <1>2 DEF CacheInv, ArtifactsTypeOK
  <2>1. ASSUME NEW t \in Tasks, Acquire(t) PROVE BundleInv'
    BY <1>2, <2>1, EarlySteps, CheckStep, RazeStep, RazedStep, UnpackStep, InstallStep, OwnerStep, LayersStep,
       OpenStep, ProcessStep, PromoteStep DEF Acquire
  <2>2. ASSUME NEW t \in Tasks, NEW i \in Images, NEW src \in {"registry", "git", "upload"},
               acquire_rootfs_bundle_from_image_config(t, i, src) PROVE BundleInv'
    <3>1. UNCHANGED <<rootfs, owner, Described, epoch, promoted, torn, spoiled>>
      BY <2>2 DEF acquire_rootfs_bundle_from_image_config, bundles, description, Described
    <3>2. PICK from : task' = [task EXCEPT ![t] = [at |-> src, img |-> i, k |-> 0, src |-> from]]
      BY <2>2 DEF acquire_rootfs_bundle_from_image_config
    <3>3. \A s \in Tasks : task'[s] = task[s] \/ task'[s].at = src BY <2>0, <3>2
    <3>4. src \in Early BY DEF Early
    <3> QED BY <1>2, <3>1, <3>3, <3>4, QuietStep
  <2>3. ASSUME gc_run_until_shutdown \/ UNCHANGED artifactVars \/ (\E l \in Layers : AgeLayer(l) \/ (\E how \in {"short", "rot"} : Decay(l, how)))
        PROVE BundleInv'
    <3>1. UNCHANGED <<rootfs, owner, Described, epoch, promoted, torn, task>> /\ spoiled \subseteq spoiled'
      <4>1. sweep_once \/ list_blobs \/ RemoveDoomed \/ EndSweep => UNCHANGED <<bundles, history, promoted, torn, task>>
        BY DEF sweep_once, list_blobs, RemoveDoomed, EndSweep
      <4>2. (\E l \in Layers : Collect(l)) => UNCHANGED <<bundles, history, promoted, torn, task>> BY DEF Collect
      <4>3. UNCHANGED artifactVars => UNCHANGED <<bundles, history, promoted, torn, task>> BY DEF artifactVars
      <4>4. UNCHANGED <<bundles, history>> => UNCHANGED <<rootfs, owner, Described, epoch, spoiled>>
        BY DEF bundles, description, Described, history
      <4>5. (\E l \in Layers : AgeLayer(l) \/ (\E how \in {"short", "rot"} : Decay(l, how))) =>
              UNCHANGED <<bundles, epoch, promoted, torn, task>> /\ spoiled \subseteq spoiled'
        BY DEF AgeLayer, Decay, history
      <4>6. UNCHANGED bundles => UNCHANGED <<rootfs, owner, Described>> BY DEF bundles, description, Described
      <4> QED BY <2>3, <4>1, <4>2, <4>3, <4>4, <4>5, <4>6 DEF gc_run_until_shutdown
    <3> QED BY <1>2, <3>1, QuietStep
  <2>4. CASE Crash
    <3>1. UNCHANGED <<rootfs, owner, Described, promoted, torn, spoiled>> /\ epoch' \in Epochs /\ task' = [t \in Tasks |-> NoTask]
      BY <2>4 DEF Crash, bundles, description, Described
    <3>2. BundleTypeOK' BY <1>2, <3>1 DEF BundleInv, BundleTypeOK
    <3>3. \A t \in Tasks : task'[t].at \in Early BY <3>1, Gone
    <3>4. \A w \in Early : w \notin WritingAt /\ w # "spoilt" /\ w # "acquired" /\ w # "own"
      BY DEF Early, Getting, WritingAt
    <3>5. \A x : x.at \in Early => Stands(x, owner, rootfs, epoch', Described)
      BY DEF Early, Getting, Stands
    <3>6. \A t \in Tasks : Stands(task'[t], owner', rootfs', epoch', Described')
      BY <3>1, <3>3, <3>5
    <3> QED BY <1>2, <3>1, <3>2, <3>3, <3>4, <3>6 DEF BundleInv
  <2> QED BY <1>2, <2>1, <2>2, <2>3, <2>4 DEF ArtifactsNext
<1> QED BY <1>1, <1>2, CacheHolds, ArtifactsAssumption, PTL DEF ArtifactsSpec

(* What a service promotes can be launched: its tree is there, whole unless *)
(* a layer was damaged, shifted for the range it is launched with, and its  *)
(* process.json is there or was when a redeployment began to overwrite it:  *)
(* for any images, deployments, ranges, restarts and failed writes, unless  *)
(* two deployments wrote the bundle at once.                                *)
THEOREM PromotedAlwaysLaunchable == ArtifactsSpec => []PromotedIsLaunchable
<1>1. ASSUME BundleInv, ArtifactsAssumption PROVE PromotedIsLaunchable
  <2> SUFFICES ASSUME NEW t \in Tasks, NEW i, promoted[t] # NoArtifact, i = promoted[t].img, i \notin torn, promoted[t].range = epoch
               PROVE  /\ i \in processJson \cup rewriting /\ rootfs[i] # NoArtifact /\ rootfs[i].range = epoch
                      /\ rootfs[i].whole \/ \E k \in DOMAIN LayersOf[i] : LayersOf[i][k] \in spoiled
    BY DEF PromotedIsLaunchable
  <2>1. i \in Images /\ epoch \in Epochs /\ epoch # NoArtifact
    BY <1>1 DEF BundleInv, BundleTypeOK, Promotions, ArtifactsAssumption
  <2>2. i \in Described /\ owner[i] = epoch BY <1>1 DEF BundleInv
  <2>3. Sound(rootfs[i], i, spoiled) /\ rootfs[i].range = epoch BY <1>1, <2>1, <2>2 DEF BundleInv
  <2> QED BY <2>2, <2>3 DEF Sound, Damaged, Described
<1> QED BY <1>1, BundleHolds, ArtifactsAssumption, PTL

-----------------------------------------------------------------------------
(* A parent is above its child ... *)
LEMMA Parent ==
  ASSUME NEW p \in Paths, Up[p] # Top
  PROVE  Up[p] \in Paths /\ Up[p] \in Ancestors[p]
  BY UnpackAssumption DEF Ancestors

(* ... and so is everything above it; *)
LEMMA AncestorsClosed ==
  ASSUME NEW p \in Paths
  PROVE  /\ Ancestors[p] \subseteq Paths
         /\ Closed(Ancestors[p])
  <1>1. Ancestors[p] \subseteq Paths BY DEF Ancestors
  <1>2. ASSUME NEW q \in Ancestors[p], Up[q] # Top PROVE Up[q] \in Ancestors[p]
    <2>1. q \in Paths BY <1>1
    <2>2. Up[q] \in Paths BY <1>2, <2>1, Parent
    <2> SUFFICES ASSUME NEW s \in SUBSET Paths, Closed(s), Up[p] \in s \cup {Top}
                 PROVE  Up[q] \in s
      BY <2>2 DEF Ancestors
    <2>3. q \in s BY DEF Ancestors
    <2> QED BY <2>3, <1>2 DEF Closed
  <1> QED BY <1>1, <1>2 DEF Closed

(* what is above the parent is above the child, *)
LEMMA ParentsAbove ==
  ASSUME NEW p \in Paths, Up[p] # Top
  PROVE  Ancestors[Up[p]] \subseteq Ancestors[p]
  <1>1. Up[p] \in Paths BY Parent
  <1> SUFFICES ASSUME NEW q \in Ancestors[Up[p]], NEW s \in SUBSET Paths, Closed(s),
                      Up[p] \in s \cup {Top}
               PROVE  q \in s
    BY <1>1, AncestorsClosed DEF Ancestors
  <1>2. Up[Up[p]] \in s \cup {Top} BY DEF Closed
  <1> QED BY <1>1, <1>2 DEF Ancestors

(* and what is below something is below what is above that. *)
LEMMA UnderClosed ==
  ASSUME NEW p \in Paths, NEW q \in Paths, Up[q] # Top, Up[q] \in {p} \cup Under(p)
  PROVE  q \in Under(p)
  BY Parent, ParentsAbove DEF Under

(* NothingBehindLinks, of a tree t. *)
Neat(t) == \A p \in Paths : t[p].kind # "none" /\ Up[p] # Top => t[Up[p]].kind = "dir"

(* create_dir_all_no_symlink makes directories only below directories. *)
LEMMA WithDirsNeat ==
  ASSUME NEW ps \in SUBSET Paths, Closed(ps), create_dir_all_no_symlink(ps), Neat(tree)
  PROVE  Neat(WithDirs(ps)) /\ \A q \in ps : WithDirs(ps)[q].kind = "dir"
  <1>1. ASSUME NEW q \in Paths PROVE Up[q] # Top => Up[q] \in Paths
    BY Parent
  <1>2. \A q \in ps : WithDirs(ps)[q].kind = "dir"
    BY DEF WithDirs, create_dir_all_no_symlink, Exists, IsDir, Dir
  <1>3. ASSUME NEW q \in Paths, WithDirs(ps)[q].kind # "none", Up[q] # Top
        PROVE  WithDirs(ps)[Up[q]].kind = "dir"
    <2>1. CASE q \in ps
      BY <2>1, <1>2, <1>3 DEF Closed
    <2>2. CASE q \notin ps
      <3>1. tree[Up[q]].kind = "dir"
        BY <2>2, <1>3 DEF WithDirs, Neat
      <3> QED BY <3>1, <1>1, <1>3 DEF WithDirs, Exists
    <2> QED BY <2>1, <2>2
  <1> QED BY <1>2, <1>3 DEF Neat

(* Removing something with all below it leaves nothing hanging. *)
LEMMA RazeNeat ==
  ASSUME NEW t, Neat(t), NEW ps \in SUBSET Paths,
         \A q \in Paths : Up[q] \in ps => q \in ps
  PROVE  Neat(Raze(t, ps))
  BY Parent DEF Neat, Raze, Absent

(* A file or a link goes into a directory, with nothing below it. *)
LEMMA PutNeat ==
  ASSUME NEW t, Neat(t), DOMAIN t = Paths, NEW p \in Paths, NEW x, x.kind # "none",
         Up[p] # Top => t[Up[p]].kind = "dir",
         \A q \in Paths : Up[q] = p => t[q].kind = "none"
  PROVE  Neat([t EXCEPT ![p] = x])
  <1>1. ASSUME NEW q \in Paths PROVE [t EXCEPT ![p] = x][q] = IF q = p THEN x ELSE t[q]
    OBVIOUS
  <1>2. Up[p] # p
    BY PathsAssumption, Parent, UnpackAssumption
  <1>3. ASSUME NEW q \in Paths, [t EXCEPT ![p] = x][q].kind # "none", Up[q] # Top
        PROVE  [t EXCEPT ![p] = x][Up[q]].kind = "dir"
    <2>1. Up[q] \in Paths BY <1>3, Parent
    <2>2. CASE q = p BY <2>1, <2>2, <1>1, <1>2, <1>3
    <2>3. CASE q # p BY <2>1, <2>3, <1>1, <1>3 DEF Neat
    <2> QED BY <2>2, <2>3
  <1> QED BY <1>3 DEF Neat

(* Every entry keeps the tree neat. *)
LEMMA ApplyNeat ==
  ASSUME NEW e \in Entry, Neat(tree), Apply(e)
  PROVE  Neat(tree')
  <1> DEFINE p == e.path
  <1>0. p \in Paths BY DEF Entry
  <1> HIDE DEF p
  <1>1. /\ Ancestors[p] \in SUBSET Paths /\ Closed(Ancestors[p])
        /\ {p} \cup Ancestors[p] \in SUBSET Paths /\ Closed({p} \cup Ancestors[p])
        /\ Up[p] # Top => Up[p] \in Ancestors[p]
        /\ p \notin Ancestors[p]
    BY <1>0, AncestorsClosed, Parent, PathsAssumption DEF Closed
  <1>2. \A q \in Paths : Up[q] \in Under(p) => q \in Under(p)
    BY <1>0, UnderClosed, UnpackAssumption DEF Under
  <1>3. Neat(Raze(tree, Under(p)))
    <2>1. Under(p) \in SUBSET Paths BY DEF Under
    <2> QED BY <1>2, <2>1, RazeNeat
  <1>4. ASSUME create_dir_all_no_symlink(Ancestors[p])
        PROVE  /\ Neat(WithDirs(Ancestors[p]))
               /\ Up[p] # Top => WithDirs(Ancestors[p])[Up[p]].kind = "dir"
    BY <1>1, <1>4, WithDirsNeat
  <1>5. CASE e.kind = "dir" /\ ApplyDir(p)
    <2>1. CASE UNCHANGED tree BY <2>1 DEF Neat
    <2>2. CASE /\ create_dir_all_no_symlink({p} \cup Ancestors[p])
               /\ tree' = WithDirs({p} \cup Ancestors[p])
      BY <2>2, <1>1, WithDirsNeat
    <2> QED BY <2>1, <2>2, <1>5 DEF ApplyDir, Reject
  <1>6. CASE e.kind = "link" /\ ApplySymlink(p)
    <2>1. CASE UNCHANGED tree BY <2>1 DEF Neat
    <2>2. CASE create_dir_all_no_symlink(Ancestors[p])
      <3> DEFINE w == WithDirs(Ancestors[p])
                 t == Raze(w, Under(p))
      <3>1. Neat(w) /\ (Up[p] # Top => w[Up[p]].kind = "dir") BY <2>2, <1>4
      <3> HIDE DEF w
      <3>2. Neat(t)
        <4>1. Under(p) \in SUBSET Paths BY DEF Under
        <4> QED BY <1>2, <3>1, <4>1, RazeNeat
      <3>3. DOMAIN t = Paths BY DEF Raze
      <3>4. Up[p] # Top => t[Up[p]].kind = "dir"
        <4>1. Up[p] # Top => Up[p] \in Paths /\ Up[p] \notin Under(p)
          BY <1>0, <1>1, Parent, ParentsAbove DEF Under
        <4> QED BY <3>1, <4>1 DEF Raze
      <3>5. \A q \in Paths : Up[q] = p => t[q].kind = "none"
        <4>1. \A q \in Paths : Up[q] = p => q \in Under(p)
          BY <1>0, UnderClosed, UnpackAssumption
        <4> QED BY <4>1 DEF Raze, Absent
      <3>6. PICK x : x = [kind |-> "link", from |-> layer] OBVIOUS
      <3>7. x.kind # "none" BY <3>6
      <3>8. tree' = [t EXCEPT ![p] = x]
        BY <2>2, <3>6, <1>6 DEF ApplySymlink, w
      <3> HIDE DEF t
      <3> QED BY <3>2, <3>3, <3>4, <3>5, <3>7, <3>8, <1>0, PutNeat
    <2> QED BY <2>1, <2>2, <1>6 DEF ApplySymlink, Reject
  <1>7. CASE e.kind = "file" /\ ApplyFile(p)
    <2>1. CASE UNCHANGED tree BY <2>1 DEF Neat
    <2>2. CASE create_dir_all_no_symlink(Ancestors[p]) /\ ~IsDir(p)
      <3> DEFINE t == WithDirs(Ancestors[p])
      <3>1. Neat(t) /\ (Up[p] # Top => t[Up[p]].kind = "dir") BY <2>2, <1>4
      <3>2. DOMAIN t = Paths BY DEF WithDirs
      <3>3. \A q \in Paths : Up[q] = p => t[q].kind = "none"
        <4> SUFFICES ASSUME NEW q \in Paths, Up[q] = p, t[q].kind # "none" PROVE FALSE
          OBVIOUS
        <4>1. t[p].kind = "dir" BY <1>0, <3>1, UnpackAssumption DEF Neat
        <4>2. tree[p].kind = "dir" BY <4>1, <1>0, <1>1 DEF WithDirs
        <4> QED BY <4>2, <2>2 DEF IsDir
      <3>6. PICK x : x = [kind |-> "file", from |-> layer] OBVIOUS
      <3>7. x.kind # "none" BY <3>6
      <3>8. tree' = [t EXCEPT ![p] = x]
        BY <2>2, <3>6, <1>7 DEF ApplyFile
      <3> HIDE DEF t
      <3> QED BY <3>1, <3>2, <3>3, <3>7, <3>8, <1>0, PutNeat
    <2> QED BY <2>1, <2>2, <1>7 DEF ApplyFile, Reject
  <1>8. CASE e.kind = "opaque" /\ ApplyOpaque(p)
    <2>1. CASE UNCHANGED tree BY <2>1 DEF Neat
    <2>2. CASE tree' = Raze(tree, Under(p)) BY <2>2, <1>3
    <2> QED BY <2>1, <2>2, <1>8 DEF ApplyOpaque, OnDirectory, Reject
  <1>9. CASE e.kind = "whiteout" /\ ApplyWhiteout(p)
    <2>1. UNCHANGED tree BY <1>9 DEF ApplyWhiteout, OnDirectory, Reject
    <2> QED BY <2>1 DEF Neat
  <1> QED BY <1>5, <1>6, <1>7, <1>8, <1>9 DEF Apply, p

(* So does any removal of whole subtrees, and with it the whiteouts at the  *)
(* end of a layer, wherever they lead.                                      *)
LEMMA EndNeat ==
  ASSUME Neat(tree), NEW ws \in SUBSET Paths
  PROVE  Neat(Raze(tree, WithContents(ws)))
  <1> DEFINE ps == WithContents(ws)
  <1>1. ps \in SUBSET Paths BY DEF WithContents, Under
  <1>2. ASSUME NEW q \in Paths, Up[q] \in ps PROVE q \in ps
    <2>1. PICK p \in ws : Up[q] \in {p} \cup Under(p) BY <1>2 DEF WithContents
    <2>2. p \in Paths OBVIOUS
    <2>3. Up[q] # Top BY <2>1, <2>2, UnpackAssumption DEF Under
    <2>4. q \in Under(p) BY <2>1, <2>2, <2>3, UnderClosed
    <2> QED BY <2>4 DEF WithContents
  <1> HIDE DEF ps
  <1>3. Neat(Raze(tree, ps)) BY <1>1, <1>2, RazeNeat
  <1> QED BY <1>3 DEF ps

(* Nothing is below what is not a directory. *)
LEMMA NothingUnder ==
  ASSUME NEW t, Neat(t), NEW p \in Paths, t[p].kind # "dir", NEW q \in Under(p)
  PROVE  t[q].kind = "none"
  <1> SUFFICES ASSUME t[q].kind # "none" PROVE FALSE OBVIOUS
  <1> DEFINE s == {x \in Paths : t[x].kind = "dir"}
  <1>1. q \in Paths /\ p \in Ancestors[q] BY DEF Under
  <1>2. Closed(s)
    <2> SUFFICES ASSUME NEW x \in s, Up[x] # Top PROVE Up[x] \in s BY DEF Closed
    <2>1. x \in Paths /\ t[x].kind # "none" OBVIOUS
    <2>2. Up[x] \in Paths BY <2>1, Parent
    <2> QED BY <2>1, <2>2 DEF Neat
  <1>3. Up[q] \in s \cup {Top}
    <2> SUFFICES ASSUME Up[q] # Top PROVE Up[q] \in s OBVIOUS
    <2>1. Up[q] \in Paths BY <1>1, Parent
    <2> QED BY <1>1, <2>1 DEF Neat
  <1>4. p \in s
    <2>1. s \in SUBSET Paths OBVIOUS
    <2> HIDE DEF s
    <2> QED BY <1>1, <1>2, <1>3, <2>1 DEF Ancestors
  <1> QED BY <1>4

(* What is in a tree has directories above it only. *)
LEMMA DirsAbove ==
  ASSUME Neat(tree), NEW p \in Paths, Exists(p), NEW q \in Ancestors[p]
  PROVE  tree[q].kind = "dir"
  <1>1. q \in Paths /\ p \in Under(q) BY AncestorsClosed DEF Under
  <1> QED BY <1>1, NothingUnder DEF Exists

(* The only new link is the one an entry makes. *)
LEMMA NewLink ==
  ASSUME NEW e \in Entry, Apply(e), NEW q \in Paths,
         tree'[q].kind = "link", tree[q].kind # "link"
  PROVE  e.kind = "link" /\ e.path = q
  <1>0. e.path \in Paths BY DEF Entry
  <1>1. ASSUME NEW ps PROVE WithDirs(ps)[q].kind = "link" => tree[q].kind = "link"
    BY DEF WithDirs, Dir
  <1>2. ASSUME NEW t, NEW ps PROVE Raze(t, ps)[q].kind = "link" => t[q].kind = "link"
    BY DEF Raze, Absent
  <1>3. CASE e.kind = "dir" /\ ApplyDir(e.path) BY <1>1, <1>3 DEF ApplyDir, Reject
  <1>4. CASE e.kind = "link" /\ ApplySymlink(e.path)
    <2> SUFFICES ASSUME e.path # q PROVE FALSE BY <1>4
    <2> DEFINE t == Raze(WithDirs(Ancestors[e.path]), Under(e.path))
    <2>1. CASE tree' = tree BY <2>1
    <2>2. CASE tree' = [t EXCEPT ![e.path] = [kind |-> "link", from |-> layer]]
      <3>1. tree'[q] = t[q] BY <2>2 DEF Raze
      <3> QED BY <3>1, <1>1, <1>2
    <2> QED BY <1>4, <2>1, <2>2 DEF ApplySymlink, Reject
  <1>5. CASE e.kind = "file" /\ ApplyFile(e.path)
    <2> DEFINE t == WithDirs(Ancestors[e.path])
    <2>1. CASE tree' = tree BY <2>1
    <2>2. CASE tree' = [t EXCEPT ![e.path] = [kind |-> "file", from |-> layer]]
      <3>1. tree'[q].kind \in {t[q].kind, "file"} BY <2>2 DEF WithDirs
      <3> QED BY <3>1, <1>1
    <2> QED BY <1>5, <2>1, <2>2 DEF ApplyFile, Reject
  <1>6. CASE e.kind = "opaque" /\ ApplyOpaque(e.path)
    BY <1>2, <1>6 DEF ApplyOpaque, OnDirectory, Reject
  <1>7. CASE e.kind = "whiteout" /\ ApplyWhiteout(e.path)
    BY <1>7 DEF ApplyWhiteout, OnDirectory, Reject
  <1> QED BY <1>3, <1>4, <1>5, <1>6, <1>7 DEF Apply

(* Behind NothingBehindLinks: each pending whiteout has its entry. *)
LinksInv ==
  /\ NothingBehindLinks /\ whiteouts \subseteq Paths /\ entries \in Seq(Entry)
  /\ \A p \in whiteouts : \E i \in DOMAIN entries : EntryAt(i, "whiteout", p)

(* An entry preserves it. *)
LEMMA EntryLinks ==
  ASSUME LinksInv, NEW e \in Entry, apply_layer(e)
  PROVE  LinksInv'
  <1>0. Neat(tree) BY DEF LinksInv, Neat, NothingBehindLinks, Exists, IsDir
  <1>1. /\ entries \in Seq(Entry) /\ entries' = Append(entries, e)
        /\ Apply(e) \/ (UNCHANGED <<tree, whiteouts>>)
        /\ Ancestors' = Ancestors
    BY DEF LinksInv, apply_layer, Reject, Ancestors, Closed
  <1>2. /\ entries' \in Seq(Entry) /\ DOMAIN entries \subseteq DOMAIN entries'
        /\ Len(entries) + 1 \in DOMAIN entries' /\ entries'[Len(entries) + 1] = e
        /\ \A i \in DOMAIN entries : i < Len(entries) + 1 /\ entries'[i] = entries[i]
    BY <1>1
  <1>3. \A p \in Paths : tree'[p].kind # "none" /\ Up[p] # Top => tree'[Up[p]].kind = "dir"
    BY <1>0, <1>1, ApplyNeat DEF Neat
  <1>4. ASSUME NEW p \in whiteouts', p \notin whiteouts
        PROVE  /\ e = [kind |-> "whiteout", path |-> p] /\ p \in Paths
               /\ \A q \in Ancestors[p] : tree'[q].kind = "dir"
    <2>1. e.kind = "whiteout" /\ e.path = p /\ ApplyWhiteout(p) /\ Exists(p)
      BY <1>1, <1>4 DEF Apply, ApplyWhiteout
    <2>2. e = [kind |-> "whiteout", path |-> p] /\ p \in Paths BY <2>1 DEF Entry
    <2>3. tree' = tree BY <2>1 DEF ApplyWhiteout, OnDirectory, Reject
    <2> QED BY <2>1, <2>2, <2>3, <1>0, DirsAbove
  <1>5. whiteouts' \subseteq Paths BY <1>4 DEF LinksInv
  <1>6. ASSUME NEW p \in whiteouts' PROVE \E i \in DOMAIN entries' : EntryAt(i, "whiteout", p)'
    <2>1. CASE p \in whiteouts BY <2>1, <1>2 DEF LinksInv, EntryAt
    <2>2. CASE p \notin whiteouts BY <2>2, <1>2, <1>4 DEF EntryAt
    <2> QED BY <2>1, <2>2
  <1>7. ASSUME NEW p \in whiteouts', NEW q \in Ancestors[p], tree'[q].kind = "link"
        PROVE  \E i, j \in DOMAIN entries' : i < j /\ EntryAt(i, "whiteout", p)' /\ EntryAt(j, "link", q)'
    <2>1. p \in whiteouts BY <1>4, <1>7
    <2>2. CASE tree[q].kind = "link"
      <3>1. PICK i, j \in DOMAIN entries : i < j /\ EntryAt(i, "whiteout", p) /\ EntryAt(j, "link", q)
        BY <2>1, <2>2 DEF LinksInv, NothingBehindLinks, LinkIsLater
      <3> QED BY <3>1, <1>2 DEF EntryAt
    <2>3. CASE tree[q].kind # "link"
      <3>1. PICK i \in DOMAIN entries : EntryAt(i, "whiteout", p) BY <2>1 DEF LinksInv
      <3>2. q \in Paths BY <2>1, AncestorsClosed DEF LinksInv
      <3>3. e.kind = "link" /\ e.path = q BY <1>1, <1>7, <2>3, <3>2, NewLink
      <3>4. e = [kind |-> "link", path |-> q] BY <3>3 DEF Entry
      <3> QED BY <3>1, <3>4, <1>2 DEF EntryAt
    <2> QED BY <2>2, <2>3
  <1>8. \A p \in whiteouts' : LinkIsLater(p)' BY <1>1, <1>7 DEF LinkIsLater
  <1>9. NothingBehindLinks' BY <1>3, <1>8 DEF NothingBehindLinks, Exists, IsDir
  <1> QED BY <1>2, <1>5, <1>6, <1>9 DEF LinksInv

(* For any paths, layers and entries in any order, nothing is ever put      *)
(* below a file or a link, and a whiteout is behind a link only when the    *)
(* link came after it in the same layer.                                    *)
THEOREM NothingEverBehindLinks == UnpackSpec => []NothingBehindLinks
<1>1. UnpackInit => LinksInv
  BY UnpackAssumption DEF UnpackInit, LinksInv, NothingBehindLinks, Empty, Absent, Exists
<1>2. LinksInv /\ [UnpackNext]_unpackVars => LinksInv'
  <2> SUFFICES ASSUME LinksInv, [UnpackNext]_unpackVars PROVE LinksInv'
    OBVIOUS
  <2>1. CASE UNCHANGED unpackVars
    <3>1. UNCHANGED <<tree, entries, whiteouts>> /\ Ancestors' = Ancestors
      BY <2>1 DEF unpackVars, Ancestors, Closed
    <3> QED BY <3>1 DEF LinksInv, NothingBehindLinks, LinkIsLater, EntryAt, Exists, IsDir
  <2>2. CASE EndLayer
    <3>1. PICK at \in [whiteouts -> Paths \cup {Top}] :
            tree' = Raze(tree, WithContents({at[p] : p \in whiteouts} \ {Top}))
      BY <2>2 DEF EndLayer
    <3>2. {at[p] : p \in whiteouts} \ {Top} \in SUBSET Paths OBVIOUS
    <3>3. Neat(tree) BY DEF LinksInv, Neat, NothingBehindLinks, Exists, IsDir
    <3>4. Neat(tree') BY <3>1, <3>2, <3>3, EndNeat
    <3>5. whiteouts' = {} /\ (entries' = <<>> \/ entries' = entries)
      <4>1. whiteouts' = {} BY <2>2 DEF EndLayer
      <4>2. entries' = <<>> \/ entries' = entries BY <2>2 DEF EndLayer
      <4> QED BY <4>1, <4>2
    <3>6. entries' \in Seq(Entry)
      <4>1. entries \in Seq(Entry) BY DEF LinksInv
      <4>2. <<>> \in Seq(Entry) OBVIOUS
      <4> QED BY <3>5, <4>1, <4>2
    <3> QED BY <3>4, <3>5, <3>6 DEF LinksInv, Neat, NothingBehindLinks, Exists, IsDir
  <2> QED BY <2>1, <2>2, EntryLinks DEF UnpackNext
<1>3. LinksInv => NothingBehindLinks BY DEF LinksInv
<1> QED BY <1>1, <1>2, <1>3, PTL DEF UnpackSpec

(* What is below something is below what is above that. *)
LEMMA UnderTrans ==
  ASSUME NEW p \in Paths, NEW q \in Under(p), NEW r \in Under(q)
  PROVE  r \in Under(p)
  <1>1. q \in Paths /\ r \in Paths /\ p \in Ancestors[q] /\ q \in Ancestors[r] BY DEF Under
  <1> SUFFICES ASSUME NEW s \in SUBSET Paths, Closed(s), Up[r] \in s \cup {Top}
               PROVE  p \in s
    BY <1>1 DEF Under, Ancestors
  <1>2. q \in s BY <1>1 DEF Ancestors
  <1>3. Up[q] \in s \cup {Top} BY <1>2 DEF Closed
  <1> QED BY <1>1, <1>3 DEF Ancestors

(* A node is known by its kind where there is nothing or a directory. *)
Plain(t) ==
  /\ t = [p \in Paths |-> t[p]]
  /\ \A p \in Paths : /\ t[p].kind = "none" => t[p] = Absent
                      /\ t[p].kind = "dir" => t[p] = Dir

Put(k) == [kind |-> k, from |-> layer]

(* What an entry that is not refused does to the place q. *)
Effect(k, p, q) ==
  IF k = "whiteout" THEN tree[q]
  ELSE IF k = "opaque" THEN IF q \in Under(p) THEN Absent ELSE tree[q]
  ELSE IF q = p THEN IF k = "dir" THEN Dir ELSE Put(k)
  ELSE IF q \in Ancestors[p] THEN Dir
  ELSE IF k # "dir" /\ q \in Under(p) THEN Absent
  ELSE tree[q]

LEMMA EntryEffect ==
  ASSUME Neat(tree), Plain(tree), NEW e \in Entry, Apply(e), unpacked' = "busy"
  PROVE  /\ tree' = [q \in Paths |-> tree'[q]]
         /\ \A q \in Paths : tree'[q] = Effect(e.kind, e.path, q)
  <1> DEFINE p == e.path
  <1>0. p \in Paths BY DEF Entry
  <1> HIDE DEF p
  <1>1. /\ Ancestors[p] \subseteq Paths /\ p \notin Ancestors[p] /\ p \notin Under(p)
        /\ Under(p) \subseteq Paths
    BY <1>0, AncestorsClosed, PathsAssumption DEF Under
  <1>2. \A q \in Ancestors[p] : q \notin Under(p)
    <2> SUFFICES ASSUME NEW q \in Ancestors[p], q \in Under(p) PROVE FALSE OBVIOUS
    <2>1. q \in Paths /\ p \in Under(q) BY <1>0, <1>1 DEF Under
    <2>2. q \in Under(q) BY <2>1, <1>0, UnderTrans
    <2> QED BY <2>1, <2>2, PathsAssumption DEF Under
  <1>3. /\ tree = [q \in Paths |-> tree[q]]
        /\ \A q \in Paths : (tree[q].kind = "none" => tree[q] = Absent) /\ (tree[q].kind = "dir" => tree[q] = Dir)
    BY DEF Plain
  <1>4. ASSUME NEW ps \in SUBSET Paths, create_dir_all_no_symlink(ps)
        PROVE  \A q \in Paths : WithDirs(ps)[q] = IF q \in ps THEN Dir ELSE tree[q]
    BY <1>3, <1>4 DEF WithDirs, create_dir_all_no_symlink, Exists, IsDir
  <1>5. CASE e.kind = "dir" /\ ApplyDir(p)
    <2>1. /\ create_dir_all_no_symlink({p} \cup Ancestors[p]) /\ tree' = WithDirs({p} \cup Ancestors[p])
      BY <1>5 DEF ApplyDir, Reject
    <2>2. \A q \in Paths : tree'[q] = IF q \in {p} \cup Ancestors[p] THEN Dir ELSE tree[q]
      BY <2>1, <1>0, <1>1, <1>4
    <2>3. tree' = [q \in Paths |-> tree'[q]] BY <2>1 DEF WithDirs
    <2> QED BY <1>5, <2>2, <2>3 DEF Effect, p
  <1>6. CASE e.kind = "link" /\ ApplySymlink(p)
    <2> DEFINE w == WithDirs(Ancestors[p])
               t == Raze(w, Under(p))
    <2>1. create_dir_all_no_symlink(Ancestors[p]) /\ tree' = [t EXCEPT ![p] = Put("link")]
      BY <1>6 DEF ApplySymlink, Reject, Put
    <2>2. \A q \in Paths : w[q] = IF q \in Ancestors[p] THEN Dir ELSE tree[q] BY <2>1, <1>1, <1>4
    <2> HIDE DEF w
    <2>3. /\ t = [q \in Paths |-> t[q]]
          /\ \A q \in Paths : t[q] = IF q \in Under(p) THEN Absent ELSE w[q]
      BY DEF Raze
    <2> HIDE DEF t
    <2>4. \A q \in Paths : tree'[q] = IF q = p THEN Put("link") ELSE t[q] BY <2>1, <2>3
    <2>5. tree' = [q \in Paths |-> tree'[q]] BY <2>1, <2>3
    <2>6. ASSUME NEW q \in Paths PROVE tree'[q] = Effect("link", p, q)
      BY <2>2, <2>3, <2>4, <1>2 DEF Effect
    <2> QED BY <1>6, <2>5, <2>6 DEF p
  <1>7. CASE e.kind = "file" /\ ApplyFile(p)
    <2> DEFINE w == WithDirs(Ancestors[p])
    <2>1. create_dir_all_no_symlink(Ancestors[p]) /\ ~IsDir(p) /\ tree' = [w EXCEPT ![p] = Put("file")]
      BY <1>7 DEF ApplyFile, Reject, Put
    <2>2. \A q \in Paths : w[q] = IF q \in Ancestors[p] THEN Dir ELSE tree[q] BY <2>1, <1>1, <1>4
    <2>3. w = [q \in Paths |-> w[q]] BY DEF WithDirs
    <2> HIDE DEF w
    <2>4. \A q \in Paths : tree'[q] = IF q = p THEN Put("file") ELSE w[q] BY <2>1, <2>3
    <2>5. tree' = [q \in Paths |-> tree'[q]] BY <2>1, <2>3
    <2>6. \A q \in Under(p) : tree[q] = Absent
      BY <2>1, <1>0, <1>1, <1>3, NothingUnder DEF IsDir
    <2>7. ASSUME NEW q \in Paths PROVE tree'[q] = Effect("file", p, q)
      BY <2>2, <2>4, <2>6, <1>2 DEF Effect
    <2> QED BY <1>7, <2>5, <2>7 DEF p
  <1>8. CASE e.kind = "opaque" /\ ApplyOpaque(p)
    <2>1. \/ tree' = Raze(tree, Under(p))
          \/ tree' = tree /\ tree[p].kind # "dir"
      <3>1. (~Exists(p) \/ tree[p].kind = "link") => tree[p].kind # "dir" BY DEF Exists
      <3> QED BY <3>1, <1>8 DEF ApplyOpaque, OnDirectory, Reject
    <2>2. \A q \in Paths : tree'[q] = IF q \in Under(p) THEN Absent ELSE tree[q]
      <3>1. CASE tree' = Raze(tree, Under(p)) BY <3>1 DEF Raze
      <3>2. CASE tree' = tree /\ tree[p].kind # "dir"
        <4>1. \A q \in Under(p) : tree[q] = Absent BY <3>2, <1>0, <1>1, <1>3, NothingUnder
        <4> QED BY <3>2, <4>1
      <3> QED BY <3>1, <3>2, <2>1
    <2>3. tree' = [q \in Paths |-> tree'[q]]
      <3>1. CASE tree' = Raze(tree, Under(p)) BY <3>1 DEF Raze
      <3> QED BY <3>1, <2>1, <1>3
    <2> QED BY <1>8, <2>2, <2>3 DEF Effect, p
  <1>9. CASE e.kind = "whiteout" /\ ApplyWhiteout(p)
    <2>1. tree' = tree BY <1>9 DEF ApplyWhiteout, OnDirectory, Reject
    <2> QED BY <1>3, <1>9, <2>1 DEF Effect
  <1> QED BY <1>5, <1>6, <1>7, <1>8, <1>9 DEF Apply, p

-----------------------------------------------------------------------------
(* What the entries applied so far make of the place p, with the whiteouts  *)
(* still to come.                                                           *)
Laid(p) ==
  IF p \in Named({"file"}) THEN Put("file")
  ELSE IF p \in Named({"link"}) THEN Put("link")
  ELSE IF p \in Named({"dir"}) \/ Under(p) \cap Named(Kinds) # {} THEN Dir
  ELSE IF Ancestors[p] \cap Named({"opaque", "file", "link"}) # {} THEN Absent
  ELSE below[p]

LEMMA NamedGrows ==
  ASSUME entries \in Seq(Entry), NEW e \in Entry, entries' = Append(entries, e), NEW k
  PROVE  Named(k)' = Named(k) \cup (IF e.kind \in k THEN {e.path} ELSE {})
  <1> DEFINE n == Len(entries)
             es == entries'
  <1>1. /\ n \in Nat /\ DOMAIN entries = 1 .. n /\ DOMAIN es = 1 .. n + 1 /\ es[n + 1] = e
        /\ \A i \in 1 .. n : es[i] = entries[i]
    OBVIOUS
  <1> HIDE DEF n, es
  <1>2. Named(k) = {entries[i].path : i \in {j \in DOMAIN entries : entries[j].kind \in k}} BY DEF Named
  <1>3. Named(k)' = {es[i].path : i \in {j \in DOMAIN es : es[j].kind \in k}} BY DEF Named, es
  <1>4. ASSUME NEW x \in Named(k)' PROVE x \in Named(k) \cup (IF e.kind \in k THEN {e.path} ELSE {})
    <2>1. PICK i \in 1 .. n + 1 : es[i].kind \in k /\ x = es[i].path BY <1>1, <1>3
    <2>2. CASE i = n + 1 BY <2>1, <2>2, <1>1
    <2>3. CASE i \in 1 .. n BY <2>1, <2>3, <1>1, <1>2
    <2> QED BY <2>2, <2>3, <1>1
  <1>5. ASSUME NEW x \in Named(k) PROVE x \in Named(k)'
    <2>1. PICK i \in 1 .. n : entries[i].kind \in k /\ x = entries[i].path BY <1>1, <1>2
    <2>2. i \in 1 .. n + 1 /\ es[i] = entries[i] BY <1>1
    <2> QED BY <2>1, <2>2, <1>1, <1>3
  <1>6. e.kind \in k => e.path \in Named(k)'
    <2>1. n + 1 \in 1 .. n + 1 BY <1>1
    <2> QED BY <2>1, <1>1, <1>3
  <1> QED BY <1>4, <1>5, <1>6

(* What Tidy says of the names alone. *)
Solo == {"file", "link", "whiteout"}
All == Kinds \cup Marks

NamesApart ==
  /\ \A k \in Solo, l \in All : k # l => Named({k}) \cap Named({l}) = {}
  /\ \A p \in Named(Solo) : Under(p) \cap Named(All) = {}

LEMMA TidyNames == Tidy => NamesApart
  <1> SUFFICES ASSUME Tidy PROVE NamesApart OBVIOUS
  <1>1. ASSUME NEW k \in Solo, NEW l \in All, k # l, NEW p \in Named({k}), p \in Named({l}) PROVE FALSE
    <2>1. PICK i \in DOMAIN entries : entries[i].kind = k /\ entries[i].path = p BY DEF Named
    <2>2. PICK j \in DOMAIN entries : entries[j].kind = l /\ entries[j].path = p BY <1>1 DEF Named
    <2>3. i # j BY <2>1, <2>2, <1>1
    <2>4. {k, l} = {"dir", "opaque"} BY <2>1, <2>2, <2>3 DEF Tidy
    <2>5. k \in {"dir", "opaque"} BY <2>4
    <2> QED BY <2>5 DEF Solo
  <1> QED BY <1>1 DEF NamesApart, Tidy, Solo, All

LEMMA TidyEntry ==
  ASSUME entries \in Seq(Entry), NEW e \in Entry, entries' = Append(entries, e), Tidy'
  PROVE  /\ Tidy
         /\ e.kind \in Solo => e.path \notin Named(All)
         /\ e.kind = "opaque" => Under(e.path) \cap Named(All) = {}
  <1> DEFINE n == Len(entries)
             es == entries'
  <1>1. /\ n \in Nat /\ DOMAIN entries = 1 .. n /\ DOMAIN es = 1 .. n + 1 /\ es[n + 1] = e
        /\ \A i \in 1 .. n : es[i] = entries[i] /\ i \in 1 .. n + 1 /\ i < n + 1 /\ i # n + 1
        /\ n + 1 \in 1 .. n + 1
    OBVIOUS
  <1>2. /\ \A i, j \in DOMAIN es :
             i # j /\ es[i].path = es[j].path => {es[i].kind, es[j].kind} = {"dir", "opaque"}
        /\ \A p \in Named(Solo)' : Under(p) \cap Named(All)' = {}
        /\ \A i, j \in DOMAIN es :
             i < j /\ es[j].kind = "opaque" => es[i].path \notin Under(es[j].path)
    BY DEF Tidy, Solo, All, Under, Ancestors, Closed
  <1> HIDE DEF n, es
  <1>3. \A x \in Named(All) : \E i \in 1 .. n : entries[i].path = x
    BY <1>1 DEF Named
  <1>4. Named(Solo) \subseteq Named(Solo)' /\ Named(All) \subseteq Named(All)'
    BY NamedGrows
  <1>5. Tidy
    <2>1. \A i, j \in DOMAIN entries :
             i # j /\ entries[i].path = entries[j].path => {entries[i].kind, entries[j].kind} = {"dir", "opaque"}
      BY <1>1, <1>2
    <2>2. \A p \in Named(Solo) : Under(p) \cap Named(All) = {} BY <1>2, <1>4
    <2>3. \A i, j \in DOMAIN entries :
             i < j /\ entries[j].kind = "opaque" => entries[i].path \notin Under(entries[j].path)
      BY <1>1, <1>2
    <2> QED BY <2>1, <2>2, <2>3 DEF Tidy, Solo, All
  <1>6. ASSUME e.kind \in Solo, e.path \in Named(All) PROVE FALSE
    <2>1. PICK i \in 1 .. n : entries[i].path = e.path BY <1>3, <1>6
    <2>2. {e.kind, es[i].kind} = {"dir", "opaque"} BY <2>1, <1>1, <1>2
    <2>3. e.kind \in {"dir", "opaque"} BY <2>2
    <2> QED BY <2>3, <1>6 DEF Solo
  <1>7. ASSUME e.kind = "opaque", NEW x \in Under(e.path), x \in Named(All) PROVE FALSE
    <2>1. PICK i \in 1 .. n : entries[i].path = x BY <1>3, <1>7
    <2>2. es[i].path \notin Under(e.path) BY <1>1, <1>2, <1>7
    <2> QED BY <2>1, <2>2, <1>1, <1>7
  <1> QED BY <1>5, <1>6, <1>7

(* The place p, by the names of the files, links, directories and opaque    *)
(* directories of a layer.                                                  *)
LaidBy(F, L, D, O, p) ==
  IF p \in F THEN Put("file")
  ELSE IF p \in L THEN Put("link")
  ELSE IF p \in D \/ \E x \in Under(p) : x \in F \/ x \in L \/ x \in D THEN Dir
  ELSE IF \E x \in Ancestors[p] : x \in O \/ x \in F \/ x \in L THEN Absent
  ELSE below[p]

NamesSplit ==
  /\ Named(Kinds) = Named({"file"}) \cup Named({"link"}) \cup Named({"dir"})
  /\ Named({"opaque", "file", "link"}) = Named({"opaque"}) \cup Named({"file"}) \cup Named({"link"})
  /\ Named(Solo) = Named({"file"}) \cup Named({"link"}) \cup Named({"whiteout"})
  /\ Named(All) = Named(Solo) \cup Named({"dir"}) \cup Named({"opaque"})

LEMMA NamedParts == NamesSplit
  <1>1. Named(Kinds) = Named({"file"}) \cup Named({"link"}) \cup Named({"dir"}) BY DEF Named, Kinds
  <1>2. Named({"opaque", "file", "link"}) = Named({"opaque"}) \cup Named({"file"}) \cup Named({"link"})
    BY DEF Named
  <1>3. Named(Solo) = Named({"file"}) \cup Named({"link"}) \cup Named({"whiteout"}) BY DEF Named, Solo
  <1>4. Named(All) = Named(Solo) \cup Named({"dir"}) \cup Named({"opaque"})
    BY DEF Named, Solo, All, Kinds, Marks
  <1> QED BY <1>1, <1>2, <1>3, <1>4 DEF NamesSplit

LaidByNames == \A p \in Paths :
  Laid(p) = LaidBy(Named({"file"}), Named({"link"}), Named({"dir"}), Named({"opaque"}), p)

LEMMA LaidIsBy == LaidByNames
  <1> SUFFICES ASSUME NEW p \in Paths
               PROVE  Laid(p) = LaidBy(Named({"file"}), Named({"link"}), Named({"dir"}), Named({"opaque"}), p)
    BY DEF LaidByNames
  <1>1. Under(p) \cap Named(Kinds) # {} <=>
          \E x \in Under(p) : x \in Named({"file"}) \/ x \in Named({"link"}) \/ x \in Named({"dir"})
    BY NamedParts DEF NamesSplit
  <1>2. Ancestors[p] \cap Named({"opaque", "file", "link"}) # {} <=>
          \E x \in Ancestors[p] : x \in Named({"opaque"}) \/ x \in Named({"file"}) \/ x \in Named({"link"})
    BY NamedParts DEF NamesSplit
  <1> QED BY <1>1, <1>2 DEF Laid, LaidBy

Grown(S1, S, named, k, p) == S1 = S \cup (IF k = named THEN {p} ELSE {})

TidyBy(F, L, D, O, W) ==
  /\ \A x \in F \cup L \cup W : \A y \in Under(x) : y \notin F \cup L \cup W \cup D \cup O
  /\ F \cap L = {} /\ F \cap D = {} /\ L \cap D = {}

MarkFirst(F, L, D, O, W, k, p) ==
  k = "opaque" => \A y \in Under(p) : y \notin F \cup L \cup W \cup D \cup O

(* One more entry changes the meaning of a tidy layer as it changes the     *)
(* tree.                                                                    *)
LEMMA LaidStep ==
  ASSUME NEW F, NEW L, NEW D, NEW O, NEW W, NEW F1, NEW L1, NEW D1, NEW O1, NEW W1,
         NEW k, NEW p \in Paths,
         Grown(F1, F, "file", k, p), Grown(L1, L, "link", k, p), Grown(D1, D, "dir", k, p),
         Grown(O1, O, "opaque", k, p), Grown(W1, W, "whiteout", k, p), k \in All,
         TidyBy(F1, L1, D1, O1, W1), MarkFirst(F, L, D, O, W, k, p),
         NEW q \in Paths, tree[q] = LaidBy(F, L, D, O, q)
  PROVE  LaidBy(F1, L1, D1, O1, q) = Effect(k, p, q)
  <1> USE DEF Grown, TidyBy, MarkFirst
  <1>0. /\ \A x \in Paths : \A y : y \in Under(x) <=> y \in Paths /\ x \in Ancestors[y]
        /\ \A x \in Paths : x \notin Under(x) /\ x \notin Ancestors[x]
        /\ Ancestors[q] \subseteq Paths /\ Ancestors[p] \subseteq Paths
    BY AncestorsClosed, PathsAssumption DEF Under
  <1>t. q \in Under(p) => \A y \in Under(q) : y \in Under(p) BY UnderTrans
  <1>1. CASE k = "whiteout"
    <2>1. F1 = F /\ L1 = L /\ D1 = D /\ O1 = O BY <1>1
    <2> QED BY <2>1, <1>1 DEF Effect
  <1>2. CASE k = "opaque"
    <2>1. F1 = F /\ L1 = L /\ D1 = D /\ O1 = O \cup {p} BY <1>2
    <2>2. CASE q \in Under(p)
      <3>1. q \notin F /\ q \notin L /\ q \notin D BY <2>2, <1>2
      <3>2. ~\E x \in Under(q) : x \in F \/ x \in L \/ x \in D BY <2>2, <1>2, <1>t
      <3>3. p \in Ancestors[q] /\ p \in O1 BY <2>1, <2>2, <1>0
      <3>4. LaidBy(F1, L1, D1, O1, q) = Absent BY <2>1, <3>1, <3>2, <3>3 DEF LaidBy
      <3> QED BY <3>4, <2>2, <1>2 DEF Effect
    <2>3. CASE q \notin Under(p)
      <3>1. p \notin Ancestors[q] BY <2>3, <1>0
      <3>2. (\E x \in Ancestors[q] : x \in O1 \/ x \in F1 \/ x \in L1) <=>
              (\E x \in Ancestors[q] : x \in O \/ x \in F \/ x \in L)
        BY <3>1, <2>1
      <3>3. LaidBy(F1, L1, D1, O1, q) = LaidBy(F, L, D, O, q) BY <3>2, <2>1 DEF LaidBy
      <3> QED BY <3>3, <2>3, <1>2 DEF Effect
    <2> QED BY <2>2, <2>3
  <1>3. CASE k \in {"dir", "file", "link"}
    <2>1. O1 = O /\ W1 = W /\ p \in F1 \cup L1 \cup D1 BY <1>3
    <2>2. CASE q = p
      <3>1. CASE k = "file" BY <2>2, <3>1 DEF LaidBy, Effect
      <3>2. CASE k = "link" BY <2>2, <3>2 DEF LaidBy, Effect
      <3>3. CASE k = "dir" BY <2>2, <3>3 DEF LaidBy, Effect
      <3> QED BY <3>1, <3>2, <3>3, <1>3
    <2>3. CASE q \in Ancestors[p]
      <3>1. p \in Under(q) /\ q # p BY <2>3, <1>0
      <3>2. q \notin F1 /\ q \notin L1 BY <3>1, <2>1
      <3>3. LaidBy(F1, L1, D1, O1, q) = Dir BY <3>1, <3>2, <2>1 DEF LaidBy
      <3> QED BY <3>1, <3>3, <2>3, <1>3 DEF Effect
    <2>4. CASE q # p /\ q \notin Ancestors[p]
      <3>1. p \notin Under(q) BY <2>4, <1>0
      <3>2. /\ q \in F1 <=> q \in F
            /\ q \in L1 <=> q \in L
            /\ q \in D1 <=> q \in D
        BY <2>4
      <3>3. (\E x \in Under(q) : x \in F1 \/ x \in L1 \/ x \in D1) <=>
              (\E x \in Under(q) : x \in F \/ x \in L \/ x \in D)
        BY <3>1
      <3>4. CASE k # "dir" /\ q \in Under(p)
        <4>1. p \in F1 \/ p \in L1 BY <3>4, <1>3
        <4>2. q \notin F1 /\ q \notin L1 /\ q \notin D1 BY <4>1, <3>4
        <4>3. ~\E x \in Under(q) : x \in F1 \/ x \in L1 \/ x \in D1 BY <4>1, <3>4, <1>t
        <4>4. p \in Ancestors[q] BY <3>4, <1>0
        <4>5. LaidBy(F1, L1, D1, O1, q) = Absent BY <4>1, <4>2, <4>3, <4>4 DEF LaidBy
        <4> QED BY <4>5, <3>4, <2>4, <1>3 DEF Effect
      <3>5. CASE ~(k # "dir" /\ q \in Under(p))
        <4>1. (\E x \in Ancestors[q] : x \in O1 \/ x \in F1 \/ x \in L1) <=>
                (\E x \in Ancestors[q] : x \in O \/ x \in F \/ x \in L)
          <5>1. CASE k = "dir" BY <5>1, <2>1
          <5>2. CASE q \notin Under(p)
            <6>1. p \notin Ancestors[q] BY <5>2, <1>0
            <6> QED BY <6>1, <2>1
          <5> QED BY <5>1, <5>2, <3>5
        <4>2. LaidBy(F1, L1, D1, O1, q) = LaidBy(F, L, D, O, q) BY <3>2, <3>3, <4>1 DEF LaidBy
        <4> QED BY <4>2, <3>5, <2>4, <1>3 DEF Effect
      <3> QED BY <3>4, <3>5
    <2> QED BY <2>2, <2>3, <2>4
  <1> QED BY <1>1, <1>2, <1>3 DEF All, Kinds, Marks

-----------------------------------------------------------------------------
(* While a layer is applied that is tidy so far, the tree is what its       *)
(* entries mean, but for the whiteouts that still have something to remove. *)
LaidSoFar ==
  /\ \A p \in Paths : tree[p] = Laid(p)
  /\ \A p \in Named({"whiteout"}) : p \in whiteouts \/ tree[p] = Absent

(* The inductive invariant of the unpacking. *)
LayerInv ==
  /\ Neat(tree) /\ Plain(tree) /\ entries \in Seq(Entry)
  /\ whiteouts \subseteq Named({"whiteout"})
  /\ unpacked = "busy" /\ Tidy => LaidSoFar
  /\ TreeIsUnion

NamesInPaths == \A k \in SUBSET All : Named(k) \subseteq Paths

LEMMA NamedPaths == entries \in Seq(Entry) => NamesInPaths
  <1> SUFFICES ASSUME entries \in Seq(Entry), NEW i \in DOMAIN entries
               PROVE  entries[i].path \in Paths
    BY DEF Named, NamesInPaths
  <1>1. entries[i] \in Entry OBVIOUS
  <1> QED BY <1>1 DEF Entry

LEMMA EntryKeepsLayer ==
  ASSUME LayerInv, NEW e \in Entry, apply_layer(e)
  PROVE  LayerInv'
  <1>1. /\ entries \in Seq(Entry) /\ entries' = Append(entries, e) /\ below' = below /\ layer' = layer
        /\ unpacked = "busy"
    BY DEF LayerInv, apply_layer
  <1>2. entries' \in Seq(Entry) BY <1>1
  <1>11. Tidy' => NamesApart' BY TidyNames, PTL
  <1>12. NamesSplit' BY NamedParts, PTL
  <1>13. LaidByNames' BY LaidIsBy, PTL
  <1>14. (entries \in Seq(Entry))' => NamesInPaths' BY NamedPaths, PTL
  <1>3. Apply(e) \/ (Reject /\ UNCHANGED whiteouts) BY DEF apply_layer
  <1>4. e.path \in Paths /\ e.kind \in All BY DEF Entry, All
  <1>5. unpacked' # "done"
    BY <1>1, <1>3 DEF Apply, ApplyDir, ApplySymlink, ApplyFile, ApplyOpaque, ApplyWhiteout, OnDirectory, Reject
  <1>6. TreeIsUnion' BY <1>5 DEF TreeIsUnion
  <1>7. Neat(tree')
    <2>1. CASE Apply(e) BY <2>1, ApplyNeat DEF LayerInv
    <2>2. CASE Reject BY <2>2 DEF LayerInv, Neat, Reject
    <2> QED BY <2>1, <2>2, <1>3
  <1>8. whiteouts' \subseteq Named({"whiteout"})'
    <2>1. Named({"whiteout"})' = Named({"whiteout"}) \cup (IF e.kind \in {"whiteout"} THEN {e.path} ELSE {})
      BY <1>1, NamedGrows
    <2>2. whiteouts' = whiteouts \/ (e.kind = "whiteout" /\ whiteouts' \subseteq whiteouts \cup {e.path})
      BY <1>3 DEF Apply, ApplyWhiteout
    <2> QED BY <2>1, <2>2 DEF LayerInv
  <1>9. CASE unpacked' # "busy"
    <2>1. tree' = tree
      BY <1>1, <1>3, <1>9 DEF Apply, ApplyDir, ApplySymlink, ApplyFile, ApplyOpaque, ApplyWhiteout, OnDirectory, Reject
    <2>2. Plain(tree)' BY <2>1 DEF LayerInv, Plain
    <2>3. Neat(tree)' BY <1>7 DEF Neat
    <2> QED BY <1>2, <1>6, <1>8, <1>9, <2>2, <2>3 DEF LayerInv
  <1>10. CASE unpacked' = "busy"
    <2>1. Apply(e) BY <1>3, <1>10 DEF Reject
    <2>2. /\ tree' = [q \in Paths |-> tree'[q]]
          /\ \A q \in Paths : tree'[q] = Effect(e.kind, e.path, q)
      BY <2>1, <1>10, EntryEffect DEF LayerInv
    <2>3. Plain(tree')
      <3> SUFFICES ASSUME NEW q \in Paths
                   PROVE  /\ tree'[q].kind = "none" => tree'[q] = Absent
                          /\ tree'[q].kind = "dir" => tree'[q] = Dir
        BY <2>2 DEF Plain
      <3>1. /\ tree[q].kind = "none" => tree[q] = Absent
            /\ tree[q].kind = "dir" => tree[q] = Dir
        BY DEF LayerInv, Plain
      <3>2. tree'[q] \in {tree[q], Absent, Dir} \/ (tree'[q] = Put(e.kind) /\ e.kind \notin {"dir", "opaque", "whiteout"})
        <4>1. tree'[q] = Effect(e.kind, e.path, q) BY <2>2
        <4> HIDE DEF Put
        <4> QED BY <4>1 DEF Effect
      <3>3. Put(e.kind).kind = e.kind /\ e.kind # "none" BY <1>4 DEF Put, All, Kinds, Marks
      <3>4. Absent.kind = "none" /\ Dir.kind = "dir" BY DEF Absent, Dir
      <3> QED BY <3>1, <3>2, <3>3, <3>4
    <2>4. ASSUME Tidy' PROVE LaidSoFar'
      <3>1. Tidy /\ (e.kind \in Solo => e.path \notin Named(All))
            /\ (e.kind = "opaque" => Under(e.path) \cap Named(All) = {})
        BY <2>4, <1>1, TidyEntry
      <3>2. /\ \A p \in Paths : tree[p] = Laid(p)
            /\ \A p \in Named({"whiteout"}) : p \in whiteouts \/ tree[p] = Absent
        BY <3>1, <1>1 DEF LayerInv, LaidSoFar
      <3>p. PICK F, L, D, O, W, F1, L1, D1, O1, W1 :
              /\ F = Named({"file"}) /\ L = Named({"link"}) /\ D = Named({"dir"})
              /\ O = Named({"opaque"}) /\ W = Named({"whiteout"})
              /\ F1 = Named({"file"})' /\ L1 = Named({"link"})' /\ D1 = Named({"dir"})'
              /\ O1 = Named({"opaque"})' /\ W1 = Named({"whiteout"})'
        OBVIOUS
      <3>3. /\ F1 = F \cup (IF e.kind = "file" THEN {e.path} ELSE {})
            /\ L1 = L \cup (IF e.kind = "link" THEN {e.path} ELSE {})
            /\ D1 = D \cup (IF e.kind = "dir" THEN {e.path} ELSE {})
            /\ O1 = O \cup (IF e.kind = "opaque" THEN {e.path} ELSE {})
            /\ W1 = W \cup (IF e.kind = "whiteout" THEN {e.path} ELSE {})
        <4>1. \A k : e.kind \in {k} <=> e.kind = k OBVIOUS
        <4>2. F1 = F \cup (IF e.kind = "file" THEN {e.path} ELSE {}) BY <3>p, <4>1, <1>1, NamedGrows
        <4>3. L1 = L \cup (IF e.kind = "link" THEN {e.path} ELSE {}) BY <3>p, <4>1, <1>1, NamedGrows
        <4>4. D1 = D \cup (IF e.kind = "dir" THEN {e.path} ELSE {}) BY <3>p, <4>1, <1>1, NamedGrows
        <4>5. O1 = O \cup (IF e.kind = "opaque" THEN {e.path} ELSE {}) BY <3>p, <4>1, <1>1, NamedGrows
        <4>6. W1 = W \cup (IF e.kind = "whiteout" THEN {e.path} ELSE {}) BY <3>p, <4>1, <1>1, NamedGrows
        <4> QED BY <4>2, <4>3, <4>4, <4>5, <4>6
      <3>4. Named(All) = F \cup L \cup W \cup D \cup O BY <3>p, NamedParts DEF NamesSplit
      <3>5. /\ \A x \in F1 \cup L1 \cup W1 : \A y \in Under(x) : y \notin F1 \cup L1 \cup W1 \cup D1 \cup O1
            /\ \A k \in Solo, l \in All : k # l => Named({k})' \cap Named({l})' = {}
        <4>1. NamesApart' BY <2>4, <1>11
        <4>2. /\ Named(Solo)' = F1 \cup L1 \cup W1
              /\ Named(All)' = F1 \cup L1 \cup W1 \cup D1 \cup O1
          BY <3>p, <1>12 DEF NamesSplit
        <4> QED BY <4>1, <4>2 DEF NamesApart, Under, Ancestors, Closed
      <3>6. F1 \cap L1 = {} /\ F1 \cap D1 = {} /\ L1 \cap D1 = {}
        BY <3>5, <3>p DEF Solo, All, Kinds
      <3>7. ASSUME NEW q \in Paths PROVE tree'[q] = Laid(q)'
        <4>1. tree[q] = LaidBy(F, L, D, O, q) BY <3>2, <3>p, LaidIsBy DEF LaidByNames
        <4>2. LaidBy(F1, L1, D1, O1, q) = Effect(e.kind, e.path, q)
          <5>1. e.kind = "opaque" => \A y \in Under(e.path) : y \notin F \cup L \cup W \cup D \cup O
            BY <3>1, <3>4
          <5>2. PICK k, p : k = e.kind /\ p = e.path OBVIOUS
          <5>3. /\ Grown(F1, F, "file", k, p) /\ Grown(L1, L, "link", k, p) /\ Grown(D1, D, "dir", k, p)
                /\ Grown(O1, O, "opaque", k, p) /\ Grown(W1, W, "whiteout", k, p)
            BY <3>3, <5>2 DEF Grown
          <5>4. TidyBy(F1, L1, D1, O1, W1) BY <3>5, <3>6 DEF TidyBy
          <5>5. MarkFirst(F, L, D, O, W, k, p) BY <5>1, <5>2 DEF MarkFirst
          <5>6. k \in All /\ p \in Paths BY <5>2, <1>4
          <5>7. LaidBy(F1, L1, D1, O1, q) = Effect(k, p, q)
            BY <4>1, <5>3, <5>4, <5>5, <5>6, LaidStep
          <5> QED BY <5>2, <5>7
        <4>3. Laid(q)' = LaidBy(F1, L1, D1, O1, q)'  BY <3>p, <1>13 DEF LaidByNames
        <4>4. LaidBy(F1, L1, D1, O1, q)' = LaidBy(F1, L1, D1, O1, q)
          BY <1>1 DEF LaidBy, Put, Under, Ancestors, Closed
        <4> QED BY <4>2, <4>3, <4>4, <2>2
      <3>8. ASSUME NEW q \in W1 PROVE q \in whiteouts' \/ tree'[q] = Absent
        <4>1. q \in Paths BY <3>p, <1>2, <1>14 DEF NamesInPaths, All, Marks
        <4>2. CASE q \in W
          <5>1. q \in F1 \cup L1 \cup W1 BY <4>2, <3>3
          <5>2. whiteouts \subseteq whiteouts' BY <2>1 DEF Apply, ApplyWhiteout
          <5>3. q \in whiteouts => q \in whiteouts' BY <5>2
          <5>4. ASSUME tree[q] = Absent PROVE tree'[q] = Absent
            <6>1. e.kind \in Kinds => e.path \in F1 \cup L1 \cup D1 BY <3>3 DEF Kinds
            <6>2. e.kind \in Kinds => e.path \notin Under(q) BY <5>1, <6>1, <3>5
            <6>3. e.kind \in Kinds => q \notin Ancestors[e.path] BY <6>2, <1>4 DEF Under
            <6>4. e.kind \in Kinds => q # e.path
              <7>1. q \in W1 /\ W1 \cap F1 = {} /\ W1 \cap L1 = {} /\ W1 \cap D1 = {}
                BY <3>5, <3>p DEF Solo, All, Kinds
              <7> QED BY <7>1, <6>1
            <6>5. tree'[q] = Effect(e.kind, e.path, q) BY <4>1, <2>2
            <6> QED BY <6>3, <6>4, <6>5, <5>4, <1>4 DEF Effect, All, Marks
          <5> QED BY <3>2, <3>p, <4>2, <5>3, <5>4
        <4>3. CASE q \notin W
          <5>1. e.kind = "whiteout" /\ q = e.path BY <4>3, <3>3
          <5>2. whiteouts' = IF Exists(q) THEN whiteouts \cup {q} ELSE whiteouts
            BY <5>1, <2>1, <1>10 DEF Apply, ApplyWhiteout
          <5>3. tree'[q] = tree[q] BY <5>1, <4>1, <2>2 DEF Effect
          <5>4. ~Exists(q) => tree[q] = Absent BY <4>1 DEF LayerInv, Plain, Exists
          <5> QED BY <5>2, <5>3, <5>4
        <4> QED BY <4>2, <4>3
      <3> QED BY <3>7, <3>8, <3>p DEF LaidSoFar
    <2> QED BY <1>2, <1>6, <1>7, <1>8, <1>10, <2>3, <2>4 DEF LayerInv, Neat, Plain
  <1> QED BY <1>9, <1>10

(* The whiteouts make the tree of a tidy layer the union. *)
Whiteouts == Raze(tree, whiteouts \cup UNION {Under(p) : p \in whiteouts})
LEMMA EndIsUnion ==
  ASSUME LayerInv, unpacked = "busy", Tidy
  PROVE  Whiteouts = Union
  <1> DEFINE F == Named({"file"})
             L == Named({"link"})
             D == Named({"dir"})
             O == Named({"opaque"})
             W == Named({"whiteout"})
             gone == whiteouts \cup UNION {Under(p) : p \in whiteouts}
  <1>1. LaidSoFar /\ Neat(tree) /\ Plain(tree) /\ whiteouts \subseteq W BY DEF LayerInv
  <1>2. NamesApart /\ NamesSplit /\ LaidByNames BY TidyNames, NamedParts, LaidIsBy
  <1>3. NamesInPaths BY NamedPaths DEF LayerInv
  <1>4. W \subseteq Paths BY <1>3 DEF NamesInPaths, All, Marks
  <1>5. /\ Named(Kinds) = F \cup L \cup D
        /\ Named(Solo) = F \cup L \cup W
        /\ Named(All) = F \cup L \cup W \cup D \cup O
    BY <1>2 DEF NamesSplit
  <1>6. \A x \in F \cup L \cup W : \A y \in Under(x) : y \notin F \cup L \cup W \cup D \cup O
    BY <1>2, <1>5 DEF NamesApart
  <1>7. W \cap F = {} /\ W \cap L = {} /\ W \cap D = {} /\ F \cap L = {}
    BY <1>2 DEF NamesApart, Solo, All, Kinds
  <1>8. \A p \in Paths : tree[p] = LaidBy(F, L, D, O, p) BY <1>1, <1>2 DEF LaidSoFar, LaidByNames
  <1>9. \A p \in W : p \in whiteouts \/ tree[p] = Absent BY <1>1 DEF LaidSoFar
  <1>10. \A p \in Paths : Whiteouts[p] = IF p \in gone THEN Absent ELSE tree[p] BY DEF Whiteouts, Raze
  <1>11. \A p : p \in gone <=> p \in whiteouts \/ \E w \in whiteouts : p \in Under(w) OBVIOUS
  <1>12. \A w \in W : \A p \in Under(w) : p \in Paths BY DEF Under
  <1>13. \A p \in Paths : Hidden(p) <=>
           \/ p \in W
           \/ \E x \in Ancestors[p] : x \in W
           \/ \E x \in Ancestors[p] : x \in O \/ x \in F \/ x \in L
    <2>1. Named({"whiteout", "opaque", "file", "link"}) = W \cup O \cup F \cup L BY DEF Named
    <2> QED BY <2>1 DEF Hidden
  <1>14. \A p \in Paths : Union[p] =
           IF p \in F THEN Put("file") ELSE IF p \in L THEN Put("link")
           ELSE IF p \in D \/ \E x \in Under(p) : x \in F \/ x \in L \/ x \in D THEN Dir
           ELSE IF Hidden(p) THEN Absent ELSE below[p]
    <2> SUFFICES ASSUME NEW p \in Paths
                 PROVE  Union[p] =
                   IF p \in F THEN Put("file") ELSE IF p \in L THEN Put("link")
                   ELSE IF p \in D \/ \E x \in Under(p) : x \in F \/ x \in L \/ x \in D THEN Dir
                   ELSE IF Hidden(p) THEN Absent ELSE below[p]
      OBVIOUS
    <2>1. Under(p) \cap Named(Kinds) # {} <=> \E x \in Under(p) : x \in F \/ x \in L \/ x \in D BY <1>5
    <2>2. Union[p] =
            CASE p \in F -> Put("file")
              [] p \in L -> Put("link")
              [] p \in D \/ Under(p) \cap Named(Kinds) # {} -> Dir
              [] OTHER -> IF Hidden(p) THEN Absent ELSE below[p]
      BY DEF Union, Put
    <2>3. p \in Named(Kinds) <=> p \in F \/ p \in L \/ p \in D BY <1>5
    <2>4. p \in D \/ Under(p) \cap Named(Kinds) # {} => p \notin F /\ p \notin L
      <3>1. Under(p) \cap Named(Kinds) # {} => p \notin F /\ p \notin L BY <1>6, <2>1
      <3>2. p \in D => p \notin F /\ p \notin L
        BY <1>2 DEF NamesApart, Solo, All, Kinds
      <3> QED BY <3>1, <3>2
    <2> HIDE DEF F, L, D, O, W
    <2>5. CASE p \in F BY <2>2, <2>3, <2>4, <2>5, <1>7
    <2>6. CASE p \in L BY <2>2, <2>3, <2>4, <2>6, <1>7
    <2>7. CASE p \in D \/ Under(p) \cap Named(Kinds) # {} BY <2>1, <2>2, <2>3, <2>4, <2>7
    <2>8. CASE p \notin F /\ p \notin L /\ ~(p \in D \/ Under(p) \cap Named(Kinds) # {})
      BY <2>1, <2>2, <2>3, <2>8
    <2> QED BY <2>5, <2>6, <2>7, <2>8
  <1> HIDE DEF F, L, D, O, W, gone
  <1>15. ASSUME NEW p \in Paths PROVE Whiteouts[p] = Union[p]
    <2>0. \A x : x \in Paths => (p \in Under(x) <=> x \in Ancestors[p]) BY DEF Under
    <2>1. Ancestors[p] \subseteq Paths BY AncestorsClosed
    <2>2. CASE p \in F \/ p \in L \/ p \in D \/ \E x \in Under(p) : x \in F \/ x \in L \/ x \in D
      <3>1. p \notin W BY <2>2, <1>6, <1>7
      <3>2. ASSUME NEW w \in W, p \in Under(w) PROVE FALSE
        <4>1. \A x \in Under(p) : x \in Under(w) BY <1>4, <3>2, UnderTrans
        <4> QED BY <4>1, <3>2, <2>2, <1>6
      <3>3. p \notin gone BY <3>1, <3>2, <1>1, <1>11 DEF W
      <3>4. Whiteouts[p] = LaidBy(F, L, D, O, p) BY <3>3, <1>8, <1>10
      <3> QED BY <3>4, <2>2, <1>14 DEF LaidBy
    <2>3. CASE ~(p \in F \/ p \in L \/ p \in D \/ \E x \in Under(p) : x \in F \/ x \in L \/ x \in D)
      <3>1. Union[p] = IF Hidden(p) THEN Absent ELSE below[p] BY <2>3, <1>14
      <3>2. tree[p] = IF \E x \in Ancestors[p] : x \in O \/ x \in F \/ x \in L THEN Absent ELSE below[p]
        BY <2>3, <1>8 DEF LaidBy
      <3>3. CASE p \in W
        <4>1. p \in gone \/ tree[p] = Absent BY <3>3, <1>9, <1>11
        <4> QED BY <3>1, <3>3, <4>1, <1>10, <1>13
      <3>4. CASE \E x \in Ancestors[p] : x \in W
        <4>1. PICK w \in W : p \in Under(w) BY <3>4, <2>0, <2>1
        <4>2. CASE w \in whiteouts
          <5>1. p \in gone BY <4>1, <4>2, <1>11
          <5> QED BY <5>1, <3>1, <3>4, <1>10, <1>13
        <4>3. CASE tree[w] = Absent
          <5>1. tree[w].kind # "dir" BY <4>3 DEF Absent
          <5>2. tree[p].kind = "none" BY <4>1, <5>1, <1>1, <1>4, NothingUnder
          <5>3. tree[p] = Absent BY <5>2, <1>1 DEF Plain
          <5> QED BY <5>3, <3>1, <3>4, <1>10, <1>13
        <4> QED BY <4>2, <4>3, <1>9
      <3>5. CASE p \notin W /\ ~\E x \in Ancestors[p] : x \in W
        <4>1. p \notin gone
          <5>1. whiteouts \subseteq W /\ whiteouts \subseteq Paths BY <1>1, <1>4 DEF W
          <5> QED BY <5>1, <3>5, <2>0, <1>11
        <4> QED BY <4>1, <3>1, <3>2, <3>5, <1>10, <1>13
      <3> QED BY <3>3, <3>4, <3>5
    <2> QED BY <2>2, <2>3
  <1>16. Whiteouts = [p \in Paths |-> Whiteouts[p]] BY DEF Whiteouts, Raze
  <1>17. Union = [p \in Paths |-> Union[p]]
    <2> DEFINE U(p) ==
          CASE p \in Named({"file"}) -> [kind |-> "file", from |-> layer]
            [] p \in Named({"link"}) -> [kind |-> "link", from |-> layer]
            [] p \in Named({"dir"}) \/ Under(p) \cap Named(Kinds) # {} -> Dir
            [] OTHER -> IF Hidden(p) THEN Absent ELSE below[p]
    <2>1. Union = [p \in Paths |-> U(p)] BY DEF Union
    <2> HIDE DEF U
    <2> QED BY <2>1
  <1> QED BY <1>15, <1>16, <1>17

LEMMA SameUnion ==
  ASSUME UNCHANGED <<below, entries, layer>>
  PROVE  Union' = Union
  <1> DEFINE U(p) ==
        CASE p \in Named({"file"}) -> [kind |-> "file", from |-> layer]
          [] p \in Named({"link"}) -> [kind |-> "link", from |-> layer]
          [] p \in Named({"dir"}) \/ Under(p) \cap Named(Kinds) # {} -> Dir
          [] OTHER -> IF Hidden(p) THEN Absent ELSE below[p]
  <1>1. Union = [p \in Paths |-> U(p)] /\ Union' = [p \in Paths |-> U(p)'] BY DEF Union
  <1>2. \A k : Named(k)' = Named(k) BY DEF Named
  <1>3. \A p : Under(p)' = Under(p) BY DEF Under, Ancestors, Closed
  <1>4. \A p : Hidden(p)' <=> Hidden(p) BY <1>2 DEF Hidden, Ancestors, Closed
  <1>5. ASSUME NEW p PROVE U(p)' = U(p)
    <2>1. /\ Named({"file"})' = Named({"file"}) /\ Named({"link"})' = Named({"link"})
          /\ Named({"dir"})' = Named({"dir"}) /\ Named(Kinds)' = Named(Kinds)
      BY <1>2
    <2>2. Under(p)' = Under(p) /\ (Hidden(p)' <=> Hidden(p)) /\ below' = below /\ layer' = layer BY <1>3, <1>4
    <2> QED BY <2>1, <2>2 DEF Dir, Absent
  <1> HIDE DEF U
  <1> QED BY <1>1, <1>5

LEMMA EndKeepsLayer ==
  ASSUME LayerInv, NothingBehindLinks, EndLayer
  PROVE  LayerInv'
  <1>1. PICK at \in [whiteouts -> Paths \cup {Top}] :
          /\ \A p \in whiteouts : BehindLink(p) \/ at[p] = p
          /\ tree' = Raze(tree, WithContents({at[p] : p \in whiteouts} \ {Top}))
    BY DEF EndLayer
  <1> DEFINE ws == {at[p] : p \in whiteouts} \ {Top}
  <1>2. /\ whiteouts' = {} /\ unpacked = "busy" /\ whiteouts \subseteq Paths
        /\ ws \in SUBSET Paths
    <2>1. NamesInPaths BY NamedPaths DEF LayerInv
    <2>2. whiteouts \subseteq Paths BY <2>1 DEF LayerInv, NamesInPaths, All, Marks
    <2> QED BY <2>2 DEF EndLayer
  <1>9. ASSUME Tidy PROVE tree' = Whiteouts
    <2>1. ASSUME NEW p \in whiteouts PROVE ~BehindLink(p)
      <3> SUFFICES ASSUME NEW q \in Ancestors[p], tree[q].kind = "link" PROVE FALSE
        BY DEF BehindLink
      <3>1. PICK i, j \in DOMAIN entries : EntryAt(i, "whiteout", p) /\ EntryAt(j, "link", q)
        BY DEF NothingBehindLinks, LinkIsLater
      <3>2. q \in Named({"file", "link", "whiteout"}) /\ p \in Named(Kinds \cup Marks)
        BY <3>1 DEF EntryAt, Named, Kinds, Marks
      <3>3. p \in Under(q) BY <1>2 DEF Under
      <3> QED BY <3>2, <3>3, <1>9 DEF Tidy
    <2>2. ws = whiteouts BY <1>1, <1>2, <2>1, UnpackAssumption
    <2> HIDE DEF ws
    <2> QED BY <1>1, <2>2 DEF Whiteouts, WithContents, ws
  <1>3. Neat(tree') BY <1>1, <1>2, EndNeat DEF LayerInv
  <1>4. Plain(tree')
    <2> DEFINE gone == WithContents(ws)
    <2>1. tree' = Raze(tree, gone) BY <1>1
    <2> HIDE DEF gone
    <2>2. \A p \in Paths : tree'[p] = IF p \in gone THEN Absent ELSE tree[p] BY <2>1 DEF Raze
    <2>3. tree' = [p \in Paths |-> tree'[p]] BY <2>1 DEF Raze
    <2>4. Absent.kind = "none" BY DEF Absent
    <2>5. \A p \in Paths : /\ tree[p].kind = "none" => tree[p] = Absent
                           /\ tree[p].kind = "dir" => tree[p] = Dir
      BY DEF LayerInv, Plain
    <2> QED BY <2>2, <2>3, <2>4, <2>5 DEF Plain
  <1> HIDE DEF ws
  <1>5. CASE unpacked' = "done" /\ UNCHANGED <<below, entries, layer>>
    <2>1. TreeIsUnion'
      <3> SUFFICES ASSUME Tidy' PROVE tree' = Union' BY DEF TreeIsUnion
      <3>0. \A k : Named(k)' = Named(k) BY <1>5 DEF Named
      <3>1. Tidy BY <1>5, <3>0 DEF Tidy, Under, Ancestors, Closed
      <3>2. Union' = Union BY <1>5, SameUnion
      <3> QED BY <3>1, <3>2, <1>2, <1>9, EndIsUnion
    <2> QED BY <1>2, <1>3, <1>4, <1>5, <2>1 DEF LayerInv, Neat, Plain
  <1>6. CASE entries' = <<>> /\ below' = tree' /\ unpacked' = unpacked
    <2>1. \A k : Named(k)' = {} BY <1>6 DEF Named
    <2>5. ASSUME NEW p \in Paths PROVE tree'[p] = Laid(p)'
      <3>1. Laid(p)' = below'[p] BY <2>1 DEF Laid
      <3> QED BY <3>1, <1>6
    <2>2. LaidSoFar' BY <2>1, <2>5 DEF LaidSoFar
    <2>3. TreeIsUnion' BY <1>2, <1>6 DEF TreeIsUnion
    <2>4. entries' \in Seq(Entry) BY <1>6
    <2> QED BY <1>2, <1>3, <1>4, <2>1, <2>2, <2>3, <2>4 DEF LayerInv, Neat, Plain
  <1> QED BY <1>5, <1>6 DEF EndLayer

(* For any paths, layers and entries, an image whose last layer is one that *)
(* a builder may write leaves the union of that layer and the tree below.   *)
THEOREM TreeIsAlwaysUnion == UnpackSpec => []TreeIsUnion
  <1>1. UnpackInit => LayerInv
    <2> SUFFICES ASSUME UnpackInit PROVE LayerInv OBVIOUS
    <2>1. tree = Empty /\ below = Empty /\ entries = <<>> /\ whiteouts = {} /\ unpacked = "busy"
      BY DEF UnpackInit
    <2>2. \A k : Named(k) = {} BY <2>1 DEF Named
    <2>3. Neat(tree) /\ Plain(tree) BY <2>1 DEF Neat, Plain, Empty, Absent
    <2>4. LaidSoFar BY <2>1, <2>2 DEF LaidSoFar, Laid
    <2>5. entries \in Seq(Entry) BY <2>1
    <2> QED BY <2>1, <2>2, <2>3, <2>4, <2>5 DEF LayerInv, TreeIsUnion
  <1>2. LayerInv /\ NothingBehindLinks /\ [UnpackNext]_unpackVars => LayerInv'
    <2> SUFFICES ASSUME LayerInv, NothingBehindLinks, [UnpackNext]_unpackVars PROVE LayerInv'
      OBVIOUS
    <2>1. CASE UNCHANGED unpackVars
      <3>1. UNCHANGED <<tree, below, entries, whiteouts, layer, unpacked>> BY <2>1 DEF unpackVars
      <3>2. \A k : Named(k)' = Named(k) BY <3>1 DEF Named
      <3>3. Tidy' <=> Tidy BY <3>1, <3>2 DEF Tidy, Under, Ancestors, Closed
      <3>4. \A p \in Paths : Laid(p)' = Laid(p) BY <3>1, <3>2 DEF Laid, Put, Under, Ancestors, Closed
      <3>5. LaidSoFar' <=> LaidSoFar BY <3>1, <3>2, <3>4 DEF LaidSoFar
      <3>6. Union' = Union BY <3>1, SameUnion
      <3>7. TreeIsUnion' <=> TreeIsUnion BY <3>1, <3>3, <3>6 DEF TreeIsUnion
      <3> QED BY <3>1, <3>2, <3>3, <3>5, <3>7 DEF LayerInv, Neat, Plain
    <2>2. ASSUME NEW e \in Entry, apply_layer(e) PROVE LayerInv' BY <2>2, EntryKeepsLayer
    <2>3. CASE EndLayer BY <2>3, EndKeepsLayer
    <2> QED BY <2>1, <2>2, <2>3 DEF UnpackNext
  <1>3. LayerInv => TreeIsUnion BY DEF LayerInv
  <1> QED BY <1>1, <1>2, <1>3, NothingEverBehindLinks, PTL DEF UnpackSpec

=============================================================================
