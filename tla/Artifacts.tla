----------------------------- MODULE Artifacts ------------------------------
(***************************************************************************)
(* How a deployment comes by its root file system: the image puller and    *)
(* the layer cache (src/oci/registry.rs, src/oci/cache), the builds and    *)
(* the bundles on disk (src/artifacts/acquirer.rs), and the collector of   *)
(* unused layers that runs beside them.  Deployments run concurrently, may *)
(* want the same image and share every directory; a crash loses the        *)
(* reservations and keeps the files.  Temporary files and directories have *)
(* fresh names, nothing reads them after their deployment, and they are    *)
(* left out.                                                               *)
(***************************************************************************)
EXTENDS Naturals, Sequences, FiniteSets

CONSTANTS
  Images,       \* image digests
  LayersOf,     \* LayersOf[i]: the layers of image i, in order
  Stated,       \* Stated[i]: the size its manifest states for each of them:
                \* the "right" one, an "other" one, or none ("unstated")
  Tasks,        \* deployment permits; each has a service of its own
  Verify,       \* OciCacheVerifyMode: "none", "size" or "full"
  Epochs,       \* user-namespace ranges of the configuration
  MaxDeploys,   \* bound: deployments of a behaviour
  MaxFaults,    \* bound: restarts and damaged files
  NoArtifact

Layers == UNION {{LayersOf[i][k] : k \in DOMAIN LayersOf[i]} : i \in Images}

ASSUME ArtifactsAssumption ==
  /\ \A i \in Images : LayersOf[i] \in Seq(Layers) /\ LayersOf[i] # <<>>
  /\ \A i \in Images : Stated[i] \in Seq({"right", "other", "unstated"}) /\ Len(Stated[i]) = Len(LayersOf[i])
  /\ Verify \in {"none", "size", "full"} /\ NoArtifact \notin Images \cup Epochs
  /\ NoArtifact \notin [whole : BOOLEAN, range : Epochs] \cup [img : Images, range : Epochs]
  /\ Epochs # {} /\ MaxDeploys \in Nat /\ MaxFaults \in Nat

VARIABLES
  blob,      \* blob[l]: "none", "good", "short" (wrong size) or "rot" (right size)
  mtime,     \* mtime[l]: whether the blob file is "fresh" (or absent) or "old"
  lastref,   \* lastref[l]: the sidecar: "none", "fresh" or "old"
  reserved,  \* reserved[l]: reservations held by pulls
  layerGc,   \* the sweep: where it is, what it keeps, what it has listed
  rootfs,    \* rootfs[i]: the tree under its final name: whole, and for which range
  owner,     \* owner[i]: the range that the ownership sidecar names
  layersJson, processJson,  \* images whose bundle has these files, complete
  rewriting, \* images whose complete process.json a deployment began to overwrite
  promoted,  \* promoted[t]: what service t promotes, and the range it was made for
  task,      \* task[t]: a deployment and how far its artifact is
  epoch,     \* the range of user ids configured
  deploys, faults,
  spoiled,   \* layers whose file was damaged
  torn       \* images that two deployments wrote at once, or one for another range

cache == <<blob, mtime, lastref, reserved>>
description == <<processJson, rewriting>>
bundles == <<rootfs, owner, layersJson, description>>
history == <<epoch, deploys, faults, spoiled>>
artifactVars == <<cache, layerGc, bundles, promoted, task, history, torn>>

NoTask == [at |-> "idle", img |-> NoArtifact, k |-> 0, src |-> NoArtifact]
NoSweep == [at |-> "idle", keep |-> {}, old |-> {}, bare |-> {}, doomed |-> NoArtifact]

ArtifactsInit ==
  /\ blob = [l \in Layers |-> "none"] /\ mtime = [l \in Layers |-> "fresh"]
  /\ lastref = [l \in Layers |-> "none"] /\ reserved = [l \in Layers |-> 0]
  /\ layerGc = NoSweep
  /\ rootfs = [i \in Images |-> NoArtifact] /\ owner = [i \in Images |-> NoArtifact]
  /\ layersJson = {} /\ processJson = {} /\ rewriting = {}
  /\ promoted = [t \in Tasks |-> NoArtifact]
  /\ task = [t \in Tasks |-> NoTask]
  /\ epoch = CHOOSE e \in Epochs : TRUE
  /\ deploys = 0 /\ faults = 0 /\ spoiled = {} /\ torn = {}

At(t, where) == task[t].at = where
MoveTo(t, where) == task' = [task EXCEPT ![t].at = where]
Layer(t) == LayersOf[task[t].img][task[t].k]

(* The reservations of a pull: one per layer reached, held until it ends.   *)
(* An image may list a layer twice, and then holds it twice.                *)
Reservations(t, l) ==
  {k \in 1 .. task[t].k : task[t].src = "registry" /\ LayersOf[task[t].img][k] = l}
Held(t) == {l \in Layers : Reservations(t, l) # {}}
release_now(t) == reserved' = [l \in Layers |-> reserved[l] - Cardinality(Reservations(t, l))]

(* The deployment ends: its permit is free and its reservations are dropped. *)
Finish(t) ==
  /\ task' = [task EXCEPT ![t] = NoTask]
  /\ release_now(t) /\ UNCHANGED <<blob, mtime, lastref, layerGc, bundles, history, torn>>

Fail(t) == Finish(t) /\ UNCHANGED promoted

-----------------------------------------------------------------------------
(* The request decides how the image is had: pulled, or built from a clone  *)
(* or from an uploaded context.  Permits are alike: which of them the first *)
(* deployment takes makes no difference.                                    *)
acquire_rootfs_bundle_from_image_config(t, img, src) ==
  /\ At(t, "idle") /\ deploys < MaxDeploys
  /\ deploys = 0 => t = CHOOSE x \in Tasks : TRUE
  /\ task' = [task EXCEPT ![t] = [at |-> src, img |-> img, k |-> 0,
                                    src |-> IF src = "registry" THEN src ELSE "build"]]
  /\ deploys' = deploys + 1
  /\ UNCHANGED <<cache, layerGc, bundles, promoted, epoch, faults, spoiled, torn>>

(* The addresses behind the registry's name are looked up, checked, looked  *)
(* up again and compared; only then the manifest and the config are         *)
(* fetched.  An address is public or in one of the ranges of this host and  *)
(* its networks.                                                            *)
Addresses == {"public", "mirror", "private"}
is_blocked_registry_ip(ip) == ip = "private"
validate_resolved_registry_addrs(addrs) ==
  addrs # {} /\ ~\E ip \in addrs : is_blocked_registry_ip(ip)
validate_registry_resolution(first, second) ==
  /\ validate_resolved_registry_addrs(first) /\ validate_resolved_registry_addrs(second)
  /\ first = second

pull(t) ==
  /\ At(t, "registry")
  /\ \/ /\ \E first, second \in SUBSET Addresses : validate_registry_resolution(first, second)
        /\ task' = [task EXCEPT ![t].at = "reserve", ![t].k = 0]
        /\ UNCHANGED <<cache, layerGc, bundles, promoted, history, torn>>
     \/ Fail(t)

(* Slip: the reservation does not wait for a sweep that is under way. *)
reserve_Late(t) ==
  /\ At(t, "reserve")
  /\ LET l == LayersOf[task[t].img][task[t].k + 1] IN
     reserved' = [reserved EXCEPT ![l] = @ + 1]
  /\ task' = [task EXCEPT ![t].at = "get", ![t].k = @ + 1]
  /\ UNCHANGED <<blob, mtime, lastref, layerGc, bundles, promoted, history, torn>>

(* reserve takes the read side of the lock that a sweep walks under. *)
reserve(t) ==
  /\ At(t, "reserve") /\ layerGc.at # "walk"
  /\ LET l == LayersOf[task[t].img][task[t].k + 1] IN
     reserved' = [reserved EXCEPT ![l] = @ + 1]
  /\ task' = [task EXCEPT ![t].at = "get", ![t].k = @ + 1]
  /\ UNCHANGED <<blob, mtime, lastref, layerGc, bundles, promoted, history, torn>>

(* What a hit is verified against: the size that the descriptor in the      *)
(* pulling manifest states, or the digest.  A file of a wrong size may have *)
(* the wrong size that a manifest states.                                   *)
Stating(t) == Stated[task[t].img][task[t].k]
Mismatch(t) ==
  LET l == Layer(t) IN
  \/ Verify = "size" /\ (Stating(t) = "other" \/ (Stating(t) = "right" /\ blob[l] = "short"))
  \/ Verify = "full" /\ blob[l] \in {"short", "rot"}
Match(t) == ~Mismatch(t) \/ (Verify = "size" /\ Stating(t) = "other" /\ blob[Layer(t)] = "short")

(* The next layer of the manifest, or the bundle when there is none. *)
NextLayer(t) ==
  IF task[t].k = Len(LayersOf[task[t].img]) THEN "check" ELSE "reserve"

(* A blob that passes is used, and its sidecar is renewed; one that fails   *)
(* its verification is removed, and after it the sidecar.                   *)
get(t) ==
  /\ At(t, "get")
  /\ LET l == Layer(t) IN
     \/ /\ blob[l] # "none" /\ Match(t)
        /\ lastref' = [lastref EXCEPT ![l] = "fresh"]
        /\ MoveTo(t, NextLayer(t)) /\ UNCHANGED <<blob, mtime>>
     \/ /\ blob[l] = "none"
        /\ MoveTo(t, "fetch") /\ UNCHANGED <<blob, mtime, lastref>>
     \/ /\ blob[l] # "none" /\ Mismatch(t)
        /\ blob' = [blob EXCEPT ![l] = "none"]
        /\ mtime' = [mtime EXCEPT ![l] = "fresh"]
        /\ MoveTo(t, "unref") /\ UNCHANGED lastref
  /\ UNCHANGED <<reserved, layerGc, bundles, promoted, history, torn>>

RemoveSidecar(t) ==
  /\ At(t, "unref")
  /\ lastref' = [lastref EXCEPT ![Layer(t)] = "none"]
  /\ MoveTo(t, "fetch")
  /\ UNCHANGED <<blob, mtime, reserved, layerGc, bundles, promoted, history, torn>>

(* The layer is streamed to a temporary file and verified on the way; then  *)
(* the sidecar is renewed, and only then the blob appears.                  *)
touch_lastref(l) == lastref' = [lastref EXCEPT ![l] = "fresh"]

ensure_cached(t) ==
  /\ At(t, "fetch")
  /\ \/ touch_lastref(Layer(t)) /\ MoveTo(t, "rename")
        /\ UNCHANGED <<blob, mtime, reserved, layerGc, bundles, promoted, history, torn>>
     \/ Fail(t)

finalize_temp(t) ==
  /\ At(t, "rename")
  /\ blob' = [blob EXCEPT ![Layer(t)] = "good"]
  /\ mtime' = [mtime EXCEPT ![Layer(t)] = "fresh"]
  /\ MoveTo(t, NextLayer(t))
  /\ UNCHANGED <<lastref, reserved, layerGc, bundles, promoted, history, torn>>

-----------------------------------------------------------------------------
(* The sweep of the cache *)

(* The layers that promoted deployments name, as far as a list is there. *)
snapshot == UNION {{LayersOf[i][k] : k \in DOMAIN LayersOf[i]} :
                   i \in {j \in layersJson : \E t \in Tasks : promoted[t] # NoArtifact /\ promoted[t].img = j}}

sweep_once ==
  /\ layerGc.at = "idle"
  /\ layerGc' = [NoSweep EXCEPT !.at = "lock", !.keep = snapshot]
  /\ UNCHANGED <<cache, bundles, promoted, task, history, torn>>

(* Of the blobs that are there, those referenced and those whose sidecar is *)
(* fresh are passed over.  Ages come from this listing.                     *)
list_blobs ==
  /\ layerGc.at = "lock"
  /\ LET listed == {l \in Layers \ layerGc.keep : blob[l] # "none"} IN
     layerGc' = [NoSweep EXCEPT !.at = "walk", !.old = {l \in listed : lastref[l] = "old"},
                                              !.bare = {l \in listed : lastref[l] = "none"}]
  /\ UNCHANGED <<cache, bundles, promoted, task, history, torn>>

(* A blob that had no sidecar is judged by its own age, when its turn comes. *)
Expired(l) == l \in layerGc.old \/ mtime[l] = "old"

(* One that is still there, old and reserved by no pull is doomed; it is    *)
(* removed a moment later, and its sidecar.                                 *)
Collect(l) ==
  /\ layerGc.at = "walk" /\ layerGc.doomed = NoArtifact /\ l \in layerGc.old \cup layerGc.bare
  /\ layerGc' = [layerGc EXCEPT !.old = @ \ {l}, !.bare = @ \ {l},
                      !.doomed = IF reserved[l] > 0 \/ ~Expired(l) \/ blob[l] = "none"
                                 THEN NoArtifact ELSE l]
  /\ UNCHANGED <<cache, bundles, promoted, task, history, torn>>

RemoveDoomed ==
  /\ layerGc.doomed # NoArtifact
  /\ blob' = [blob EXCEPT ![layerGc.doomed] = "none"]
  /\ lastref' = [lastref EXCEPT ![layerGc.doomed] = "none"]
  /\ mtime' = [mtime EXCEPT ![layerGc.doomed] = "fresh"]
  /\ layerGc' = [layerGc EXCEPT !.doomed = NoArtifact]
  /\ UNCHANGED <<reserved, bundles, promoted, task, history, torn>>

EndSweep ==
  /\ layerGc.at = "walk" /\ layerGc.old \cup layerGc.bare = {} /\ layerGc.doomed = NoArtifact
  /\ layerGc' = NoSweep
  /\ UNCHANGED <<cache, bundles, promoted, task, history, torn>>

gc_run_until_shutdown == sweep_once \/ list_blobs \/ (\E l \in Layers : Collect(l)) \/ RemoveDoomed \/ EndSweep

-----------------------------------------------------------------------------
(* Builds.  A clone, a checkout, a path outside the context, the builder or *)
(* the reading of its output may fail; a build does not touch the cache.    *)
Build(t, src) ==
  /\ At(t, src)
  /\ \/ MoveTo(t, "check") /\ UNCHANGED <<cache, layerGc, bundles, promoted, history, torn>>
     \/ Fail(t)

acquire_git(t) == Build(t, "git")
acquire_staged(t) == Build(t, "upload")

(* write_bundle: what is there, and is it owned for this configuration? *)
Writing(t) ==
  task[t].at \in {"raze", "razing", "unpack", "install", "spoilt", "own", "layers", "process", "writing"}

(* Slip: an existing tree is taken as it is. *)
rootfs_ownership_sidecar_matches_Always(i) == TRUE

rootfs_ownership_sidecar_matches(i) == owner[i] = epoch

CheckRootfs(t) ==
  /\ At(t, "check")
  /\ LET i == task[t].img IN
     /\ MoveTo(t, IF rootfs[i] = NoArtifact THEN "unpack"
                ELSE IF rootfs_ownership_sidecar_matches(i) THEN "layers" ELSE "raze")
     /\ torn' = IF \E s \in Tasks \ {t} : task[s].img = i /\ Writing(s)
                THEN torn \cup {i} ELSE torn
  /\ UNCHANGED <<cache, layerGc, bundles, promoted, history>>

(* A tree of another range is given back and removed file by file: what a   *)
(* failure or a crash leaves of it is still there under its name.           *)
RazeRootfs(t) ==
  /\ At(t, "raze")
  /\ LET i == task[t].img IN
     \/ /\ rootfs[i] # NoArtifact
        /\ rootfs' = [rootfs EXCEPT ![i].whole = FALSE]
        /\ torn' = IF owner[i] = NoArtifact THEN torn ELSE torn \cup {i}
        /\ MoveTo(t, "razing")
        /\ UNCHANGED <<cache, layerGc, owner, layersJson, description, promoted, history>>
     \/ Fail(t)

RazedRootfs(t) ==
  /\ At(t, "razing")
  /\ \/ /\ rootfs' = [rootfs EXCEPT ![task[t].img] = NoArtifact]
        /\ MoveTo(t, "unpack")
        /\ UNCHANGED <<cache, layerGc, owner, layersJson, description, promoted, history, torn>>
     \/ Fail(t)

(* The layers are opened one after the other and laid on top of each other  *)
(* in a staging directory; a damaged one fails to decode, or does not.      *)
unpack(t) ==
  /\ At(t, "unpack")
  /\ \/ /\ \A l \in Held(t) : blob[l] # "none"
        /\ MoveTo(t, IF \A l \in Held(t) : blob[l] = "good" THEN "install" ELSE "spoilt")
        /\ UNCHANGED <<cache, layerGc, bundles, promoted, history, torn>>
     \/ Fail(t)

(* The staged tree, given to the configured range, is renamed.  Onto a      *)
(* directory that is not empty this fails, with the error that the code     *)
(* expects or with another one.                                             *)
InstallRootfs(t) ==
  /\ task[t].at \in {"install", "spoilt"}
  /\ LET i == task[t].img IN
     \/ /\ rootfs' = IF rootfs[i] # NoArtifact THEN rootfs
                     ELSE [rootfs EXCEPT ![i] = [whole |-> At(t, "install"), range |-> epoch]]
        /\ MoveTo(t, "own")
        /\ UNCHANGED <<cache, layerGc, owner, layersJson, description, promoted, history, torn>>
     \/ Fail(t)

write_rootfs_ownership_sidecar(t) ==
  /\ At(t, "own")
  /\ \/ /\ owner' = [owner EXCEPT ![task[t].img] = epoch]
        /\ MoveTo(t, "layers")
        /\ UNCHANGED <<cache, layerGc, rootfs, layersJson, description, promoted, history, torn>>
     \/ Fail(t)

(* layers.json is renamed from a name that two writers of a bundle share;   *)
(* that may fail, and so may its writing.                                   *)
WriteLayers(t) ==
  /\ At(t, "layers")
  /\ \/ /\ layersJson' = layersJson \cup {task[t].img}
        /\ MoveTo(t, "process")
        /\ UNCHANGED <<cache, layerGc, rootfs, owner, description, promoted, history, torn>>
     \/ Fail(t)

(* The user and the program of process.json are looked up in the tree; then *)
(* the file is opened, which empties the one that is there, ...             *)
rootfs_bundle_from_oci_config(t) ==
  /\ At(t, "process")
  /\ LET i == task[t].img IN
     \/ /\ rootfs[i] # NoArtifact
        /\ processJson' = processJson \ {i}
        /\ rewriting' = IF i \in processJson THEN rewriting \cup {i} ELSE rewriting
        /\ MoveTo(t, "writing")
        /\ UNCHANGED <<cache, layerGc, rootfs, owner, layersJson, promoted, history, torn>>
     \/ Fail(t)

(* ... and written.  Nothing puts back what a write that fails has emptied. *)
WriteProcess(t) ==
  /\ At(t, "writing")
  /\ LET i == task[t].img IN
     \/ /\ processJson' = processJson \cup {i} /\ rewriting' = rewriting \ {i}
        /\ task' = [task EXCEPT ![t].at = "acquired", ![t].k = 0]
        /\ release_now(t)
        /\ UNCHANGED <<blob, mtime, lastref, layerGc, rootfs, owner, layersJson, promoted, history, torn>>
     \/ Fail(t)

(* The rest of the deployment (module Deploy): it is promoted, or it fails. *)
Promote(t) ==
  /\ At(t, "acquired")
  /\ \/ /\ promoted' = [promoted EXCEPT ![t] = [img |-> task[t].img, range |-> epoch]]
        /\ Finish(t)
     \/ Fail(t)

-----------------------------------------------------------------------------
(* Time, decay and crashes *)
AgeLayer(l) ==
  /\ lastref[l] = "fresh" \/ (blob[l] # "none" /\ mtime[l] = "fresh")
  /\ lastref' = [lastref EXCEPT ![l] = IF @ = "fresh" THEN "old" ELSE @]
  /\ mtime' = [mtime EXCEPT ![l] = IF blob[l] = "none" THEN @ ELSE "old"]
  /\ UNCHANGED <<blob, reserved, layerGc, bundles, promoted, task, history, torn>>

Decay(l, how) ==
  /\ blob[l] = "good" /\ blob' = [blob EXCEPT ![l] = how]
  /\ faults < MaxFaults /\ faults' = faults + 1 /\ spoiled' = spoiled \cup {l}
  /\ UNCHANGED <<mtime, lastref, reserved, layerGc, bundles, promoted, task, epoch, deploys, torn>>

(* The configuration may be edited while the daemon is down. *)
Crash ==
  /\ faults < MaxFaults /\ faults' = faults + 1
  /\ task' = [t \in Tasks |-> NoTask]
  /\ reserved' = [l \in Layers |-> 0] /\ layerGc' = NoSweep
  /\ epoch' \in Epochs
  /\ UNCHANGED <<blob, mtime, lastref, bundles, promoted, deploys, spoiled, torn>>

-----------------------------------------------------------------------------
Acquire(t) ==
  \/ pull(t) \/ reserve(t) \/ get(t) \/ RemoveSidecar(t) \/ ensure_cached(t) \/ finalize_temp(t)
  \/ acquire_git(t) \/ acquire_staged(t)
  \/ CheckRootfs(t) \/ RazeRootfs(t) \/ RazedRootfs(t) \/ unpack(t) \/ InstallRootfs(t)
  \/ write_rootfs_ownership_sidecar(t) \/ WriteLayers(t)
  \/ rootfs_bundle_from_oci_config(t) \/ WriteProcess(t) \/ Promote(t)

ArtifactsNext ==
  \/ \E t \in Tasks :
       \/ \E i \in Images, src \in {"registry", "git", "upload"} :
            acquire_rootfs_bundle_from_image_config(t, i, src)
       \/ Acquire(t)
  \/ gc_run_until_shutdown
  \/ \E l \in Layers : AgeLayer(l) \/ (\E how \in {"short", "rot"} : Decay(l, how))
  \/ Crash

ArtifactsSpec == ArtifactsInit /\ [][ArtifactsNext]_artifactVars

-----------------------------------------------------------------------------
(* Layers for which two parties may disagree: the file was damaged, or some *)
(* manifest states another size for the digest, and a pull of that manifest *)
(* removes the good blob from under everyone (LayerCache::get).             *)
Disputed == {l \in Layers : Verify = "size" /\ \E i \in Images : \E k \in DOMAIN LayersOf[i] :
                               LayersOf[i][k] = l /\ Stated[i][k] = "other"}
Exempt == spoiled \cup Disputed

(* "while held, the GC will not delete the named blob" (CacheReservation):  *)
(* every layer that a pull has obtained is there until the pull has         *)
(* unpacked it, whatever sweeps, other pulls and time do.  A reservation    *)
(* holds against the sweep alone: the exception is a layer that another     *)
(* pull may take for a damaged one, or that is.                             *)
HeldLayersStay ==
  \A t \in Tasks :
    task[t].src = "registry" /\ task[t].at \in {"reserve", "check", "raze", "razing", "unpack"} =>
      \A l \in Held(t) \ Exempt : blob[l] # "none"

(* What a service promotes can be launched: its bundle holds a whole tree,  *)
(* owned by the configured range of user ids, and a process description,    *)
(* through crashes and full disks at any step of any deployment, sweeps and *)
(* deployments of the same image, as long as no two deployments write the   *)
(* image's bundle at once and the range it was promoted with is the one     *)
(* configured.  The description is written in place: what else can take it  *)
(* away is a later deployment of the image that began to overwrite it and   *)
(* has not ended, or ended before it had.                                   *)
PromotedIsLaunchable ==
  \A t \in Tasks :
    promoted[t] # NoArtifact =>
      LET i == promoted[t].img IN
      i \notin torn /\ promoted[t].range = epoch =>
        /\ i \in processJson \cup rewriting /\ rootfs[i] # NoArtifact /\ rootfs[i].range = epoch
        /\ rootfs[i].whole \/ \E k \in DOMAIN LayersOf[i] : LayersOf[i][k] \in spoiled
=============================================================================
