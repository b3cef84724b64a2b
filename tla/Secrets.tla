------------------------------ MODULE Secrets -------------------------------
(***************************************************************************)
(* Registry credentials: the rows of src/repo/sqlite/registries.rs, the    *)
(* encrypted files of src/secrets.rs, the handlers of                      *)
(* src/api/registries.rs that write both, and resolve_external_auth, by    *)
(* which a deployment or a job reads both.  A file is written in place and *)
(* the plaintext goes through a temporary file named after the reference,  *)
(* so that requests on one registry share both.  A payload remembers the   *)
(* registry it was supplied for.  References and registries are numbers    *)
(* that are never given twice.                                             *)
(***************************************************************************)
EXTENDS Naturals, FiniteSets

CONSTANTS Requesters, MaxRegistries, MaxRefs, MaxMishaps, MaxRequests

ASSUME SecretsAssumption ==
  {MaxRegistries, MaxRefs, MaxMishaps, MaxRequests} \subseteq Nat

VARIABLES
  regRows,    \* the rows by registry: kind and reference
  regs, refs, \* how many registries and references were given
  plain,      \* plain[f]: the temporary file of reference f
  sealed,     \* sealed[f]: the encrypted file of reference f
  named,      \* the registries that stored services name
  reqs,       \* reqs[c]: the request of c, with the file it has read
  leftover,   \* references whose temporary file a mishap left behind
  mishaps,    \* how many requests were cut short
  asked       \* how many requests were made

secretVars == <<regRows, regs, refs, plain, sealed, named, reqs, leftover, mishaps, asked>>

Refs == 1..MaxRefs
NoRef == 0
Missing == [state |-> "missing"]
Torn == [state |-> "torn"]
Content(payload) == [state |-> "whole", payload |-> payload]
Written(file, content) == IF file = Missing THEN Missing ELSE content
NoRequest == [pc |-> "none", verb |-> "none", reg |-> 0, kind |-> "anonymous", ref |-> NoRef, file |-> Missing]

SecretsInit ==
  /\ regRows = [r \in {} |-> 0] /\ regs = 0 /\ refs = 0
  /\ plain = [f \in Refs |-> Missing] /\ sealed = [f \in Refs |-> Missing]
  /\ named = {} /\ reqs = [c \in Requesters |-> NoRequest] /\ leftover = {}
  /\ mishaps = 0 /\ asked = 0

RegAt(c, pc) == reqs[c].pc = pc
Ask(c) == reqs[c] = NoRequest /\ asked < MaxRequests /\ asked' = asked + 1
Move(c, pc) == reqs' = [reqs EXCEPT ![c].pc = pc]
Respond(c) == reqs' = [reqs EXCEPT ![c] = NoRequest]

-----------------------------------------------------------------------------
(* The inputs: no credential, a pair of user and password, or a token. *)
Kinds == {"anonymous", "basic", "token"}

(* What resolve_registry_auth makes of a payload: a pair is split, a token  *)
(* is taken as it is.                                                       *)
resolve_registry_auth(kind, file) ==
  \/ kind = "anonymous"
  \/ file.state = "whole" /\ (kind = "basic" => file.payload.form = "basic")

(* Slip: one reference per prefix. *)
generate_Prefix == 1

(* SecretRef::generate *)
generate == refs + 1

(* create_registry: a credential is encrypted first, and then the row is    *)
(* made.                                                                    *)
create_registry(c, kind) ==
  /\ Ask(c) /\ regs < MaxRegistries /\ (kind # "anonymous" => refs < MaxRefs)
  /\ regs' = regs + 1
  /\ refs' = IF kind = "anonymous" THEN refs ELSE refs + 1
  /\ reqs' = [reqs EXCEPT ![c] =
       [pc |-> IF kind = "anonymous" THEN "store" ELSE "open", verb |-> "create", reg |-> regs + 1,
        kind |-> kind, ref |-> IF kind = "anonymous" THEN NoRef ELSE generate, file |-> Missing]]
  /\ UNCHANGED <<regRows, plain, sealed, named, leftover, mishaps>>

(* update_registry_handler: the row is read, and an old reference is used   *)
(* again, or its file deleted.                                              *)
update_registry(c, r, kind) ==
  /\ Ask(c) /\ r \in DOMAIN regRows
  /\ LET old == regRows[r].ref
         fresh == kind # "anonymous" /\ old = NoRef IN
       /\ fresh => refs < MaxRefs
       /\ refs' = IF fresh THEN refs + 1 ELSE refs
       /\ reqs' = [reqs EXCEPT ![c] =
            [pc |-> CASE kind # "anonymous" -> "open"
                      [] kind = "anonymous" /\ old # NoRef -> "clear"
                      [] OTHER -> "store",
             verb |-> "update", reg |-> r, kind |-> kind,
             ref |-> IF fresh THEN generate ELSE old, file |-> Missing]]
  /\ UNCHANGED <<regRows, regs, plain, sealed, named, leftover, mishaps>>

-----------------------------------------------------------------------------
(* encrypt.  Both files are opened with truncation and then written; a      *)
(* write of the plaintext that fails returns at once.  What is written to a *)
(* file that another request has unlinked since is lost.                    *)
write_file_mode(c) ==
  \/ /\ RegAt(c, "open") /\ plain' = [plain EXCEPT ![reqs[c].ref] = Torn] /\ Move(c, "write")
     /\ UNCHANGED <<sealed, leftover, mishaps>>
  \/ /\ RegAt(c, "write") /\ Move(c, "sops")
     /\ plain' = [plain EXCEPT ![reqs[c].ref] =
                    Written(@, Content([reg |-> reqs[c].reg, form |-> reqs[c].kind]))]
     /\ UNCHANGED <<sealed, leftover, mishaps>>
  \/ /\ RegAt(c, "write") /\ mishaps < MaxMishaps /\ mishaps' = mishaps + 1 /\ Respond(c)
     /\ leftover' = leftover \cup {reqs[c].ref} /\ UNCHANGED <<plain, sealed>>

(* sops reads whatever the temporary file holds by now. *)
Sops(c) ==
  /\ RegAt(c, "sops")
  /\ reqs' = [reqs EXCEPT ![c] =
       IF plain[@.ref].state = "whole" THEN [@ EXCEPT !.pc = "seal", !.file = plain[reqs[c].ref]]
       ELSE [@ EXCEPT !.pc = "give up"]]
  /\ UNCHANGED <<plain, sealed, leftover, mishaps>>

SopsFails(c) ==
  /\ RegAt(c, "sops") /\ Move(c, "give up") /\ UNCHANGED <<plain, sealed, leftover, mishaps>>

Seal(c) ==
  \/ /\ RegAt(c, "seal") /\ sealed' = [sealed EXCEPT ![reqs[c].ref] = Torn]
     /\ \E next \in {"fill", "give up"} : Move(c, next)
     /\ UNCHANGED <<plain, leftover, mishaps>>
  \/ /\ RegAt(c, "fill") /\ sealed' = [sealed EXCEPT ![reqs[c].ref] = Written(@, reqs[c].file)]
     /\ Move(c, "unlink")
     /\ UNCHANGED <<plain, leftover, mishaps>>

(* The plaintext is removed, encrypted or not. *)
Unlink(c) ==
  /\ \/ RegAt(c, "unlink") /\ Move(c, "store")
     \/ RegAt(c, "give up") /\ Respond(c)
  /\ plain' = [plain EXCEPT ![reqs[c].ref] = Missing]
  /\ UNCHANGED <<sealed, leftover, mishaps>>

encrypt(c) ==
  /\ write_file_mode(c) \/ Sops(c) \/ SopsFails(c) \/ Seal(c) \/ Unlink(c)
  /\ UNCHANGED <<regRows, regs, refs, named>>

(* delete, for a registry that becomes anonymous or is gone. *)
delete(c) ==
  /\ RegAt(c, "clear")
  /\ sealed' = [sealed EXCEPT ![reqs[c].ref] = Missing]
  /\ reqs' = [reqs EXCEPT ![c] = IF @.verb = "delete" THEN NoRequest
                                 ELSE [@ EXCEPT !.pc = "store", !.ref = NoRef]]
  /\ UNCHANGED <<regRows, regs, refs, plain, named, leftover, mishaps>>

(* Registry::new checks name and endpoint only now, and a name may be       *)
(* taken.  An update finds the row or fails.                                *)
create_registry_q(r, row) == regRows' = [q \in DOMAIN regRows \cup {r} |-> IF q = r THEN row ELSE regRows[q]]
update_registry_q(r, row) == r \in DOMAIN regRows /\ regRows' = [regRows EXCEPT ![r] = row]

Store(c) ==
  /\ RegAt(c, "store") /\ Respond(c)
  /\ \/ LET row == [kind |-> reqs[c].kind, ref |-> reqs[c].ref] IN
        IF reqs[c].verb = "create" THEN create_registry_q(reqs[c].reg, row)
        ELSE update_registry_q(reqs[c].reg, row)
     \/ UNCHANGED regRows
  /\ UNCHANGED <<regs, refs, plain, sealed, named, leftover, mishaps>>

-----------------------------------------------------------------------------
(* delete_registry_handler: the row it read says which file goes with it. *)
ReadRegistry(c, r) ==
  /\ Ask(c) /\ r \in DOMAIN regRows
  /\ reqs' = [reqs EXCEPT ![c] = [pc |-> "drop", verb |-> "delete", reg |-> r,
                                  kind |-> regRows[r].kind, ref |-> regRows[r].ref, file |-> Missing]]
  /\ UNCHANGED <<regRows, regs, refs, plain, sealed, named, leftover, mishaps>>

(* Refused while a service names the registry. *)
delete_registry_q(c) ==
  /\ RegAt(c, "drop")
  /\ IF reqs[c].reg \in DOMAIN regRows /\ reqs[c].reg \notin named
     THEN /\ regRows' = [q \in DOMAIN regRows \ {reqs[c].reg} |-> regRows[q]]
          /\ IF reqs[c].ref = NoRef THEN Respond(c) ELSE Move(c, "clear")
     ELSE Respond(c) /\ UNCHANGED regRows
  /\ UNCHANGED <<regs, refs, plain, sealed, named, leftover, mishaps>>

(* put_service, of a service whose image comes from r. *)
NameRegistry(r) ==
  /\ r \in DOMAIN regRows /\ r \notin named /\ named' = named \cup {r}
  /\ UNCHANGED <<regRows, regs, refs, plain, sealed, reqs, leftover, mishaps>>

(* resolve_external_auth: the row, then the file. *)
registry_q(c, r) ==
  /\ Ask(c) /\ r \in named
  /\ IF r \in DOMAIN regRows
     THEN reqs' = [reqs EXCEPT ![c] = [pc |-> "decrypt", verb |-> "deploy", reg |-> r,
                                       kind |-> regRows[r].kind, ref |-> regRows[r].ref, file |-> Missing]]
     ELSE UNCHANGED reqs
  /\ UNCHANGED <<regRows, regs, refs, plain, sealed, named, leftover, mishaps>>

decrypt(c) ==
  /\ RegAt(c, "decrypt")
  /\ LET file == IF reqs[c].ref = NoRef THEN Missing ELSE sealed[reqs[c].ref] IN
     IF (reqs[c].ref # NoRef => file.state = "whole") /\ resolve_registry_auth(reqs[c].kind, file)
     THEN reqs' = [reqs EXCEPT ![c] = [@ EXCEPT !.pc = "pull", !.file = file]]
     ELSE Respond(c)
  /\ UNCHANGED <<regRows, regs, refs, plain, sealed, named, leftover, mishaps>>

Pulled(c) ==
  /\ RegAt(c, "pull") /\ Respond(c)
  /\ UNCHANGED <<regRows, regs, refs, plain, sealed, named, leftover, mishaps>>

(* The client goes away, or the daemon stops: the request ends where it is. *)
Cut(c) ==
  /\ reqs[c] # NoRequest /\ mishaps < MaxMishaps /\ mishaps' = mishaps + 1 /\ Respond(c)
  /\ leftover' = IF reqs[c].ref = NoRef THEN leftover ELSE leftover \cup {reqs[c].ref}
  /\ UNCHANGED <<regRows, regs, refs, plain, sealed, named>>

SecretsNext ==
  \/ \E c \in Requesters :
       \/ \E kind \in Kinds : create_registry(c, kind) \/ \E r \in 1..regs : update_registry(c, r, kind)
       \/ \E r \in 1..regs : ReadRegistry(c, r) \/ registry_q(c, r)
       \/ UNCHANGED asked /\
            (encrypt(c) \/ delete(c) \/ Store(c) \/ delete_registry_q(c) \/ decrypt(c) \/ Pulled(c) \/ Cut(c))
  \/ UNCHANGED asked /\ \E r \in 1..regs : NameRegistry(r)

SecretsSpec == SecretsInit /\ [][SecretsNext]_secretVars

-----------------------------------------------------------------------------
(* However requests on registries overlap and fail, a pull from a registry  *)
(* uses a credential that was supplied for that registry, and none that is  *)
(* half written.                                                            *)
CredentialIsItsOwn ==
  \A c \in Requesters : RegAt(c, "pull") /\ reqs[c].kind # "anonymous" =>
    reqs[c].file.state = "whole" /\ reqs[c].file.payload.reg = reqs[c].reg

(* Plaintext lies on the disk only while some request encrypts it, unless   *)
(* one was cut short, or could not write it.                                *)
PlaintextIsBrief ==
  \A f \in Refs : plain[f] # Missing =>
    \/ f \in leftover
    \/ \E c \in Requesters : reqs[c] # NoRequest /\ reqs[c].ref = f
         /\ reqs[c].pc \in {"open", "write", "sops", "seal", "fill", "unlink", "give up"}
=============================================================================
