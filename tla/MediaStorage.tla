---------------------------- MODULE MediaStorage ----------------------------
(***************************************************************************)
(* The store for pictures and videos (src/storage.rs) and the admin's      *)
(* switch between its backends (src/admin.rs, update_storage_settings). An *)
(* object has a random name, so it is put once. Objects are not moved when *)
(* the backend changes: S3 reads fall back on the local directory, a local *)
(* store never looks in a bucket.                                          *)
(***************************************************************************)
EXTENDS Integers, FiniteSets

CONSTANTS
    Objects,   \* the names of media objects
    Buckets    \* the S3 locations an admin can choose beside "local"

Backends == Buckets \cup {"local"}

VARIABLES
    backend,   \* the backend that new operations use
    places,    \* the backends that hold a copy of each object
    left,      \* ghost: the backends that were in use before this one
    survivors  \* ghost: objects a delete called gone whose local copy it could not remove
storage == <<backend, places, left, survivors>>

StorageTypeOK ==
    /\ backend \in Backends
    /\ left \subseteq Backends
    /\ places \in [Objects -> SUBSET Backends] /\ survivors \subseteq Objects

StorageInit ==
    /\ backend = "local" /\ left = {} /\ survivors = {}
    /\ places = [o \in Objects |-> {}]

(* put: to the backend that was cloned when the operation began.           *)
Put(o, via) == places' = [places EXCEPT ![o] = @ \cup {via}]

(* Mutant of Copies: no local copy is looked for once S3 is configured.    *)
OnlyBackend == {backend}

(* Where an operation looks: with_local_fallback.                          *)
Copies == {backend, "local"}

(* get, size, open_stream, get_range; a local store has one place to look. *)
Readable(o) == places[o] \cap Copies # {}

(* Mutant of Erase: the local copy of an object in S3 is forgotten.        *)
EraseThere(o) == places' = [places EXCEPT ![o] = @ \ {backend}] /\ UNCHANGED survivors

(* delete: the active backend's object and its legacy local copy; what is  *)
(* missing is deleted already.                                             *)
Erase(o) == places' = [places EXCEPT ![o] = @ \ Copies] /\ UNCHANGED survivors

(* Beside a bucket the local copy's error is dropped: delete succeeds and  *)
(* the fallback still finds it.                                            *)
EraseBucket(o) ==
    /\ backend # "local" /\ "local" \in places[o]
    /\ places' = [places EXCEPT ![o] = @ \ {backend}]
    /\ survivors' = survivors \cup {o}

(* delete answers with the backend's error; the local copy beside a bucket *)
(* may be gone all the same.                                               *)
EraseFails(o) ==
    /\ \E gone \in SUBSET (Copies \ {backend}) : places' = [places EXCEPT ![o] = @ \ gone]
    /\ UNCHANGED survivors

(* update_storage_settings: probed, saved, then replaced at once, under    *)
(* config_lock.                                                            *)
Reconfigure ==
    /\ \E b \in Backends \ {backend} : backend' = b /\ left' = left \cup {backend}
    /\ UNCHANGED <<places, survivors>>

(* Everything was always kept where the present backend looks.             *)
NothingStranded == left \subseteq {"local"}
=============================================================================
