------------------------------- MODULE Images -------------------------------
(***************************************************************************)
(* Image files and the rows that name them: product pictures               *)
(* (server/src/product-images, products/product-images.controller.ts) and  *)
(* the photos kept with a bill (server/src/sale-photos).  A file is named   *)
(* by the hash of its bytes, so two uploads of one picture share it; it is  *)
(* written before the transaction that refers to it and removed after the   *)
(* one that stops referring to it, and an import sweeps what is left.       *)
(* The two variants of a file are written and removed together here.       *)
(***************************************************************************)
EXTENDS Naturals, Sequences, FiniteSets, Absent

CONSTANTS
    Catalogue,          \* product ids
    Bills,              \* sale ids
    PhotoIds,           \* ids the till gives its photos
    Pictures,           \* the pictures there are: a key is the hash of one
    Uploads,            \* slots for uploads under way
    MaxWaiting,         \* IMAGE_SLOT_MAX_WAITING
    MaxPhotos,          \* MAX_SALE_PHOTOS
    Grace,              \* ORPHAN_GRACE_MS, in ticks
    LastTick,
    MaxWork            \* how many uploads and imports there are

PictureUpload == [store : {"product-images"}, target : Catalogue, key : Pictures,
                  step : {"slot", "written"}, created : BOOLEAN]
PhotoUpload == [store : {"sale-photos"}, target : Bills \X PhotoIds, key : Pictures,
                step : {"slot", "written", "counted"}, created : BOOLEAN]

ASSUME ImagesAssumption ==
    /\ {MaxWaiting, MaxPhotos, Grace, LastTick, MaxWork} \subseteq Nat
    /\ None \notin Catalogue \cup Bills \cup PhotoIds \cup Pictures \cup PictureUpload \cup PhotoUpload

VARIABLES
    tick,           \* the time
    file,           \* <<store, key>> -> when the file was last written, or None
    imageOf,        \* product -> its image_key, or None
    listed,         \* the products that are not deleted
    photo,          \* photo id -> the row [sale, key], or None
    upload,         \* slot -> the upload in it, or None
    slotQueue,      \* the uploads in the decoder's slot, the running one first
    cleanups,       \* removals under way
    job,            \* the import under way, or None
    done,           \* history: <<target, key>> of the uploads that committed
    raced,          \* history: files removed while the same picture was being uploaded or imported
    begun           \* how many uploads and imports there were

imageVars == <<tick, file, imageOf, listed, photo, upload, slotQueue, cleanups, job, done, raced, begun>>
rowVars == <<imageOf, listed, photo, done>>

Stores == {"product-images", "sale-photos"}
Files == Stores \X Pictures
Targets(store) == IF store = "product-images" THEN Catalogue ELSE Bills \X PhotoIds

ImagesInit ==
    /\ tick = 0 /\ file = [f \in Files |-> None]
    /\ imageOf = [p \in Catalogue |-> None] /\ listed = Catalogue
    /\ photo = [h \in PhotoIds |-> None]
    /\ upload = [u \in Uploads |-> None] /\ slotQueue = <<>> /\ cleanups = {} /\ job = None
    /\ done = {} /\ raced = {} /\ begun = 0

-----------------------------------------------------------------------------
(* Files *)

\* Soft-deleted products still name their image.
\* Mutant: only the products on sale are looked at.
IsReferencedListed(f) ==
    IF f[1] = "product-images" THEN \E p \in listed : imageOf[p] = f[2]
    ELSE \E h \in PhotoIds : photo[h] # None /\ photo[h].key = f[2]
IsReferenced(f) ==
    IF f[1] = "product-images" THEN \E p \in Catalogue : imageOf[p] = f[2]
    ELSE \E h \in PhotoIds : photo[h] # None /\ photo[h].key = f[2]

\* An upload, or an import, that wrote its file and has not committed.
InFlight(f) ==
    \/ \E u \in Uploads : upload[u] # None /\ upload[u].step \in {"written", "counted"}
                         /\ <<upload[u].store, upload[u].key>> = f
    \/ job # None /\ ~ job.committed /\ f[1] = "product-images" /\ f[2] \in job.keys \ job.left

\* Every write refreshes the file's time; a removal decided before it overlaps it.
WriteImageFiles(f) ==
    /\ file' = [file EXCEPT ![f] = tick] /\ raced' = raced \ {f}
    /\ cleanups' = {IF c.file = f THEN [c EXCEPT !.raced = TRUE] ELSE c : c \in cleanups}

\* A file written within the grace period is spared, unless this very request made it.
IsStale(f) == file[f] # None /\ file[f] + Grace <= tick

\* A removal is asked for, decided by its own read, and done.
Cleanup(f, fresh) == [file |-> f, fresh |-> fresh, step |-> "asked", raced |-> FALSE]

ReadReferences(c) ==
    /\ c \in cleanups /\ c.step = "asked"
    /\ cleanups' = (cleanups \ {c}) \cup
          (IF IsReferenced(c.file) THEN {} ELSE {[c EXCEPT !.step = "doomed", !.raced = InFlight(c.file)]})
    /\ UNCHANGED <<tick, file, rowVars, upload, slotQueue, job, raced, begun>>

RemoveFiles(c) ==
    /\ c \in cleanups /\ c.step = "doomed" /\ cleanups' = cleanups \ {c}
    /\ IF c.fresh \/ IsStale(c.file) THEN
          /\ file' = [file EXCEPT ![c.file] = None]
          /\ raced' = IF c.raced \/ InFlight(c.file) THEN raced \cup {c.file} ELSE raced
       ELSE UNCHANGED <<file, raced>>
    /\ UNCHANGED <<tick, rowVars, upload, slotQueue, job, begun>>

-----------------------------------------------------------------------------
(* Uploads *)

\* withImageSlot: one decode at a time; an upload behind too many is refused at once and
\* leaves nothing behind.
BeginUpload(u, store, target, key) ==
    /\ upload[u] = None /\ begun < MaxWork /\ begun' = begun + 1
    /\ Len(slotQueue) = 0 \/ Len(slotQueue) - 1 < MaxWaiting
    /\ target \in Targets(store)
    /\ upload' = [upload EXCEPT ![u] = [store |-> store, target |-> target, key |-> key, step |-> "slot", created |-> FALSE]]
    /\ slotQueue' = Append(slotQueue, u)
    /\ UNCHANGED <<tick, file, rowVars, cleanups, job, raced>>

\* What is no image, or not one sharp decodes, frees the slot and writes nothing.
NotAnImage(u) ==
    /\ slotQueue # <<>> /\ Head(slotQueue) = u /\ slotQueue' = Tail(slotQueue)
    /\ upload' = [upload EXCEPT ![u] = None]
    /\ UNCHANGED <<tick, file, rowVars, cleanups, job, raced, begun>>

\* prepareImage, preparePhoto: decode, then both files, before any transaction.
Prepare(u) ==
    /\ slotQueue # <<>> /\ Head(slotQueue) = u /\ slotQueue' = Tail(slotQueue)
    /\ LET f == <<upload[u].store, upload[u].key>> IN
       /\ WriteImageFiles(f)
       /\ upload' = [upload EXCEPT ![u] = [@ EXCEPT !.step = "written", !.created = (file[f] = None)]]
    /\ UNCHANGED <<tick, rowVars, job, begun>>

\* settleImage, settlePhoto: the write is over, and if nothing refers to its file it goes.
Settle(u, previous) ==
    /\ upload' = [upload EXCEPT ![u] = None]
    /\ cleanups' = cleanups \cup {Cleanup(<<upload[u].store, upload[u].key>>, upload[u].created)}
                   \cup {Cleanup(<<upload[u].store, k>>, FALSE) : k \in previous}

\* setImageIn: the row locked, the new key, and the old one's files once it has committed.
Previous(p, key) == IF imageOf[p] \in {None, key} THEN {} ELSE {imageOf[p]}
SetImage(u) ==
    /\ upload[u] # None /\ upload[u].step = "written" /\ upload[u].store = "product-images"
    /\ LET p == upload[u].target
           key == upload[u].key IN
       /\ p \in listed
       /\ imageOf' = [imageOf EXCEPT ![p] = key]
       /\ done' = done \cup {<<p, key>>}
       /\ Settle(u, Previous(p, key))
    /\ UNCHANGED <<tick, file, listed, photo, slotQueue, job, raced, begun>>

\* attachIn: the bill's row is locked, so its photos are counted once at a time.
\* Mutant: the bill is not locked.
BillFreeAlways(s) == TRUE
BillFree(s) == \A u \in Uploads : upload[u] # None /\ upload[u].step = "counted" => upload[u].target[1] # s
PhotosOf(s) == {h \in PhotoIds : photo[h] # None /\ photo[h].sale = s}
CountPhotos(u) ==
    /\ upload[u] # None /\ upload[u].step = "written" /\ upload[u].store = "sale-photos"
    /\ BillFree(upload[u].target[1])
    /\ photo[upload[u].target[2]] = None
    /\ Cardinality(PhotosOf(upload[u].target[1])) < MaxPhotos
    /\ upload' = [upload EXCEPT ![u] = [@ EXCEPT !.step = "counted"]]
    /\ UNCHANGED <<tick, file, rowVars, slotQueue, cleanups, job, raced, begun>>
Attach(u) ==
    /\ upload[u] # None /\ upload[u].step = "counted"
    /\ LET s == upload[u].target[1]
           h == upload[u].target[2] IN
       /\ photo[h] = None
       /\ photo' = [photo EXCEPT ![h] = [sale |-> s, key |-> upload[u].key]]
       /\ done' = done \cup {<<upload[u].target, upload[u].key>>}
    /\ Settle(u, {})
    /\ UNCHANGED <<tick, file, imageOf, listed, slotQueue, job, raced, begun>>

\* No such product or bill, the bill is full, the photo's id is taken, the key was used for
\* another body; or the upload is a replay.  The rows stand as they are.
RefusedOrReplayed(u) ==
    /\ upload[u] # None /\ upload[u].step \in {"written", "counted"}
    /\ Settle(u, {})
    /\ UNCHANGED <<tick, file, rowVars, slotQueue, job, raced, begun>>

\* 503: the first request with this key is still under way, and its files are these files.
StillInFlight(u) ==
    /\ upload[u] # None /\ upload[u].step = "written"
    /\ \E v \in Uploads \ {u} : upload[v] # None /\ upload[v].target = upload[u].target /\ upload[v].key = upload[u].key
    /\ upload' = [upload EXCEPT ![u] = None]
    /\ UNCHANGED <<tick, file, rowVars, slotQueue, cleanups, job, raced, begun>>

\* DELETE /products/:id/image.
ClearImage(p) ==
    /\ p \in listed /\ imageOf[p] # None
    /\ cleanups' = cleanups \cup {Cleanup(<<"product-images", imageOf[p]>>, FALSE)}
    /\ imageOf' = [imageOf EXCEPT ![p] = None]
    /\ UNCHANGED <<tick, file, listed, photo, upload, slotQueue, job, done, raced, begun>>

\* DELETE /products/:id keeps the row and what it names.
DeleteListed(p) ==
    /\ p \in listed /\ listed' = listed \ {p}
    /\ UNCHANGED <<tick, file, imageOf, photo, upload, slotQueue, cleanups, job, done, raced, begun>>

\* The process dies: what it was decoding, writing and removing stays as it is.
ServerDies ==
    /\ \E u \in Uploads : upload[u] # None
    /\ upload' = [u \in Uploads |-> None] /\ slotQueue' = <<>>
    /\ cleanups' = {c \in cleanups : c.file[1] = "product-images" /\ job # None /\ c.file[2] \in job.keys}
    /\ UNCHANGED <<tick, file, rowVars, job, raced, begun>>

ImageTick == tick < LastTick /\ tick' = tick + 1
        /\ UNCHANGED <<file, rowVars, upload, slotQueue, cleanups, job, raced, begun>>

-----------------------------------------------------------------------------
(* The import's images *)

\* processJob: the attempt begins, and writes the files of the ZIP before its transaction.
ImportImages(keys) ==
    /\ job = None /\ begun < MaxWork /\ begun' = begun + 1
    /\ job' = [startedAt |-> tick, left |-> keys, keys |-> keys, committed |-> FALSE]
    /\ UNCHANGED <<tick, file, rowVars, upload, slotQueue, cleanups, raced>>
ImportOne(key) ==
    /\ job # None /\ key \in job.left
    /\ job' = [job EXCEPT !.left = @ \ {key}]
    /\ WriteImageFiles(<<"product-images", key>>)
    /\ UNCHANGED <<tick, rowVars, upload, slotQueue, begun>>

\* The transaction replaces the catalogue, and then every file of it that no product names
\* and that is older than the job is removed: one read decides for all of them.
Predates(f) == file[f] # None /\ file[f] < job.startedAt
ImportCommits(images) ==
    /\ job # None /\ ~ job.committed /\ job.left = {} /\ \A p \in Catalogue : images[p] \in job.keys \cup {None}
    /\ imageOf' = images /\ listed' = Catalogue
    /\ job' = [job EXCEPT !.committed = TRUE]
    /\ UNCHANGED <<tick, file, photo, upload, slotQueue, cleanups, done, raced, begun>>
SweepOrphanImages ==
    /\ job # None /\ job.committed /\ job' = None
    /\ cleanups' = cleanups \cup
          {[Cleanup(f, TRUE) EXCEPT !.step = "doomed", !.raced = InFlight(f)] :
             f \in {g \in Files : g[1] = "product-images" /\ Predates(g) /\ ~ IsReferenced(g)}}
    /\ UNCHANGED <<tick, file, rowVars, upload, slotQueue, raced, begun>>

\* It never committed: the files it wrote go, if no product names them.
ImportFails ==
    /\ job # None /\ ~ job.committed /\ job' = None
    /\ cleanups' = cleanups \cup {Cleanup(<<"product-images", k>>, TRUE) : k \in job.keys \ job.left}
    /\ UNCHANGED <<tick, file, rowVars, upload, slotQueue, raced, begun>>

-----------------------------------------------------------------------------
ImagesNext ==
    \/ ImageTick \/ ServerDies \/ SweepOrphanImages \/ ImportFails
    \/ \E u \in Uploads, store \in Stores, key \in Pictures :
          \E target \in Targets(store) : BeginUpload(u, store, target, key)
    \/ \E u \in Uploads :
          \/ NotAnImage(u) \/ Prepare(u) \/ SetImage(u) \/ CountPhotos(u) \/ Attach(u)
          \/ RefusedOrReplayed(u) \/ StillInFlight(u)
    \/ \E c \in cleanups : ReadReferences(c) \/ RemoveFiles(c)
    \/ \E p \in Catalogue : ClearImage(p) \/ DeleteListed(p)
    \/ \E keys \in SUBSET Pictures : ImportImages(keys)
    \/ \E key \in Pictures : ImportOne(key)
    \/ \E images \in [Catalogue -> Pictures \cup {None}] : ImportCommits(images)

\* The two stores share the decoder's slot and nothing else.
UploadsOf(store) == \A u \in Uploads : upload'[u] = None \/ (upload'[u] # None /\ upload'[u].store = store)
PicturesNext == ImagesNext /\ UploadsOf("product-images")
PhotosNext == UNCHANGED <<imageOf, listed, job>> /\ ImagesNext /\ UploadsOf("sale-photos")

-----------------------------------------------------------------------------
(* Properties *)

\* What a product or a bill's photo names is on the disk, unless its removal ran beside an
\* upload or an import of the very same picture: no refused upload, cleared image, failed or finished
\* import takes a file that another row names.
NamedIsThere ==
    /\ \A p \in Catalogue : imageOf[p] # None =>
          LET f == <<"product-images", imageOf[p]>> IN file[f] # None \/ f \in raced
    /\ \A h \in PhotoIds : photo[h] # None =>
          LET f == <<"sale-photos", photo[h].key>> IN file[f] # None \/ f \in raced

\* Uploads to one bill, however they overlap, never leave it more photos than it may have.
FivePerBill == \A s \in Bills : Cardinality(PhotosOf(s)) <= MaxPhotos

\* Both at once: what the database says of pictures is so on the disk, and within the limit.
PicturesOrderly == NamedIsThere /\ FivePerBill
=============================================================================
