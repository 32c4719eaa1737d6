-------------------------------- MODULE Images --------------------------------
(***************************************************************************)
(* Images (images.go): one user uploads them, standalone or for a record,  *)
(* within a quota; they are served through a cache, which holds by which   *)
(* rule each is shown: that of the record that owns it or, of a standalone *)
(* one, its own access.  What a rule answers is asked at every request and *)
(* is not the cache's affair; resizing, formats and metadata are left out. *)
(***************************************************************************)
EXTENDS Cache

CONSTANTS
  Refs,        \* hashes
  Records,     \* what images may be uploaded for
  Sizes, MaxUserImages, MaxUserBytes,
  Uploads,     \* uploads under way
  MaxTime      \* bound: the clock's last instant

ASSUME ImagesAssumption ==
  /\ IsFiniteSet(Refs) /\ IsFiniteSet(Uploads) /\ Uploads # {}
  /\ IsFiniteSet(Sizes) /\ Sizes # {} /\ Sizes \subseteq Nat
  /\ {MaxUserImages, MaxUserBytes, MaxTime} \subseteq Nat

Standalone == "standalone"
Absent == "absent"
Rules == Records \cup {Standalone, Absent}

VARIABLES
  now,
  images,     \* the table: ref -> [owner, size]
  imageCache,
  upload,     \* what every upload is at
  left,       \* history: when a rule last held of a ref
  published   \* history: when a ref was put in the cache by its upload

imagesVars == <<now, images, imageCache, upload, left, published>>
marks == <<left, published>>

NoUpload == [at |-> "idle"]
LongAgo == 0

(* No two uploads have the same hash.                                       *)
Unused(ref) == left[ref][Absent] = LongAgo
RuleOf(ref) == IF ref \in DOMAIN images THEN images[ref].owner ELSE Absent

ImagesInit ==
  /\ now = TTL
  /\ images = <<>> /\ imageCache = EmptyCache
  /\ upload = [u \in Uploads |-> NoUpload]
  /\ left = [ref \in Refs |-> [r \in Rules |-> LongAgo]]
  /\ published = [ref \in Refs |-> LongAgo]

-----------------------------------------------------------------------------
(* Process.                                                                *)
Goes(u, state) == upload' = [upload EXCEPT ![u] = state]

Ask(u, owner, size) ==
  /\ upload[u] = NoUpload
  /\ Goes(u, [at |-> "quota", owner |-> owner, size |-> size])
  /\ UNCHANGED <<now, images, imageCache, marks>>

UsedBytes == SumFunction([ref \in DOMAIN images |-> images[ref].size])

(* Mutant: what is uploaded does not count.                                 *)
WithinQuotaSoFar(size) ==
  /\ Cardinality(DOMAIN images) < MaxUserImages
  /\ UsedBytes <= MaxUserBytes

WithinQuota(size) ==
  /\ Cardinality(DOMAIN images) < MaxUserImages
  /\ UsedBytes + size <= MaxUserBytes

CheckQuota(u) ==
  /\ upload[u].at = "quota"
  /\ Goes(u, IF WithinQuota(upload[u].size) THEN [upload[u] EXCEPT !.at = "insert"] ELSE NoUpload)
  /\ UNCHANGED <<now, images, imageCache, marks>>

Insert(u, ref) ==
  /\ upload[u].at = "insert" /\ Unused(ref)
  /\ images' = With(images, ref, [owner |-> upload[u].owner, size |-> upload[u].size])
  /\ left' = [left EXCEPT ![ref][Absent] = now]
  /\ Goes(u, [at |-> "publish", ref |-> ref, size |-> upload[u].size])
  /\ UNCHANGED <<now, imageCache, published>>

InsertFails(u) ==
  /\ upload[u].at \in {"quota", "insert"}
  /\ Goes(u, NoUpload)
  /\ UNCHANGED <<now, images, imageCache, marks>>

(* The entry the upload itself makes has no owner.                          *)
Publish(u) ==
  /\ upload[u].at = "publish"
  /\ imageCache' \in Store(imageCache, upload[u].ref, Standalone, upload[u].size, now)
  /\ published' = [published EXCEPT ![upload[u].ref] = now]
  /\ Goes(u, NoUpload)
  /\ UNCHANGED <<now, images, left>>

-----------------------------------------------------------------------------
(* ServeByRef, loadImage, canViewImage.                                    *)
SizeOf(ref) == IF ref \in DOMAIN images THEN images[ref].size ELSE 0

Loaded(ref) == Load(imageCache, ref, RuleOf(ref), SizeOf(ref), now)

ServeCached(ref) ==
  /\ IsFresh(imageCache, ref, now)
  /\ imageCache' = Touch(imageCache, ref, now)
  /\ UNCHANGED <<now, images, upload, marks>>

ServeLoaded(ref) ==
  /\ ~IsFresh(imageCache, ref, now)
  /\ imageCache' \in Loaded(ref)
  /\ UNCHANGED <<now, images, upload, marks>>

LoadFails(ref) ==
  /\ ref \in Keys(imageCache) /\ ~IsFresh(imageCache, ref, now)
  /\ imageCache' = Without(imageCache, {ref})
  /\ UNCHANGED <<now, images, upload, marks>>

-----------------------------------------------------------------------------
(* The engine's routes: rows are edited and deleted, and the cache is not   *)
(* told.                                                                    *)
EditImage(ref, owner) ==
  /\ ref \in DOMAIN images /\ owner # images[ref].owner
  /\ images' = [images EXCEPT ![ref].owner = owner]
  /\ left' = [left EXCEPT ![ref][images[ref].owner] = now]
  /\ UNCHANGED <<now, imageCache, upload, published>>

RemoveImage(ref) ==
  /\ ref \in DOMAIN images
  /\ images' = [r \in DOMAIN images \ {ref} |-> images[r]]
  /\ left' = [left EXCEPT ![ref][images[ref].owner] = now]
  /\ UNCHANGED <<now, imageCache, upload, published>>

Tick ==
  /\ now < MaxTime /\ now' = now + 1
  /\ UNCHANGED <<images, imageCache, upload, marks>>

Owners == Records \cup {Standalone}

Uploading(u) ==
  \/ \E owner \in Owners, size \in Sizes : Ask(u, owner, size)
  \/ CheckQuota(u) \/ InsertFails(u) \/ Publish(u)
  \/ \E ref \in Refs : Insert(u, ref)
Serving == \E ref \in Refs : ServeCached(ref) \/ ServeLoaded(ref) \/ LoadFails(ref)
Managing ==
  \E ref \in Refs : RemoveImage(ref) \/ \E owner \in Owners : EditImage(ref, owner)

ImagesNext == Tick \/ Serving \/ Managing \/ \E u \in Uploads : Uploading(u)

ImagesSpec == ImagesInit /\ [][ImagesNext]_imagesVars

-----------------------------------------------------------------------------
(* Properties.                                                             *)

(* The bytes the cache counts are those of its entries, and within its      *)
(* bound, whatever is replaced, expires or is evicted (store, remove,       *)
(* evict).                                                                  *)
BytesCounted ==
  /\ imageCache.curBytes = Bytes(imageCache, Keys(imageCache))
  /\ imageCache.curBytes <= MaxBytes

(* The rule an entry holds is one the image's row had not longer ago than   *)
(* entries live, or the upload was not longer ago than that: using an entry *)
(* does not keep it past its time (Get, loadImage).                         *)
RuleIsRecent ==
  \A ref \in Keys(imageCache) : IsFresh(imageCache, ref, now) =>
    LET rule == imageCache.data[ref].value
    IN  \/ rule = RuleOf(ref)
        \/ now < left[ref][rule] + TTL
        \/ now < published[ref] + TTL

(* Both, of the cache of images.                                           *)
CacheSound == BytesCounted /\ RuleIsRecent

(* The quota looks first and inserts later: a user gets past it by no more  *)
(* than the other uploads under way bring (Process).                        *)
Others == Cardinality(Uploads) - 1
QuotaNearlyKept ==
  /\ Cardinality(DOMAIN images) <= MaxUserImages + Others
  /\ UsedBytes <= MaxUserBytes + Others * Max(Sizes)
===============================================================================
