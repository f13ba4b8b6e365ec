-------------------------- MODULE VisionTokenCache --------------------------
(* VisionTokenCachePlugin (plugins/vision_token_cache.py): the last tokens of *)
(* each camera with the fingerprint of the frame they encode.  A frame is its *)
(* own fingerprint (SHA-256 is taken to be collision-free).                   *)
EXTENDS OrderedDict

CONSTANT MaxEntries          \* config.max_entries

VARIABLE tokencache          \* the plugin: its cache, hits and misses

Init == tokencache = [cache |-> <<>>, hits |-> 0, misses |-> 0]

\* Mutant of Reusable: tokens are reused whatever the frame is.
ReusableByCamera(camera, image) == camera \in Keys(tokencache.cache)

Reusable(camera, image) ==
    /\ camera \in Keys(tokencache.cache)
    /\ Value(tokencache.cache, camera).fingerprint = image

Lookup(camera) == Value(tokencache.cache, camera).tokens

\* A hit leaves the camera where it is in the order.
Hit(camera, image) ==
    /\ Reusable(camera, image)
    /\ tokencache' = [tokencache EXCEPT !.hits = @ + 1]

Miss(camera, image) == ~Reusable(camera, image) /\ UNCHANGED tokencache

Store(camera, image, tokens) ==
    tokencache' = [tokencache EXCEPT
                     !.misses = @ + 1,
                     !.cache = Trim(PutLast(@, camera, [fingerprint |-> image, tokens |-> tokens]),
                                    MaxEntries)]
=============================================================================
