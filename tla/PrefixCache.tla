---------------------------- MODULE PrefixCache -----------------------------
(* PrefixCachePlugin (plugins/prefix_cache.py): one prefix per normalized     *)
(* instruction, least recently used first out.  Each critical section of      *)
(* _lock is an action; the prefixer runs between get_or_compute's two.        *)
EXTENDS OrderedDict

CONSTANTS
    MaxEntries,              \* config.max_entries
    Key(_)                   \* _key: the instruction without redundant whitespace

VARIABLE prefix              \* the plugin: its cache, hits and misses

Init == prefix = [cache |-> <<>>, hits |-> 0, misses |-> 0]

Cached(text) == Key(text) \in Keys(prefix.cache)

Lookup(text) == Value(prefix.cache, Key(text))

Hit(text) ==
    /\ Cached(text)
    /\ prefix' = [prefix EXCEPT !.hits = @ + 1, !.cache = Touch(@, Key(text))]

\* A miss changes nothing until the prefix has been computed.
Miss(text) == ~Cached(text) /\ UNCHANGED prefix

Stored(cache, text, value) == Trim(PutLast(cache, Key(text), value), MaxEntries)

Store(text, value) ==
    prefix' = [prefix EXCEPT !.misses = @ + 1, !.cache = Stored(@, text, value)]
=============================================================================
