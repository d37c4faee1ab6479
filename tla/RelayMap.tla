---- MODULE RelayMap ----
(***************************************************************************)
(* The map of the DERP relays: fetched over HTTP, kept in a cache, and     *)
(* asked for again with its ETag when the copy is old (src/tailcat.go      *)
(* 1392-1521).  The library's cache is a map in memory; the program's is   *)
(* two files, which any number of processes share (src/cmd/tailcat/        *)
(* tailcat.go 859-911).                                                    *)
(***************************************************************************)
EXTENDS Naturals

CONSTANTS
  Fetcher,     \* goroutines or processes that fetch the map, once each
  None,
  Backend,     \* of the cache: a subset of "memory", "disk"
  MaxVersion,  \* bound: of maps the server publishes
  MaxAges      \* bound: how often the copy grows old

VARIABLES
  backend,
  server,  \* the version of the map, which is also its ETag
  cache,   \* data, etag, and whether the copy is younger than derpMapCacheMaxAge
  ages,
  fetch    \* where a fetcher is, the copy it holds, what it was sent, its result

vars == <<backend, server, cache, ages, fetch>>

Version == 1 .. MaxVersion
Torn == 0  \* a file between its truncation and its last write

\* decodeDERPMap: nothing, or what is not JSON, is no map.
Decodes(data) == data \in Version

-----------------------------------------------------------------------------

Stays(f, pc) == fetch' = [fetch EXCEPT ![f].pc = pc]

Returns(f, result) == fetch' = [fetch EXCEPT ![f].pc = "done", ![f].result = result]

\* staleOr: the old copy is better than none.
StaleOr(f) == IF Decodes(fetch[f].data) THEN fetch[f].data ELSE None

\* Mutant: whatever is fresh is returned.
WithAny(f, data, etag, fresh) ==
  IF data # None /\ fresh THEN Returns(f, data)
  ELSE fetch' = [fetch EXCEPT ![f].pc = "asks",
                              ![f].data = IF Decodes(data) THEN data ELSE None,
                              ![f].etag = IF Decodes(data) THEN etag ELSE None]

\* fetchDERPMap with the copy it got: a fresh one is returned, an old one is
\* revalidated, and what does not decode is forgotten with its ETag.
With(f, data, etag, fresh) ==
  IF Decodes(data) /\ fresh THEN Returns(f, data)
  ELSE fetch' = [fetch EXCEPT ![f].pc = "asks",
                              ![f].data = IF Decodes(data) THEN data ELSE None,
                              ![f].etag = IF Decodes(data) THEN etag ELSE None]

\* memDERPMapCache.Get, in one section.
Gets(f) ==
  /\ fetch[f].pc = "new" /\ backend = "memory"
  /\ With(f, cache.data, cache.etag, cache.fresh)
  /\ UNCHANGED <<backend, server, cache, ages>>

\* derpMapCache.Get: the time of the file, its content, and the other file.
Stats(f) ==
  /\ fetch[f].pc = "new" /\ backend = "disk"
  /\ IF cache.data = None THEN With(f, None, None, FALSE)
     ELSE fetch' = [fetch EXCEPT ![f].pc = "reads", ![f].fresh = cache.fresh]
  /\ UNCHANGED <<backend, server, cache, ages>>

Reads(f) ==
  /\ fetch[f].pc = "reads"
  /\ fetch' = [fetch EXCEPT ![f].pc = "tags", ![f].data = cache.data]
  /\ UNCHANGED <<backend, server, cache, ages>>

ReadsTag(f) ==
  /\ fetch[f].pc = "tags"
  /\ With(f, fetch[f].data, cache.etag, fetch[f].fresh)
  /\ UNCHANGED <<backend, server, cache, ages>>

\* The server answers: 304 if the ETag is the map's, or else the map; or there
\* is no answer, an error, or one that does not decode.
Answers(f) ==
  /\ fetch[f].pc = "asks"
  /\ \/ fetch' = [fetch EXCEPT ![f].pc = "stores", ![f].seen = server,
            ![f].got = IF fetch[f].etag = server THEN fetch[f].data ELSE server]
     \/ Returns(f, StaleOr(f))
  /\ UNCHANGED <<backend, server, cache, ages>>

\* Put and return: of what was sent with its ETag, or of the copy with its own.
Puts(f) ==
  /\ fetch[f].pc = "stores" /\ backend = "memory"
  /\ cache' = [data |-> fetch[f].got, etag |-> fetch[f].seen, fresh |-> TRUE]
  /\ Returns(f, fetch[f].got)
  /\ UNCHANGED <<backend, server, ages>>

\* On disk: the one file is cut and written, then the other.  A failure to write
\* is ignored, and leaves what was done so far.
Cuts(f) ==
  /\ fetch[f].pc = "stores" /\ backend = "disk"
  /\ \/ cache' = [cache EXCEPT !.data = Torn, !.fresh = TRUE] /\ Stays(f, "writes")
     \/ UNCHANGED cache /\ Returns(f, fetch[f].got)
  /\ UNCHANGED <<backend, server, ages>>

Writes(f) ==
  /\ fetch[f].pc = "writes"
  /\ \/ /\ cache' = [cache EXCEPT !.data = fetch[f].got, !.fresh = TRUE]
        /\ Stays(f, "writesTag")
     \/ UNCHANGED cache /\ Returns(f, fetch[f].got)
  /\ UNCHANGED <<backend, server, ages>>

WritesTag(f) ==
  /\ fetch[f].pc = "writesTag"
  /\ \E written \in {fetch[f].seen, None} : cache' = [cache EXCEPT !.etag = written]
  /\ Returns(f, fetch[f].got)
  /\ UNCHANGED <<backend, server, ages>>

\* A new map, and time that passes.
Publishes ==
  /\ server < MaxVersion
  /\ server' = server + 1
  /\ UNCHANGED <<backend, cache, ages, fetch>>

GrowsOld ==
  /\ cache.fresh /\ ages < MaxAges
  /\ cache' = [cache EXCEPT !.fresh = FALSE]
  /\ ages' = ages + 1
  /\ UNCHANGED <<backend, server, fetch>>

\* A process ends: on disk, its work is left where it is.
Dies(f) ==
  /\ backend = "disk" /\ fetch[f].pc \notin {"new", "done"}
  /\ Returns(f, None)
  /\ UNCHANGED <<backend, server, cache, ages>>

\* The cache is empty, or an earlier fetch has filled it.
Init ==
  /\ backend \in Backend
  /\ server = 1
  /\ cache \in {[data |-> None, etag |-> None, fresh |-> FALSE],
               [data |-> 1, etag |-> 1, fresh |-> TRUE]}
  /\ ages = 0
  /\ fetch = [f \in Fetcher |->
       [pc |-> "new", data |-> None, etag |-> None, fresh |-> FALSE,
        seen |-> None, got |-> None, result |-> None]]

Next ==
  \/ Publishes \/ GrowsOld
  \/ \E f \in Fetcher :
       Gets(f) \/ Stats(f) \/ Reads(f) \/ ReadsTag(f) \/ Answers(f)
         \/ Puts(f) \/ Cuts(f) \/ Writes(f) \/ WritesTag(f) \/ Dies(f)

Spec == Init /\ [][Next]_vars

-----------------------------------------------------------------------------
(* Properties *)

\* What a fetcher keeps.
Fetch ==
  [pc : {"new", "reads", "tags", "asks", "stores", "writes", "writesTag", "done"},
   data : Version \cup {Torn, None}, etag : Version \cup {None}, fresh : BOOLEAN,
   seen : Version \cup {None}, got : Version \cup {None}, result : Version \cup {Torn, None}]

\* Every variable has its type.
TypeOK ==
  /\ backend \in Backend
  /\ server \in Version
  /\ cache \in [data : Version \cup {Torn, None}, etag : Version \cup {None}, fresh : BOOLEAN]
  /\ ages \in 0 .. MaxAges
  /\ fetch \in [Fetcher -> Fetch]

\* A fetch the server has answered returns the map that was the server's then: a
\* copy confirmed by a 304 is not an older one that stands beside a newer one's
\* ETag (tailcat.go:1490-1494).  On disk, where a map and its ETag are two files,
\* it does not hold.
ConfirmedIsCurrent ==
  \A f \in Fetcher :
    fetch[f].pc = "done" /\ fetch[f].seen # None => fetch[f].result \in {fetch[f].seen, None}

\* No fetch returns a file that was cut off (tailcat.go:1511-1521), and in memory
\* none returns a copy the server did not stand by.
MapsAreWhole ==
  /\ \A f \in Fetcher : fetch[f].result # Torn
  /\ backend = "memory" => ConfirmedIsCurrent

\* What keeps it.  A copy a fetcher asks with is a map, or it has no copy and no ETag;
\* what it stores is a map; and in memory, where a map and its ETag are one, both are
\* the server's answer.
WholeCopies ==
  \A f \in Fetcher :
    /\ fetch[f].pc = "asks" =>
         /\ fetch[f].data \in Version \cup {None}
         /\ fetch[f].etag # None => fetch[f].data # None
    /\ fetch[f].pc \in {"stores", "writes", "writesTag"} => fetch[f].got \in Version
    /\ fetch[f].result # Torn

OneInMemory ==
  /\ cache.data = cache.etag
  /\ \A f \in Fetcher :
       /\ fetch[f].pc \in {"new", "asks", "stores", "done"}
       /\ fetch[f].pc \in {"new", "asks"} => fetch[f].seen = None
       /\ fetch[f].pc = "asks" => fetch[f].data = fetch[f].etag
       /\ fetch[f].pc = "stores" => fetch[f].got = fetch[f].seen

MapInv ==
  /\ TypeOK /\ WholeCopies
  /\ backend = "memory" => OneInMemory /\ ConfirmedIsCurrent

=============================================================================
